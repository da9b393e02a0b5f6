------------------------ MODULE TPoolAllocatorProofs ------------------------
(***************************************************************************)
(* The pool allocator for every number of pools and all sizes asked for.   *)
(***************************************************************************)
EXTENDS TPoolAllocator, Induction, TLAPS

\* The chain holds its pools in the order they were created.
InOrder ==
    /\ first = 0 => created = 0
    /\ current = 0 => pools = {} /\ freeList = 0
    /\ current # 0 => /\ first \in 1 .. current
                      /\ pools = first .. created
    /\ \A p \in pools : next[p] = IF p < created THEN p + 1 ELSE 0
    /\ \A p \in Pool : p > created => next[p] = 0

\* No pool behind the one in use holds an item, and none with room for one holds
\* more than its size.
UsedInOrder ==
    /\ \A p \in Pool : p > created \/ (current # 0 /\ p > current) => used[p] = 0
    /\ \A p \in pools : used[p] <= size[p] \/ size[p] = 0

\* The items that are out are those below the index of an allocated pool.
HandedIsUsed ==
    handed = {item \in pools \X Nat : item[2] < used[item[1]]}

IInv == TypeOK /\ InOrder /\ UsedInOrder /\ HandedIsUsed
                /\ FreeListIsRest /\ FaultWithoutPool

\* The pool that alloc() and resize() move to, and the chain after the move.
LEMMA GrownChain ==
    ASSUME IInv, current # 0, NEW n \in Nat, GrowChain(n), Usable, fault' = fault
    PROVE  /\ current' = current + 1
           /\ current' \in Pool /\ used[current'] = 0
           /\ current' \in pools' /\ pools \subseteq pools'
           /\ size' \in [Pool -> Nat]
           /\ \A p \in pools : size'[p] = size[p]
           /\ \A p \in pools' : p \in pools \/ (p = current' /\ p > created)
           /\ first' = first /\ created' \in created .. created + 1
           /\ created' \in 0 .. MaxPools
           /\ InOrder' /\ FreeListIsRest'
           /\ {first, current, freeList}' \subseteq 0 .. created'
           /\ capacity' \in Nat
           /\ pools' \subseteq 1 .. created'
           /\ next' \in [Pool -> 0 .. created']
<1>1. /\ first \in 1 .. current /\ current \in 1 .. created /\ created \in 1 .. MaxPools
      /\ pools = first .. created /\ current \in pools /\ current \in Pool
      /\ MaxPools \in Nat
      /\ next[current] = IF current < created THEN current + 1 ELSE 0
      /\ freeList = next[current]
  <2>1. /\ {first, current, freeList} \subseteq 0 .. created /\ created \in 0 .. MaxPools
        /\ MaxPools \in Nat
    BY MaxPoolsAssumption DEF IInv, TypeOK
  <2>2. /\ first \in 1 .. current /\ pools = first .. created
        /\ \A p \in pools : next[p] = IF p < created THEN p + 1 ELSE 0
        /\ freeList = next[current]
    BY DEF IInv, InOrder, FreeListIsRest
  <2>3. /\ current \in 1 .. created /\ created \in 1 .. MaxPools
        /\ current \in pools /\ current \in Pool
    BY <2>1, <2>2 DEF Pool
  <2> QED
    BY <2>1, <2>2, <2>3
<1>2. CASE freeList # 0
  <2>1. /\ current < created /\ freeList = current + 1
        /\ current' = current + 1 /\ freeList' = next[current + 1]
        /\ current + 1 \in pools /\ current + 1 \in Pool
    BY <1>1, <1>2 DEF GrowChain, Pool
  <2>2. next' = next
    BY <2>1, <1>1, <1>2 DEF GrowChain, IInv, TypeOK
  <2>3. /\ first' = first /\ capacity' = capacity /\ created' = created
        /\ pools' = pools /\ size' = size
    BY <1>2 DEF GrowChain
  <2>4. InOrder'
    BY <2>1, <2>2, <2>3, <1>1 DEF IInv, InOrder, TypeOK
  <2>5. FreeListIsRest'
    BY <2>1, <2>2 DEF FreeListIsRest
  <2>6. next[current + 1] \in 0 .. created /\ used[current + 1] = 0
    BY <2>1, <1>1 DEF IInv, TypeOK, UsedInOrder
  <2> QED
    BY <2>1, <2>2, <2>3, <2>4, <2>5, <2>6, <1>1 DEF IInv, TypeOK
<1>3. CASE freeList = 0
  <2>1. current = created
    BY <1>1, <1>3
  <2>2. /\ created < MaxPools /\ created' = created + 1
        /\ pools' = pools \cup {created + 1}
        /\ size' = [size EXCEPT ![created + 1] = n]
        /\ next' = [next EXCEPT ![current] = created + 1]
        /\ current' = created + 1 /\ first' = first /\ freeList' = freeList
        /\ capacity' = capacity + n
    BY <1>3 DEF GrowChain, NewPool, Counted
  <2>3. created + 1 \in Pool /\ created + 1 > created /\ created + 1 \notin pools
    BY <2>2, <1>1 DEF Pool
  <2>4. next' \in [Pool -> 0 .. created'] /\ size' \in [Pool -> Nat] /\ capacity' \in Nat
    <3>1. next \in [Pool -> 0 .. created] /\ size \in [Pool -> Nat] /\ capacity \in Nat /\ n \in Nat
      BY DEF IInv, TypeOK
    <3>2. 0 .. created \subseteq 0 .. created + 1 /\ created + 1 \in 0 .. created + 1
      BY <1>1
    <3>3. next' \in [Pool -> 0 .. created + 1]
      BY <3>1, <3>2, <2>2, <1>1
    <3>4. next' \in [Pool -> 0 .. created']
      BY <3>3, <2>2
    <3>5. size' \in [Pool -> Nat]
      BY <3>1, <2>2, <2>3
    <3>6. capacity' \in Nat
      BY <3>1, <2>2
    <3> QED
      BY <3>4, <3>5, <3>6
  <2>5. /\ \A p \in Pool : next'[p] = IF p = current THEN created + 1 ELSE next[p]
        /\ \A p \in Pool : size'[p] = IF p = created + 1 THEN n ELSE size[p]
    BY <2>2 DEF IInv, TypeOK
  <2>6. InOrder'
    <3>1. pools' = first .. created + 1
      BY <2>2, <1>1
    <3>2. \A p \in pools' : next'[p] = IF p < created + 1 THEN p + 1 ELSE 0
      <4> SUFFICES ASSUME NEW p \in pools'
                   PROVE  next'[p] = IF p < created + 1 THEN p + 1 ELSE 0
        OBVIOUS
      <4>1. p \in Pool /\ p \in Nat
        BY <3>1, <2>2, <1>1 DEF Pool
      <4>2. CASE p = created + 1
        BY <4>1, <4>2, <2>3, <2>5, <2>1, <1>1 DEF IInv, InOrder
      <4>3. CASE p \in pools
        <5>1. next[p] = IF p < created THEN p + 1 ELSE 0
          BY <4>3 DEF IInv, InOrder
        <5>2. p <= created /\ created \in Nat
          BY <4>3, <1>1
        <5>3. CASE p = current
          BY <5>3, <2>5, <2>1, <5>2, <4>1
        <5>4. CASE p # current
          BY <5>4, <5>1, <5>2, <2>5, <2>1, <4>1
        <5> QED
          BY <5>3, <5>4
      <4> QED
        BY <4>2, <4>3, <2>2
    <3>3. \A p \in Pool : p > created + 1 => next'[p] = 0
      BY <2>5, <2>1, <1>1 DEF IInv, InOrder, Pool
    <3> QED
      BY <3>1, <3>2, <3>3, <2>2, <1>1 DEF InOrder
  <2>7. FreeListIsRest'
    BY <2>1, <2>2, <2>3, <2>5, <1>1, <1>3 DEF FreeListIsRest, IInv, InOrder
  <2>8. \A p \in pools : p \in Pool /\ p # created + 1
    BY <1>1 DEF Pool
  <2>9. used[created + 1] = 0
    BY <2>3 DEF IInv, UsedInOrder
  <2> QED
    BY <2>1, <2>2, <2>3, <2>4, <2>5, <2>6, <2>7, <2>8, <2>9, <1>1, <1>3 DEF IInv, TypeOK
<1> QED
  BY <1>2, <1>3

LEMMA InitIInv == Init => IInv
<1> SUFFICES ASSUME Init PROVE IInv
  OBVIOUS
<1>1. TypeOK
  <2>1. /\ next \in [Pool -> 0 .. created]
        /\ size \in [Pool -> Nat] /\ used \in [Pool -> Nat]
    BY DEF Init
  <2>2. {first, current, freeList} \subseteq 0 .. created /\ created \in 0 .. MaxPools
    BY MaxPoolsAssumption DEF Init
  <2>3. capacity \in Nat /\ pools \subseteq 1 .. created /\ handed \subseteq Pool \X Nat
    BY DEF Init
  <2> QED
    BY <2>1, <2>2, <2>3 DEF Init, TypeOK
<1>2. InOrder /\ UsedInOrder /\ FreeListIsRest /\ FaultWithoutPool
  BY DEF Init, InOrder, UsedInOrder, FreeListIsRest, FaultWithoutPool
<1>3. HandedIsUsed
  BY DEF Init, HandedIsUsed
<1> QED
  BY <1>1, <1>2, <1>3 DEF IInv

LEMMA AllocHereIInv == IInv /\ AllocHere => IInv'
<1> SUFFICES ASSUME IInv, AllocHere PROVE IInv'
  OBVIOUS
<1>1. /\ current \in pools /\ current \in Pool /\ used[current] \in Nat
      /\ used[current] < size[current] \/ size[current] = 0
  <2>1. current # 0 /\ used[current] # size[current]
    BY DEF AllocHere, Full
  <2>2. current \in pools /\ current \in Pool
    <3>1. /\ {first, current, freeList} \subseteq 0 .. created /\ created \in 0 .. MaxPools
          /\ first \in 1 .. current /\ pools = first .. created
      BY <2>1 DEF IInv, TypeOK, InOrder
    <3>2. MaxPools \in Nat
      BY MaxPoolsAssumption
    <3> QED
      BY <3>1, <3>2 DEF Pool
  <2>3. used[current] \in Nat /\ size[current] \in Nat /\ (used[current] <= size[current] \/ size[current] = 0)
    BY <2>2 DEF IInv, TypeOK, UsedInOrder
  <2> QED
    BY <2>1, <2>2, <2>3
<1>2. /\ used' = [used EXCEPT ![current] = used[current] + 1]
      /\ handed' = handed \cup {<<current, used[current]>>}
      /\ UNCHANGED <<first, current, freeList, capacity, created, pools, next, size, fault>>
  BY DEF AllocHere, NextItem, chain, heap
<1>3. \A p \in Pool : used'[p] = IF p = current THEN used[current] + 1 ELSE used[p]
  BY <1>2 DEF IInv, TypeOK
<1>4. TypeOK'
  BY <1>1, <1>2 DEF IInv, TypeOK
<1>5. InOrder' /\ FreeListIsRest' /\ FaultWithoutPool'
  BY <1>2 DEF IInv, InOrder, FreeListIsRest, FaultWithoutPool
<1>6. UsedInOrder'
  <2>1. ASSUME NEW p \in Pool, p > created' \/ (current' # 0 /\ p > current')
        PROVE  used'[p] = 0
    <3>1. p # current
      BY <2>1, <1>1, <1>2, MaxPoolsAssumption DEF IInv, TypeOK, Pool
    <3> QED
      BY <2>1, <3>1, <1>2, <1>3 DEF IInv, UsedInOrder
  <2>2. ASSUME NEW p \in pools' PROVE used'[p] <= size'[p] \/ size'[p] = 0
    <3>1. p \in Pool /\ p \in pools /\ size[p] \in Nat /\ size' = size
      BY <1>2, MaxPoolsAssumption DEF IInv, TypeOK, Pool
    <3>2. used[p] <= size[p] \/ size[p] = 0
      BY <3>1 DEF IInv, UsedInOrder
    <3> QED
      BY <3>1, <3>2, <1>1, <1>3
  <2> QED
    BY <2>1, <2>2 DEF UsedInOrder
<1>7. HandedIsUsed'
  <2>1. pools \subseteq Pool
    BY MaxPoolsAssumption DEF IInv, TypeOK, Pool
  <2>2. ASSUME NEW item PROVE item \in handed' <=> item \in pools \X Nat /\ item[2] < used'[item[1]]
    <3>1. item \in handed => item \in pools \X Nat /\ item[2] < used[item[1]]
      BY DEF IInv, HandedIsUsed
    <3>2. item \in pools \X Nat /\ item[2] < used[item[1]] => item \in handed
      BY DEF IInv, HandedIsUsed
    <3>3. CASE item = <<current, used[current]>>
      BY <3>3, <1>1, <1>2, <1>3
    <3>4. CASE item # <<current, used[current]>>
      <4>1. item \in handed' <=> item \in handed
        BY <3>4, <1>2
      <4>2. ASSUME item \in pools \X Nat
            PROVE  item[2] < used'[item[1]] <=> item[2] < used[item[1]]
        <5>1. PICK p \in pools, i \in Nat : item = <<p, i>>
          BY <4>2
        <5>2. used[p] \in Nat
          BY <2>1 DEF IInv, TypeOK
        <5> QED
          BY <5>1, <5>2, <3>4, <2>1, <1>1, <1>3
      <4> QED
        BY <4>1, <4>2, <3>1, <3>2
    <3> QED
      BY <3>3, <3>4
  <2> QED
    BY <2>2, <1>2 DEF HandedIsUsed
<1> QED
  BY <1>4, <1>5, <1>6, <1>7 DEF IInv

LEMMA AllocGrownIInv == IInv /\ AllocGrown => IInv'
<1> SUFFICES ASSUME IInv, AllocGrown PROVE IInv'
  OBVIOUS
<1>1. /\ GrowChain(size[current]) /\ current # 0 /\ Usable /\ fault' = fault
      /\ handed' = handed \cup {<<current', used[current']>>}
      /\ used' = [used EXCEPT ![current'] = used[current'] + 1]
  BY DEF AllocGrown
<1>2. current \in pools /\ current \in Pool /\ size[current] \in Nat
  <2>1. current \in pools
    BY <1>1 DEF IInv, TypeOK, InOrder
  <2>2. current \in Pool
    BY <2>1, MaxPoolsAssumption DEF IInv, TypeOK, Pool
  <2> QED
    BY <2>1, <2>2 DEF IInv, TypeOK, UsedInOrder
<1>3. /\ current' = current + 1
      /\ current' \in Pool /\ used[current'] = 0
      /\ current' \in pools' /\ pools \subseteq pools'
      /\ size' \in [Pool -> Nat]
      /\ \A p \in pools : size'[p] = size[p]
      /\ \A p \in pools' : p \in pools \/ (p = current' /\ p > created)
      /\ first' = first /\ created' \in created .. created + 1
      /\ created' \in 0 .. MaxPools
      /\ InOrder' /\ FreeListIsRest'
      /\ {first, current, freeList}' \subseteq 0 .. created'
      /\ capacity' \in Nat
      /\ pools' \subseteq 1 .. created'
      /\ next' \in [Pool -> 0 .. created']
  BY <1>1, <1>2, GrownChain
<1>4. \A p \in Pool : used'[p] = IF p = current' THEN 1 ELSE used[p]
  BY <1>1, <1>3 DEF IInv, TypeOK
<1>5. TypeOK'
  <2>1. used' \in [Pool -> Nat]
    BY <1>1, <1>3 DEF IInv, TypeOK
  <2>2. handed' \subseteq Pool \X Nat
    BY <1>1, <1>3 DEF IInv, TypeOK
  <2> QED
    BY <1>1, <1>3, <2>1, <2>2 DEF IInv, TypeOK
<1>6. UsedInOrder'
  <2>1. ASSUME NEW p \in Pool, p > created' \/ (current' # 0 /\ p > current')
        PROVE  used'[p] = 0
    <3>1. p # current' /\ (p > created \/ p > current)
      BY <2>1, <1>2, <1>3 DEF IInv, TypeOK, Pool
    <3> QED
      BY <3>1, <1>1, <1>4 DEF IInv, UsedInOrder
  <2>2. ASSUME NEW p \in pools' PROVE used'[p] <= size'[p] \/ size'[p] = 0
    <3>1. p \in Pool /\ size'[p] \in Nat
      BY <1>3, MaxPoolsAssumption DEF IInv, TypeOK, Pool
    <3>2. CASE p = current'
      BY <3>1, <3>2, <1>3, <1>4
    <3>3. CASE p # current'
      BY <3>1, <3>3, <1>3, <1>4 DEF IInv, UsedInOrder
    <3> QED
      BY <3>2, <3>3
  <2> QED
    BY <2>1, <2>2 DEF UsedInOrder
<1>7. HandedIsUsed'
  <2>1. pools' \subseteq Pool
    BY <1>3, MaxPoolsAssumption DEF Pool
  <2>2. \A p \in pools' : used[p] \in Nat /\ (p \notin pools => used[p] = 0)
    BY <2>1, <1>3 DEF IInv, TypeOK
  <2>3. ASSUME NEW item
        PROVE  item \in handed' <=> item \in pools' \X Nat /\ item[2] < used'[item[1]]
    <3>1. item \in handed <=> item \in pools \X Nat /\ item[2] < used[item[1]]
      BY DEF IInv, HandedIsUsed
    <3>2. CASE item \in pools' \X Nat
      <4>1. PICK p \in pools', i \in Nat : item = <<p, i>>
        BY <3>2
      <4>2. item \in handed <=> i < used[p]
        BY <4>1, <3>1, <2>2
      <4>3. item \in handed' <=> item \in handed \/ (p = current' /\ i = 0)
        BY <4>1, <1>1, <1>3
      <4>4. used'[p] = IF p = current' THEN 1 ELSE used[p]
        BY <2>1, <1>4
      <4> QED
        BY <4>1, <4>2, <4>3, <4>4, <1>3, <2>2
    <3>3. CASE item \notin pools' \X Nat
      <4>1. item \notin pools \X Nat
        BY <3>3, <1>3
      <4>2. item # <<current', used[current']>>
        BY <3>3, <1>3
      <4> QED
        BY <4>1, <4>2, <3>1, <3>3, <1>1
    <3> QED
      BY <3>2, <3>3
  <2> QED
    BY <2>3 DEF HandedIsUsed
<1>8. FaultWithoutPool'
  BY <1>1 DEF FaultWithoutPool, Usable
<1> QED
  BY <1>3, <1>5, <1>6, <1>7, <1>8 DEF IInv

LEMMA ReleaseIInv == IInv /\ Release => IInv'
<1> SUFFICES ASSUME IInv, Release PROVE IInv'
  OBVIOUS
<1>1. /\ used' = [p \in Pool |-> 0] /\ handed' = {}
      /\ freeList' = next[first] /\ current' = first
      /\ UNCHANGED <<first, capacity, created, pools, next, size, fault>>
      /\ Usable /\ current # 0
  BY DEF Release, Rewound, BehindFirst, heap
<1>2. first \in Pool /\ first # 0 /\ first \in 1 .. created
  BY <1>1, MaxPoolsAssumption DEF IInv, TypeOK, InOrder, Pool
<1>3. TypeOK'
  <2>1. used' \in [Pool -> Nat] /\ handed' \subseteq Pool \X Nat
    BY <1>1
  <2>2. {first, current, freeList}' \subseteq 0 .. created'
    BY <1>1, <1>2 DEF IInv, TypeOK
  <2> QED
    BY <1>1, <2>1, <2>2 DEF IInv, TypeOK
<1>4. InOrder'
  BY <1>1, <1>2 DEF IInv, TypeOK, InOrder
<1>5. UsedInOrder'
  BY <1>1, MaxPoolsAssumption DEF IInv, TypeOK, UsedInOrder, Pool
<1>6. HandedIsUsed'
  <2>1. pools \subseteq Pool
    BY MaxPoolsAssumption DEF IInv, TypeOK, Pool
  <2> QED
    BY <1>1, <2>1 DEF HandedIsUsed
<1>7. FreeListIsRest' /\ FaultWithoutPool'
  BY <1>1 DEF FreeListIsRest, FaultWithoutPool, Usable
<1> QED
  BY <1>3, <1>4, <1>5, <1>6, <1>7 DEF IInv

LEMMA ClearIInv == IInv /\ Clear => IInv'
<1> SUFFICES ASSUME IInv, Clear PROVE IInv'
  OBVIOUS
<1>1. /\ pools' = {} /\ handed' = {} /\ current' = 0 /\ freeList' = 0
      /\ UNCHANGED <<first, capacity, created, next, size, used, fault>>
      /\ Usable
  BY DEF Clear
<1>2. TypeOK'
  BY <1>1, MaxPoolsAssumption DEF IInv, TypeOK
<1>3. InOrder'
  BY <1>1 DEF IInv, InOrder
<1>4. UsedInOrder' /\ HandedIsUsed'
  BY <1>1 DEF IInv, UsedInOrder, HandedIsUsed
<1>5. FreeListIsRest' /\ FaultWithoutPool'
  BY <1>1 DEF FreeListIsRest, FaultWithoutPool, Usable
<1> QED
  BY <1>2, <1>3, <1>4, <1>5 DEF IInv

LEMMA ReserveIInv == ASSUME NEW n \in Sizes PROVE IInv /\ Reserve(n) => IInv'
<1> SUFFICES ASSUME IInv, Reserve(n) PROVE IInv'
  OBVIOUS
<1>1. /\ created < MaxPools /\ created' = created + 1
      /\ pools' = {created + 1}
      /\ size' = [size EXCEPT ![created + 1] = n]
      /\ first' = created + 1 /\ current' = created + 1
      /\ freeList' = 0 /\ capacity' = n /\ handed' = {}
      /\ UNCHANGED <<next, used, fault>> /\ Usable
  BY DEF Reserve, IInv, InOrder
<1>2. created + 1 \in Pool /\ created \in Nat /\ n \in Nat /\ MaxPools \in Nat
  BY <1>1, MaxPoolsAssumption, SizesAssumption DEF IInv, TypeOK, Pool
<1>3. /\ size' \in [Pool -> Nat]
      /\ \A p \in Pool : size'[p] = IF p = created + 1 THEN n ELSE size[p]
  BY <1>1, <1>2 DEF IInv, TypeOK
<1>4. next[created + 1] = 0 /\ used[created + 1] = 0
  BY <1>2 DEF IInv, InOrder, UsedInOrder
<1>5. TypeOK'
  <2>1. next' \in [Pool -> 0 .. created']
    <3>1. 0 .. created \subseteq 0 .. created + 1
      BY <1>2
    <3>2. next' \in [Pool -> 0 .. created]
      BY <1>1 DEF IInv, TypeOK
    <3> QED
      BY <3>1, <3>2, <1>1
  <2>2. /\ {first, current, freeList}' \subseteq 0 .. created'
        /\ created' \in 0 .. MaxPools /\ pools' \subseteq 1 .. created'
    BY <1>1, <1>2
  <2>3. capacity' \in Nat /\ handed' \subseteq Pool \X Nat
    BY <1>1, <1>2
  <2> QED
    BY <1>1, <1>3, <2>1, <2>2, <2>3 DEF IInv, TypeOK
<1>6. InOrder'
  <2>1. pools' = first' .. created' /\ first' \in 1 .. current' /\ current' # 0
    BY <1>1, <1>2
  <2>2. \A p \in pools' : next'[p] = IF p < created' THEN p + 1 ELSE 0
    BY <1>1, <1>2, <1>4
  <2>3. \A p \in Pool : p > created' => next'[p] = 0
    BY <1>1, <1>2 DEF IInv, InOrder, Pool
  <2> QED
    BY <2>1, <2>2, <2>3, <1>1, <1>2 DEF InOrder
<1>7. UsedInOrder'
  BY <1>1, <1>2, <1>3, <1>4 DEF IInv, UsedInOrder, Pool
<1>8. HandedIsUsed' /\ FreeListIsRest' /\ FaultWithoutPool'
  BY <1>1, <1>2, <1>4 DEF HandedIsUsed, FreeListIsRest, FaultWithoutPool, Usable
<1> QED
  BY <1>5, <1>6, <1>7, <1>8 DEF IInv

LEMMA ResizeIInv == ASSUME NEW n \in Sizes PROVE IInv /\ Resize(n) => IInv'
<1> SUFFICES ASSUME IInv, Resize(n) PROVE IInv'
  OBVIOUS
<1>1. n \in Nat /\ MaxPools \in Nat /\ created \in Nat
  BY SizesAssumption, MaxPoolsAssumption DEF IInv, TypeOK
<1>2. used' = used /\ handed' = handed /\ Usable
  BY DEF Resize
<1>3. CASE first = 0
  <2>1. created = 0 /\ current = 0 /\ pools = {} /\ freeList = 0
    BY <1>3 DEF IInv, TypeOK, InOrder
  <2>2. /\ created' = 1 /\ pools' = {1} /\ 1 <= MaxPools
        /\ size' = [size EXCEPT ![1] = n]
        /\ first' = 1 /\ current' = 1 /\ capacity' = capacity + n
        /\ freeList' = 0 /\ next' = next /\ fault' = fault
    BY <1>3, <1>1, <2>1 DEF Resize, NoPoolYet, NewPool, Counted
  <2>3. /\ 1 \in Pool /\ next[1] = 0 /\ used[1] = 0
        /\ \A p \in Pool : next[p] = 0 /\ used[p] = 0
    BY <2>1, <2>2, <1>1 DEF IInv, InOrder, UsedInOrder, Pool
  <2>4. TypeOK'
    <3>1. next' \in [Pool -> 0 .. created'] /\ size' \in [Pool -> Nat]
      BY <2>2, <2>3, <1>1 DEF IInv, TypeOK
    <3>2. /\ {first, current, freeList}' \subseteq 0 .. created'
          /\ capacity' \in Nat /\ created' \in 0 .. MaxPools
          /\ pools' \subseteq 1 .. created'
      BY <2>2, <1>1 DEF IInv, TypeOK
    <3> QED
      BY <3>1, <3>2, <2>2, <1>2 DEF IInv, TypeOK
  <2>5. InOrder'
    BY <2>2, <2>3 DEF InOrder
  <2>6. UsedInOrder'
    BY <2>2, <2>3, <1>1, <1>2 DEF IInv, TypeOK, UsedInOrder
  <2>7. handed' = {}
    BY <2>1, <1>2 DEF IInv, HandedIsUsed
  <2>8. HandedIsUsed' /\ FreeListIsRest' /\ FaultWithoutPool'
    BY <2>2, <2>3, <2>7, <1>2 DEF HandedIsUsed, FreeListIsRest, FaultWithoutPool, Usable
  <2> QED
    BY <2>4, <2>5, <2>6, <2>8 DEF IInv
<1>4. CASE first # 0 /\ current = 0
  <2>1. fault' = "resize" /\ UNCHANGED <<first, current, freeList, capacity, created, pools, next, size>>
    BY <1>4 DEF Resize, NoPoolYet, chain, heap
  <2>3. TypeOK'
    BY <2>1, <1>2 DEF IInv, TypeOK
  <2>4. InOrder' /\ UsedInOrder' /\ HandedIsUsed' /\ FreeListIsRest'
    BY <2>1, <1>2 DEF IInv, InOrder, UsedInOrder, HandedIsUsed, FreeListIsRest
  <2>5. FaultWithoutPool'
    BY <2>1, <1>4 DEF FaultWithoutPool, IInv, InOrder
  <2> QED
    BY <2>3, <2>4, <2>5 DEF IInv
<1>5. CASE first # 0 /\ current # 0
  <2>1. GrowChain(n) /\ fault' = fault
    BY <1>5 DEF Resize, NoPoolYet
  <2>2. /\ current' = current + 1
        /\ current' \in Pool /\ used[current'] = 0
        /\ current' \in pools' /\ pools \subseteq pools'
        /\ size' \in [Pool -> Nat]
        /\ \A p \in pools : size'[p] = size[p]
        /\ \A p \in pools' : p \in pools \/ (p = current' /\ p > created)
        /\ first' = first /\ created' \in created .. created + 1
        /\ created' \in 0 .. MaxPools
        /\ InOrder' /\ FreeListIsRest'
        /\ {first, current, freeList}' \subseteq 0 .. created'
        /\ capacity' \in Nat
        /\ pools' \subseteq 1 .. created'
        /\ next' \in [Pool -> 0 .. created']
    BY <2>1, <1>1, <1>2, <1>5, GrownChain
  <2>3. TypeOK'
    BY <2>1, <2>2, <1>2 DEF IInv, TypeOK
  <2>4. pools' \subseteq Pool
    BY <2>2, <1>1 DEF Pool
  <2>5. UsedInOrder'
    <3>1. ASSUME NEW p \in Pool, p > created' \/ (current' # 0 /\ p > current')
          PROVE  used'[p] = 0
      <4>1. p > created \/ p > current
        BY <3>1, <2>2, <1>1 DEF IInv, TypeOK, Pool
      <4> QED
        BY <4>1, <1>2, <1>5 DEF IInv, UsedInOrder
    <3>2. ASSUME NEW p \in pools' PROVE used'[p] <= size'[p] \/ size'[p] = 0
      <4>1. CASE p \in pools
        BY <4>1, <2>2, <1>2 DEF IInv, UsedInOrder
      <4>2. CASE p = current'
        BY <4>2, <2>2, <1>2, <2>4
      <4> QED
        BY <4>1, <4>2, <2>2
    <3> QED
      BY <3>1, <3>2 DEF UsedInOrder
  <2>6. HandedIsUsed'
    <3>1. \A p \in pools' : used[p] \in Nat /\ (p \notin pools => used[p] = 0)
      BY <2>2, <2>4 DEF IInv, TypeOK
    <3>2. ASSUME NEW item
          PROVE  (item \in pools \X Nat /\ item[2] < used[item[1]])
                   <=> (item \in pools' \X Nat /\ item[2] < used[item[1]])
      <4>1. CASE item \in pools' \X Nat
        <5>1. PICK p \in pools', i \in Nat : item = <<p, i>>
          BY <4>1
        <5> QED
          BY <5>1, <3>1
      <4>2. CASE item \notin pools' \X Nat
        BY <4>2, <2>2
      <4> QED
        BY <4>1, <4>2
    <3> QED
      BY <3>2, <1>2 DEF IInv, HandedIsUsed
  <2>7. FaultWithoutPool'
    BY <2>1, <1>2 DEF FaultWithoutPool, Usable
  <2> QED
    BY <2>2, <2>3, <2>5, <2>6, <2>7 DEF IInv
<1> QED
  BY <1>3, <1>4, <1>5

LEMMA DumpIInv == IInv /\ DumpAllocations => IInv'
<1> SUFFICES ASSUME IInv, DumpAllocations PROVE IInv'
  OBVIOUS
<1>1. /\ UNCHANGED <<first, current, freeList, capacity, created, pools, next, size>>
      /\ used' = used /\ handed' = handed /\ fault = "none"
      /\ fault' = IF current = 0 THEN "dump" ELSE fault
  BY DEF DumpAllocations, Usable, chain, heap
<1>2. TypeOK' /\ InOrder' /\ UsedInOrder' /\ HandedIsUsed' /\ FreeListIsRest'
  BY <1>1 DEF IInv, TypeOK, InOrder, UsedInOrder, HandedIsUsed, FreeListIsRest
<1>3. FaultWithoutPool'
  BY <1>1 DEF IInv, InOrder, FaultWithoutPool
<1> QED
  BY <1>2, <1>3 DEF IInv

LEMMA SpecIInv == Spec => []IInv
<1>1. IInv /\ [Next]_vars => IInv'
  <2> SUFFICES ASSUME IInv, [Next]_vars PROVE IInv'
    OBVIOUS
  <2>1. CASE UNCHANGED vars
    BY <2>1 DEF vars, chain, heap, IInv, TypeOK, InOrder, UsedInOrder, HandedIsUsed,
                FreeListIsRest, FaultWithoutPool
  <2>2. CASE Next
    BY <2>2, DumpIInv, AllocHereIInv, AllocGrownIInv, ReleaseIInv, ClearIInv, ReserveIInv, ResizeIInv
       DEF Next
  <2> QED
    BY <2>1, <2>2
<1> QED
  BY <1>1, InitIInv, PTL DEF Spec

\* alloc() never hands out an item twice between two releases, and never one
\* outside a pool that has room for any, for every sequence of calls of any length
\* and all sizes, 0 among them.
THEOREM PoolItemsDistinct == Spec => []ItemsDistinct
<1>1. IInv => ItemsDistinct
  <2> SUFFICES ASSUME IInv PROVE ItemsDistinct
    OBVIOUS
  <2>1. pools \subseteq Pool
    BY MaxPoolsAssumption DEF IInv, TypeOK, Pool
  <2>2. ASSUME NEW item \in handed PROVE item[1] \in pools
    BY DEF IInv, HandedIsUsed
  <2>3. ASSUME NEW p \in pools PROVE Out(p) = 0 .. used[p] - 1
    <3>1. used[p] \in Nat
      BY <2>1 DEF IInv, TypeOK
    <3>2. \A i \in Nat : i < used[p] => <<p, i>> \in handed
      BY DEF IInv, HandedIsUsed
    <3>3. ASSUME NEW item \in handed, item[1] = p PROVE item[2] \in 0 .. used[p] - 1
      <4>1. item \in pools \X Nat /\ item[2] < used[p]
        BY <3>3 DEF IInv, HandedIsUsed
      <4> QED
        BY <4>1, <3>1
    <3>4. ASSUME NEW i \in 0 .. used[p] - 1 PROVE i \in Out(p)
      <4>1. <<p, i>> \in handed /\ <<p, i>>[1] = p /\ <<p, i>>[2] = i
        BY <3>1, <3>2
      <4> QED
        BY <4>1 DEF Out
    <3>5. ASSUME NEW i \in Out(p) PROVE i \in 0 .. used[p] - 1
      <4>1. PICK item \in handed : item[1] = p /\ item[2] = i
        BY DEF Out
      <4> QED
        BY <4>1, <3>3
    <3> QED
      BY <3>4, <3>5
  <2>4. \A p \in pools : used[p] <= size[p] \/ size[p] = 0
    BY DEF IInv, UsedInOrder
  <2> QED
    BY <2>2, <2>3, <2>4 DEF ItemsDistinct, IInv
<1> QED
  BY <1>1, SpecIInv, PTL

\* The variables keep their types.
THEOREM PoolTypeOK == Spec => []TypeOK
<1>1. IInv => TypeOK
  BY DEF IInv
<1> QED
  BY <1>1, SpecIInv, PTL

\* The free list is always the rest of the chain behind the pool in use.
THEOREM PoolFreeListIsRest == Spec => []FreeListIsRest
<1>1. IInv => FreeListIsRest
  BY DEF IInv
<1> QED
  BY <1>1, SpecIInv, PTL

\* No call follows a null pointer while a pool is allocated, and resize() does so
\* only behind a clear().
THEOREM PoolFaultWithoutPool == Spec => []FaultWithoutPool
<1>1. IInv => FaultWithoutPool
  BY DEF IInv
<1> QED
  BY <1>1, SpecIInv, PTL

-----------------------------------------------------------------------------
(***************************************************************************)
(* The chain as a whole: what From collects, and what the pools hold       *)
(* together.                                                               *)
(***************************************************************************)

\* What a pool counts for when those in P are allocated, with the sizes s, and
\* the first n sums of that
Held(P, s, p) == IF p \in P THEN s[p] ELSE 0

Sums(u, n, P, s) ==
    /\ u \in [0 .. n -> Nat]
    /\ u[0] = 0
    /\ \A p \in 1 .. n : u[p] = u[p - 1] + Held(P, s, p)

LEMMA SumsExist ==
    ASSUME NEW n \in Nat, NEW P, NEW s, \A p \in 1 .. n : s[p] \in Nat
    PROVE  \E u : Sums(u, n, P, s)
<1> DEFINE held(p) == IF p \in P THEN s[p] ELSE 0
           step == [x \in Nat \X (1 .. n) |-> x[1] + held(x[2])]
<1>1. \A p \in 1 .. n : held(p) \in Nat
  OBVIOUS
<1>2. step \in [Nat \X (1 .. n) -> Nat]
  <2> HIDE DEF held
  <2> QED
    BY <1>1
<1>3. \A k \in Nat, p \in 1 .. n : step[<<k, p>>] = k + held(p)
  <2> HIDE DEF held
  <2> QED
    OBVIOUS
<1>4. PICK u \in [0 .. n -> Nat] : Recursive(u, 0, step, n)
  <2> HIDE DEF step
  <2>1. 0 \in Nat
    OBVIOUS
  <2> QED
    BY <1>2, <2>1, RecursiveFunction, Zenon
<1>5. \A p \in 1 .. n : u[p - 1] \in Nat
  OBVIOUS
<1>6. \A p \in 1 .. n : u[p] = u[p - 1] + held(p)
  <2> HIDE DEF step, held
  <2> QED
    BY <1>3, <1>4, <1>5 DEF Recursive
<1> QED
  BY <1>4, <1>6 DEF Sums, Recursive, Held

\* Two such functions agree as far as what they add does.
LEMMA SumsAgree ==
    ASSUME NEW n \in Nat, NEW m \in 0 .. n, NEW P, NEW Q, NEW s, NEW t, NEW u, NEW v,
           Sums(u, n, P, s), Sums(v, m, Q, t),
           \A p \in 1 .. m : Held(P, s, p) = Held(Q, t, p)
    PROVE  u[m] = v[m]
<1> DEFINE T == {p \in 0 .. m : u[p] = v[p]}
<1>1. 0 \in T
  BY DEF Sums
<1>2. \A p \in 0 .. m - 1 : p \in T => p + 1 \in T
  <2> SUFFICES ASSUME NEW p \in 0 .. m - 1, u[p] = v[p] PROVE u[p + 1] = v[p + 1]
    OBVIOUS
  <2>1. p + 1 \in 1 .. m /\ p + 1 \in 1 .. n /\ (p + 1) - 1 = p
    OBVIOUS
  <2>2. u[p + 1] = u[p] + Held(P, s, p + 1)
    BY <2>1 DEF Sums
  <2>3. v[p + 1] = v[p] + Held(Q, t, p + 1)
    BY <2>1 DEF Sums
  <2> QED
    <3>1. Held(P, s, p + 1) = Held(Q, t, p + 1)
      BY <2>1
    <3> QED
      BY <2>2, <2>3, <3>1
<1>3. m \in Nat /\ m \in 0 .. m
  OBVIOUS
<1>4. \A p \in 0 .. m : p \in T
  <2> HIDE DEF T
  <2> QED
    BY <1>1, <1>2, <1>3, BoundedInduction
<1> QED
  BY <1>3, <1>4

LEMMA SumsNext ==
    ASSUME NEW c \in Nat, NEW P, NEW Q, NEW s, NEW t, NEW u, NEW v,
           Sums(u, c, P, s), Sums(v, c + 1, Q, t),
           \A p \in 1 .. c : Held(Q, t, p) = Held(P, s, p)
    PROVE  v[c + 1] = u[c] + Held(Q, t, c + 1)
<1>1. c + 1 \in Nat /\ c \in 0 .. c + 1 /\ c + 1 \in 1 .. c + 1 /\ (c + 1) - 1 = c
  OBVIOUS
<1>2. v[c] = u[c]
  BY <1>1, SumsAgree
<1>3. v[c + 1] = v[c] + Held(Q, t, c + 1)
  BY <1>1 DEF Sums
<1> QED
  BY <1>2, <1>3

LEMMA NoneHeld ==
    ASSUME NEW n \in Nat, NEW m \in 0 .. n, NEW P, NEW s, NEW u, Sums(u, n, P, s),
           \A p \in 1 .. m : p \notin P
    PROVE  u[m] = 0
<1> DEFINE T == {p \in 0 .. m : u[p] = 0}
<1>1. 0 \in T
  BY DEF Sums
<1>2. \A p \in 0 .. m - 1 : p \in T => p + 1 \in T
  <2> SUFFICES ASSUME NEW p \in 0 .. m - 1, u[p] = 0 PROVE u[p + 1] = 0
    OBVIOUS
  <2>1. p + 1 \in 1 .. n /\ p + 1 \in 1 .. m /\ (p + 1) - 1 = p
    OBVIOUS
  <2> QED
    BY <2>1 DEF Sums, Held
<1>3. m \in Nat /\ m \in 0 .. m
  OBVIOUS
<1>4. \A p \in 0 .. m : p \in T
  <2> HIDE DEF T
  <2> QED
    BY <1>1, <1>2, <1>3, BoundedInduction
<1> QED
  BY <1>3, <1>4

\* Total, of any pools
SumOf(n, P, s) ==
    LET upTo[p \in 0 .. n] ==
          IF p = 0 THEN 0
          ELSE upTo[p - 1] + (IF p \in P THEN s[p] ELSE 0)
    IN  upTo[n]

LEMMA SumOfIs ==
    ASSUME NEW n \in Nat, NEW P, NEW s, \A p \in 1 .. n : s[p] \in Nat
    PROVE  \E u : Sums(u, n, P, s) /\ SumOf(n, P, s) = u[n]
<1> DEFINE Def(u) == u = [p \in 0 .. n |->
                            IF p = 0 THEN 0
                            ELSE u[p - 1] + (IF p \in P THEN s[p] ELSE 0)]
<1>1. PICK u : Sums(u, n, P, s)
  BY SumsExist
<1>2. Def(u)
  <2>1. \A p \in 0 .. n : p # 0 => p \in 1 .. n
    OBVIOUS
  <2> QED
    BY <1>1, <2>1 DEF Sums, Held
<1>3. PICK v : Def(v) /\ SumOf(n, P, s) = v[n]
  <2> HIDE DEF Def
  <2>1. Def(CHOOSE v : Def(v))
    BY <1>2, Zenon
  <2> QED
    BY <2>1, Zenon DEF SumOf, Def
<1>4. /\ DOMAIN v = 0 .. n
      /\ v[0] = 0
      /\ \A p \in 1 .. n : v[p] = v[p - 1] + (IF p \in P THEN s[p] ELSE 0)
  BY <1>3
<1>5. \A p \in 0 .. n : v[p] \in Nat
  <2> HIDE DEF Def
  <2> DEFINE T == {p \in 0 .. n : v[p] \in Nat}
  <2>1. 0 \in T
    BY <1>4
  <2>2. \A p \in 0 .. n - 1 : p \in T => p + 1 \in T
    <3> SUFFICES ASSUME NEW p \in 0 .. n - 1, v[p] \in Nat PROVE v[p + 1] \in Nat
      OBVIOUS
    <3>1. p + 1 \in 1 .. n /\ (p + 1) - 1 = p
      OBVIOUS
    <3> QED
      BY <3>1, <1>4
  <2>3. \A p \in 0 .. n : p \in T
    <3> HIDE DEF T
    <3> QED
      BY <2>1, <2>2, BoundedInduction
  <2> QED
    BY <2>3
<1>6. v = [p \in 0 .. n |-> v[p]]
  BY <1>3
<1>7. v \in [0 .. n -> Nat]
  <2> HIDE DEF Def
  <2> QED
    BY <1>5, <1>6
<1> QED
  BY <1>3, <1>4, <1>7 DEF Sums, Held

\* m_capacity counts what the pools hold, and nothing before there was one.
CapacityCounted ==
    /\ current # 0 => capacity = Total
    /\ first = 0 => capacity = 0

\* Both sides of a step as such sums
LEMMA TotalsAreSums ==
    ASSUME TypeOK, TypeOK'
    PROVE  /\ created \in Nat /\ created' \in Nat
           /\ \E u : Sums(u, created, pools, size) /\ Total = u[created]
           /\ \E u : Sums(u, created', pools', size') /\ Total' = u[created']
<1>1. \A c \in 0 .. MaxPools : c \in Nat /\ 1 .. c \subseteq Pool
  BY MaxPoolsAssumption DEF Pool
<1>2. created \in Nat /\ created' \in Nat
  BY <1>1 DEF TypeOK
<1>3. \A p \in 1 .. created : size[p] \in Nat
  BY <1>1 DEF TypeOK
<1>4. \A p \in 1 .. created' : size'[p] \in Nat
  BY <1>1 DEF TypeOK
<1>5. Total = SumOf(created, pools, size) /\ Total' = SumOf(created', pools', size')
  BY Zenon DEF Total, SumOf
<1>6. \E u : Sums(u, created, pools, size) /\ Total = u[created]
  BY <1>2, <1>3, <1>5, SumOfIs
<1>7. \E u : Sums(u, created', pools', size') /\ Total' = u[created']
  BY <1>2, <1>4, <1>5, SumOfIs
<1> QED
  BY <1>2, <1>6, <1>7

\* A new pool beside those there are, and one in their place
LEMMA NewPoolCounts ==
    ASSUME TypeOK, TypeOK', NEW n \in Nat,
           created' = created + 1, size' = [size EXCEPT ![created'] = n],
           NEW P \in {pools, {}}, pools' = P \cup {created'}
    PROVE  Total' = (IF P = {} THEN 0 ELSE Total) + n
<1>1. /\ created \in Nat /\ created' \in Nat /\ created \in 0 .. created'
      /\ created' \in 1 .. created' /\ created' - 1 = created
  BY TotalsAreSums
<1>2. PICK u : Sums(u, created, pools, size) /\ Total = u[created]
  BY TotalsAreSums
<1>3. PICK v : Sums(v, created', pools', size') /\ Total' = v[created']
  BY TotalsAreSums
<1>4. created' \in Pool /\ \A p \in 1 .. created : p \in Pool /\ p # created'
  BY <1>1, MaxPoolsAssumption DEF TypeOK, Pool
<1>5. size'[created'] = n /\ \A p \in 1 .. created : size'[p] = size[p]
  BY <1>4 DEF TypeOK
<1>6. v[created'] = v[created] + n
  BY <1>1, <1>3, <1>5 DEF Sums, Held
<1>7. CASE P = {}
  <2>1. \A p \in 1 .. created : p \notin pools'
    BY <1>7, <1>4
  <2>2. v[created] = 0
    BY <1>1, <1>3, <2>1, NoneHeld
  <2> QED
    BY <2>2, <1>3, <1>6, <1>7
<1>8. CASE P # {}
  <2>1. \A p \in 1 .. created : Held(pools', size', p) = Held(pools, size, p)
    BY <1>8, <1>4, <1>5 DEF Held
  <2>2. Sums(v, created + 1, pools', size') /\ created \in Nat
    BY <1>1, <1>3
  <2>3. v[created + 1] = u[created] + Held(pools', size', created + 1)
    <3>1. PICK c \in Nat : c = created
      BY <2>2
    <3>2. PICK Q, t, R, s : Q = pools' /\ t = size' /\ R = pools /\ s = size
      BY Zenon
    <3>3. Sums(u, c, R, s) /\ Sums(v, c + 1, Q, t)
      BY <1>2, <2>2, <3>1, <3>2
    <3>4. \A p \in 1 .. c : Held(Q, t, p) = Held(R, s, p)
      BY <2>1, <3>1, <3>2
    <3>5. v[c + 1] = u[c] + Held(Q, t, c + 1)
      BY <3>3, <3>4, SumsNext
    <3> QED
      BY <3>1, <3>2, <3>5
  <2>4. Held(pools', size', created + 1) = n
    BY <1>4, <1>5 DEF Held
  <2> QED
    BY <2>3, <2>4, <1>2, <1>3, <1>8
<1> QED
  BY <1>7, <1>8

LEMMA SameTotal == UNCHANGED <<created, pools, size>> => Total' = Total
  BY Zenon DEF Total

LEMMA GrowChainCounts ==
    ASSUME IInv, IInv', CapacityCounted, current # 0, NEW n \in Nat, GrowChain(n),
           current' # 0
    PROVE  CapacityCounted'
<1>1. TypeOK /\ TypeOK' /\ pools # {} /\ capacity = Total /\ n \in Nat /\ first # 0
  <2>1. TypeOK /\ TypeOK' /\ InOrder /\ capacity = Total
    BY DEF IInv, CapacityCounted
  <2>2. created \in Nat /\ current \in 0 .. created /\ first \in 1 .. current /\ pools = first .. created
    BY <2>1, MaxPoolsAssumption DEF TypeOK, InOrder
  <2>3. first \in pools /\ first # 0
    BY <2>2
  <2> QED
    BY <2>1, <2>3
<1>2. CASE freeList # 0
  BY <1>1, <1>2, SameTotal DEF GrowChain, CapacityCounted
<1>3. CASE freeList = 0
  <2>1. /\ created' = created + 1 /\ size' = [size EXCEPT ![created'] = n]
        /\ pools' = pools \cup {created'} /\ capacity' = capacity + n /\ first' = first
    BY <1>3 DEF GrowChain, NewPool, Counted
  <2>2. Total' = Total + n
    <3>1. pools \in {pools, {}}
      OBVIOUS
    <3> QED
      BY <1>1, <2>1, <3>1, NewPoolCounts
  <2> QED
    BY <1>1, <2>1, <2>2 DEF CapacityCounted
<1> QED
  BY <1>2, <1>3

LEMMA OnePoolCounts ==
    ASSUME TypeOK, TypeOK', NEW n \in Nat,
           created' = created + 1, size' = [size EXCEPT ![created'] = n],
           pools' = {created'}, capacity' = n, first' # 0
    PROVE  CapacityCounted'
<1>1. PICK P \in {pools, {}} : P = {}
  OBVIOUS
<1>2. pools' = P \cup {created'}
  BY <1>1
<1>3. Total' = (IF P = {} THEN 0 ELSE Total) + n
  BY <1>2, NewPoolCounts
<1>4. Total' = n
  BY <1>1, <1>3
<1> QED
  BY <1>4 DEF CapacityCounted

\* capacity() through a step
LEMMA NextCounts == IInv /\ CapacityCounted /\ [Next]_vars /\ IInv' => CapacityCounted'
<1> SUFFICES ASSUME IInv, CapacityCounted, [Next]_vars, IInv' PROVE CapacityCounted'
  OBVIOUS
<1>1. TypeOK /\ TypeOK' /\ InOrder /\ InOrder' /\ created \in Nat
  BY MaxPoolsAssumption DEF IInv, TypeOK
<1>2. CASE UNCHANGED <<first, created, pools, size, capacity>> /\ (current' = 0 \/ current # 0)
  BY <1>2, SameTotal DEF CapacityCounted
<1>3. CASE AllocHere
  BY <1>2, <1>3 DEF AllocHere, chain, heap
<1>10. CASE DumpAllocations
  BY <1>2, <1>10, <1>1 DEF DumpAllocations, InOrder, CapacityCounted, chain, heap
<1>4. CASE AllocGrown
  <2>1. current # 0 /\ GrowChain(size[current]) /\ current \in pools
        /\ size[current] \in Nat /\ current' = current + 1 /\ current \in Nat
    <3>1. current # 0 /\ GrowChain(size[current]) /\ Usable /\ fault' = fault
      BY <1>4 DEF AllocGrown
    <3>2. current \in pools /\ current \in Pool /\ current \in Nat
      <4>1. /\ created \in 0 .. MaxPools /\ MaxPools \in Nat /\ current \in 0 .. created
            /\ first \in 1 .. current /\ pools = first .. created
        BY <3>1, <1>1, MaxPoolsAssumption DEF InOrder, TypeOK
      <4> QED
        BY <4>1 DEF Pool
    <3>3. size[current] \in Nat
      BY <3>2 DEF IInv, UsedInOrder, TypeOK
    <3>4. current' = current + 1
      BY <3>1, <3>3, GrownChain
    <3> QED
      BY <3>1, <3>2, <3>3, <3>4
  <2> QED
    BY <2>1, GrowChainCounts
<1>5. CASE Release
  BY <1>2, <1>5 DEF Release, heap
<1>6. CASE Clear
  BY <1>6 DEF Clear, CapacityCounted
<1>7. ASSUME NEW n \in Sizes, Reserve(n) PROVE CapacityCounted'
  <2>1. /\ created' = created + 1 /\ size' = [size EXCEPT ![created'] = n]
        /\ capacity' = n /\ first' = created'
        /\ pools' = (IF current = 0 THEN pools ELSE {}) \cup {created'}
    BY <1>7 DEF Reserve
  <2>2. pools' = {created'}
    BY <2>1, <1>1 DEF InOrder
  <2>3. n \in Nat /\ first' # 0
    BY <2>1, <1>1, SizesAssumption
  <2> QED
    BY <2>1, <2>2, <2>3, <1>1, OnePoolCounts
<1>8. ASSUME NEW n \in Sizes, Resize(n) PROVE CapacityCounted'
  <2>1. n \in Nat /\ n \in Nat
    BY SizesAssumption
  <2>2. CASE NoPoolYet
    <3>1. first = 0 /\ pools = {} /\ capacity = 0
      BY <2>2, <1>1 DEF NoPoolYet, InOrder, TypeOK, CapacityCounted
    <3>2. /\ created' = created + 1 /\ size' = [size EXCEPT ![created'] = n]
          /\ capacity' = capacity + n /\ first' = created' /\ pools' = pools \cup {created'}
      BY <2>2, <1>8 DEF Resize, NewPool, Counted
    <3>3. capacity' = n /\ pools' = {created'} /\ first' # 0
      BY <3>1, <3>2, <2>1, <1>1
    <3> QED
      BY <3>2, <3>3, <2>1, <1>1, OnePoolCounts
  <2>3. CASE ~NoPoolYet /\ current = 0
    BY <1>2, <1>8, <2>3 DEF Resize, chain, heap
  <2>4. CASE ~NoPoolYet /\ current # 0
    <3>1. GrowChain(n) /\ Usable /\ fault' = fault /\ current # 0
      BY <1>8, <2>4 DEF Resize
    <3>2. current' = current + 1 /\ current \in Nat
      BY <3>1, <2>1, <1>1, GrownChain DEF TypeOK
    <3> QED
      BY <3>1, <3>2, <2>1, GrowChainCounts
  <2> QED
    BY <2>2, <2>3, <2>4
<1>9. CASE UNCHANGED vars
  BY <1>2, <1>9 DEF vars, chain, heap
<1> QED
  BY <1>3, <1>4, <1>5, <1>6, <1>7, <1>8, <1>9, <1>10 DEF Next

\* The pools behind p are those created after it.
LEMMA FromIs ==
    ASSUME TypeOK, InOrder, NEW p \in pools
    PROVE  From(p) = p .. created
<1> DEFINE Def(b) == b = [k \in 0 .. MaxPools |->
                            IF k = 0 THEN {p} \ {0}
                            ELSE b[k - 1] \cup ({next[q] : q \in b[k - 1]} \ {0})]
           near(k) == {q \in p .. created : q <= p + k}
           g == [k \in 0 .. MaxPools |-> near(k)]
<1>1. /\ MaxPools \in Nat /\ created \in Nat /\ created <= MaxPools
      /\ p \in 1 .. created /\ \A q \in p .. created : q \in pools
  <2>1. MaxPools \in Nat /\ created \in 0 .. MaxPools /\ pools \subseteq 1 .. created
    BY MaxPoolsAssumption DEF TypeOK
  <2>2. pools = first .. created /\ first \in Nat
    BY <2>1 DEF TypeOK, InOrder
  <2> QED
    BY <2>1, <2>2
<1>2. \A q \in p .. created : next[q] = IF q < created THEN q + 1 ELSE 0
  BY <1>1 DEF InOrder
<1>3. \A k \in 1 .. MaxPools : near(k) = near(k - 1) \cup ({next[q] : q \in near(k - 1)} \ {0})
  <2> SUFFICES ASSUME NEW k \in 1 .. MaxPools
               PROVE  near(k) = near(k - 1) \cup ({next[q] : q \in near(k - 1)} \ {0})
    OBVIOUS
  <2>1. ASSUME NEW q \in near(k) PROVE q \in near(k - 1) \/ \E r \in near(k - 1) : q = next[r]
    <3>1. q \in p .. created /\ q <= p + k
      OBVIOUS
    <3>2. CASE q = p
      BY <3>2, <1>1
    <3>3. CASE q # p
      <4>1. q - 1 \in near(k - 1) /\ q - 1 < created /\ q - 1 \in p .. created
        BY <3>1, <3>3, <1>1
      <4>2. next[q - 1] = q
        BY <4>1, <3>1, <1>1, <1>2
      <4> QED
        BY <4>1, <4>2
    <3> QED
      BY <3>2, <3>3
  <2>2. near(k - 1) \subseteq near(k)
    BY <1>1
  <2>3. ASSUME NEW r \in near(k - 1), next[r] # 0 PROVE next[r] \in near(k)
    BY <2>3, <1>1, <1>2
  <2>4. 0 \notin near(k)
    BY <1>1
  <2> HIDE DEF near
  <2> QED
    BY <2>1, <2>2, <2>3, <2>4
<1>4. near(0) = {p} \ {0}
  BY <1>1
<1>5. Def(g)
  <2> HIDE DEF near
  <2>1. \A k \in 0 .. MaxPools : k # 0 => k \in 1 .. MaxPools /\ k - 1 \in 0 .. MaxPools
    BY <1>1
  <2> QED
    BY <2>1, <1>3, <1>4
<1>6. PICK b : Def(b) /\ From(p) = b[MaxPools]
  <2>1. \E b : Def(b)
    <3> HIDE DEF g, Def
    <3> QED
      BY <1>5
  <2>2. Def(CHOOSE b : Def(b))
    <3> HIDE DEF Def
    <3> QED
      BY <2>1, Zenon
  <2> QED
    BY <2>2, Zenon DEF From
<1>7. \A k \in 0 .. MaxPools : b[k] = near(k)
  <2> DEFINE T == {k \in 0 .. MaxPools : b[k] = near(k)}
  <2>1. 0 \in T
    <3> HIDE DEF near
    <3> QED
      BY <1>1, <1>4, <1>6
  <2>2. \A k \in 0 .. MaxPools - 1 : k \in T => k + 1 \in T
    <3> SUFFICES ASSUME NEW k \in 0 .. MaxPools - 1, b[k] = near(k)
                 PROVE  b[k + 1] = near(k + 1)
      BY <1>1
    <3>1. k + 1 \in 1 .. MaxPools /\ k + 1 \in 0 .. MaxPools /\ (k + 1) - 1 = k /\ k + 1 # 0
      BY <1>1
    <3>2. b[k + 1] = b[k] \cup ({next[q] : q \in b[k]} \ {0})
      <4> HIDE DEF near
      <4> QED
        BY <3>1, <1>6
    <3>3. near(k + 1) = near(k) \cup ({next[q] : q \in near(k)} \ {0})
      <4> HIDE DEF near
      <4> QED
        BY <3>1, <1>3
    <3> HIDE DEF near
    <3> QED
      BY <3>2, <3>3
  <2> HIDE DEF T
  <2>3. \A k \in 0 .. MaxPools : k \in T
    BY <1>1, <2>1, <2>2, BoundedInduction
  <2> QED
    BY <2>3 DEF T
<1>8. near(MaxPools) = p .. created
  BY <1>1
<1> QED
  <2>1. MaxPools \in 0 .. MaxPools
    BY <1>1
  <2> HIDE DEF near
  <2> QED
    BY <2>1, <1>6, <1>7, <1>8

LEMMA FromNull == ASSUME MaxPools \in Nat PROVE From(0) = {}
<1> DEFINE Def(b) == b = [k \in 0 .. MaxPools |->
                            IF k = 0 THEN {0} \ {0}
                            ELSE b[k - 1] \cup ({next[q] : q \in b[k - 1]} \ {0})]
           g == [k \in 0 .. MaxPools |-> {}]
<1>1. Def(g)
  <2>1. \A k \in 0 .. MaxPools : k # 0 => k - 1 \in 0 .. MaxPools
    OBVIOUS
  <2> QED
    BY <2>1
<1>2. PICK b : Def(b) /\ From(0) = b[MaxPools]
  <2>1. \E b : Def(b)
    <3> HIDE DEF g, Def
    <3> QED
      BY <1>1
  <2>2. Def(CHOOSE b : Def(b))
    <3> HIDE DEF Def
    <3> QED
      BY <2>1, Zenon
  <2> QED
    BY <2>2, Zenon DEF From
<1>3. \A k \in 0 .. MaxPools : b[k] = {}
  <2> DEFINE T == {k \in 0 .. MaxPools : b[k] = {}}
  <2>1. 0 \in T
    BY <1>2
  <2>2. \A k \in 0 .. MaxPools - 1 : k \in T => k + 1 \in T
    <3> SUFFICES ASSUME NEW k \in 0 .. MaxPools - 1, b[k] = {} PROVE b[k + 1] = {}
      OBVIOUS
    <3>1. k + 1 \in 0 .. MaxPools /\ (k + 1) - 1 = k /\ k + 1 # 0
      OBVIOUS
    <3>2. b[k + 1] = b[k] \cup ({next[q] : q \in b[k]} \ {0})
      BY <3>1, <1>2
    <3> HIDE DEF Def
    <3> QED
      BY <3>2
  <2> HIDE DEF T
  <2>3. \A k \in 0 .. MaxPools : k \in T
    BY <2>1, <2>2, BoundedInduction
  <2> QED
    BY <2>3 DEF T
<1> QED
  BY <1>2, <1>3

LEMMA IInvComplete == IInv /\ CapacityCounted => ChainComplete
<1> SUFFICES ASSUME IInv, CapacityCounted, current # 0
             PROVE  /\ From(first) = pools
                    /\ current \in pools
                    /\ \A p \in From(freeList) : used[p] = 0
                    /\ capacity = Total
  BY DEF ChainComplete
<1>1. /\ MaxPools \in Nat /\ created \in 0 .. MaxPools /\ created \in Nat
      /\ current \in 0 .. created /\ first \in 1 .. current /\ pools = first .. created
  BY MaxPoolsAssumption DEF IInv, TypeOK, InOrder
<1>2. first \in pools /\ current \in pools
  BY <1>1
<1>3. From(first) = pools
  BY <1>1, <1>2, FromIs DEF IInv
<1>4. freeList = IF current < created THEN current + 1 ELSE 0
  BY <1>2 DEF IInv, InOrder, FreeListIsRest
<1>5. \A p \in From(freeList) : used[p] = 0
  <2>1. CASE current < created
    <3>1. freeList = current + 1 /\ current + 1 \in pools
      BY <2>1, <1>1, <1>4
    <3>2. From(freeList) = current + 1 .. created
      BY <3>1, FromIs DEF IInv
    <3>3. \A p \in current + 1 .. created : p \in Pool /\ p > current
      BY <1>1 DEF Pool
    <3> QED
      BY <3>2, <3>3 DEF IInv, UsedInOrder
  <2>2. CASE ~(current < created)
    BY <2>2, <1>1, <1>4, FromNull
  <2> QED
    BY <2>1, <2>2
<1> QED
  BY <1>2, <1>3, <1>5 DEF CapacityCounted

\* The chain from m_first is what is allocated, a release() or a clear() reaches
\* all of it, and capacity() tells what its pools hold together.
THEOREM PoolChainComplete == Spec => []ChainComplete
<1>1. Init => CapacityCounted
  BY DEF Init, CapacityCounted
<1>2. Spec => []CapacityCounted
  BY <1>1, NextCounts, SpecIInv, PTL DEF Spec
<1> QED
  BY <1>2, SpecIInv, IInvComplete, PTL
=============================================================================

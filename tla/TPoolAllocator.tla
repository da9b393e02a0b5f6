--------------------------- MODULE TPoolAllocator ---------------------------
(***************************************************************************)
(* The pool allocator of openddlparser/TPoolAllocator.h: a chain of pools, *)
(* a cursor into the pool in use, and the rest of the chain as free list.  *)
(*                                                                         *)
(* Pools are numbered as they are created; 0 is nullptr.  An item is the   *)
(* pool and the index a pointer returned by alloc() stands for.  The       *)
(* constructor with a number of items is left out: it calls a constructor  *)
(* Pool does not have, so no program can use it.  Left out as well: the    *)
(* arrays of items, of which reserve() makes two and keeps one.            *)
(***************************************************************************)
EXTENDS Integers

CONSTANTS
    Sizes,      \* numbers of items a client asks for, 0 among them
    MaxPools,   \* bound: pools created
    MaxItems    \* bound: items handed out of a pool without one more grown

ASSUME SizesAssumption == Sizes \subseteq Nat
ASSUME MaxPoolsAssumption == MaxPools \in Nat
ASSUME MaxItemsAssumption == MaxItems \in Nat

VARIABLES
    first,      \* m_first
    current,    \* m_current
    freeList,   \* m_freeList
    capacity,   \* m_capacity
    created,    \* pools created so far
    pools,      \* pools that are allocated
    next,       \* Pool::m_next
    size,       \* Pool::m_poolsize
    used,       \* Pool::m_currentIdx
    handed,     \* items handed out since the last release()
    fault       \* the operation that dereferenced a null m_current, or "none"

chain == <<first, current, freeList>>
heap  == <<created, pools, next, size>>
vars  == <<chain, capacity, heap, used, handed, fault>>

Pool == 1 .. MaxPools

\* new Pool( n, nullptr ), seen after it
NewPool(n) ==
    /\ created < MaxPools
    /\ created' = created + 1
    /\ pools' = pools \cup {created'}
    /\ size' = [size EXCEPT ![created'] = n]

Init ==
    /\ first = 0 /\ current = 0 /\ freeList = 0
    /\ capacity = 0
    /\ created = 0
    /\ pools = {}
    /\ next = [p \in Pool |-> 0]
    /\ size = [p \in Pool |-> 0]
    /\ used = [p \in Pool |-> 0]
    /\ handed = {}
    /\ fault = "none"

\* No call has followed a null pointer yet.
Usable == fault = "none"

\* m_capacity once a pool of n items has joined the chain
Counted(n) == capacity + n

\* resize() behind its checks of m_current: the next free pool, or a new one
GrowChain(n) ==
    IF freeList # 0
    THEN /\ current' = freeList
         /\ freeList' = next[freeList]
         /\ next' = [next EXCEPT ![current] = freeList]
         /\ UNCHANGED <<first, capacity, created, pools, size>>
    ELSE /\ NewPool(n)
         /\ capacity' = Counted(n)
         /\ next' = [next EXCEPT ![current] = created']
         /\ current' = created'
         /\ UNCHANGED <<first, freeList>>

\* alloc() on a pool with room, and on a full one.  A pool of no items counts as
\* full only until its index has left 0: the items behind it follow without end.
NeverFull == FALSE
Full == used[current] = size[current]
NextItem == used[current] + 1

AllocHere ==
    /\ Usable
    /\ current # 0
    /\ ~Full /\ used[current] < MaxItems
    /\ handed' = handed \cup {<<current, used[current]>>}
    /\ used' = [used EXCEPT ![current] = NextItem]
    /\ UNCHANGED <<chain, capacity, heap, fault>>

AllocGrown ==
    /\ Usable
    /\ current # 0
    /\ Full
    /\ GrowChain(size[current])
    /\ handed' = handed \cup {<<current', used[current']>>}
    /\ used' = [used EXCEPT ![current'] = @ + 1]
    /\ UNCHANGED fault

\* the pools release() resets: all of them, or the one in use by mistake
CurrentOnly == [used EXCEPT ![current] = 0]
Rewound == [p \in Pool |-> 0]

\* the free list after release(): the pools behind the first one
OldFreeList == freeList
BehindFirst == next[first]

Release ==
    /\ Usable
    /\ current # 0
    /\ used' = Rewound
    /\ freeList' = BehindFirst
    /\ current' = first
    /\ handed' = {}
    /\ UNCHANGED <<first, capacity, heap, fault>>

\* clear() leaves m_first and m_capacity as they are, and does nothing without
\* a current pool.
Clear ==
    /\ Usable
    /\ current # 0
    /\ pools' = {}
    /\ handed' = {}
    /\ current' = 0
    /\ freeList' = 0
    /\ UNCHANGED <<first, capacity, created, next, size, used, fault>>

\* reserve(): clear(), then one pool of the size wanted
Reserve(n) ==
    /\ Usable
    /\ created < MaxPools
    /\ created' = created + 1
    /\ pools' = (IF current = 0 THEN pools ELSE {}) \cup {created'}
    /\ size' = [size EXCEPT ![created'] = n]
    /\ first' = created'
    /\ current' = created'
    /\ freeList' = 0
    /\ capacity' = n
    /\ handed' = {}
    /\ UNCHANGED <<next, used, fault>>

\* resize() on an allocator that never had a pool makes the first one
Unchecked == FALSE
NoPoolYet == first = 0

Resize(n) ==
    /\ Usable
    /\ current # 0 => n >= size[current]
    /\ IF NoPoolYet
       THEN /\ NewPool(n)
            /\ first' = created'
            /\ current' = created'
            /\ capacity' = Counted(n)
            /\ UNCHANGED <<freeList, next, fault>>
       ELSE IF current = 0
       THEN fault' = "resize" /\ UNCHANGED <<chain, capacity, heap>>
       ELSE GrowChain(n) /\ UNCHANGED fault
    /\ UNCHANGED <<used, handed>>

\* dumpAllocations() writes the index of the pool in use, and does not look
\* whether there is one.
DumpAllocations ==
    /\ Usable
    /\ fault' = IF current = 0 THEN "dump" ELSE fault
    /\ UNCHANGED <<chain, capacity, heap, used, handed>>

Next ==
    \/ DumpAllocations
    \/ AllocHere \/ AllocGrown \/ Release \/ Clear
    \/ \E n \in Sizes : Reserve(n) \/ Resize(n)

Spec == Init /\ [][Next]_vars

-----------------------------------------------------------------------------
\* Types of the variables.
TypeOK ==
    /\ {first, current, freeList} \subseteq 0 .. created
    /\ capacity \in Nat
    /\ created \in 0 .. MaxPools
    /\ pools \subseteq 1 .. created
    /\ next \in [Pool -> 0 .. created]
    /\ size \in [Pool -> Nat]
    /\ used \in [Pool -> Nat]
    /\ handed \subseteq Pool \X Nat
    /\ fault \in {"none", "resize", "dump"}

\* Items of p handed out, by index
Out(p) == {item[2] : item \in {it \in handed : it[1] = p}}

\* alloc() never hands out an item twice between two releases, however pools are
\* grown, released and used again: the items of a pool that are out are those
\* below its index, and none is out of a pool that is freed.  The index stays
\* inside the pool except in one of no items, where alloc() tests for the index
\* being the size only before it moves it from 0 to 1.
ItemsDistinct ==
    /\ TypeOK
    /\ \A item \in handed : item[1] \in pools
    /\ \A p \in pools :
         /\ Out(p) = 0 .. used[p] - 1
         /\ used[p] <= size[p] \/ size[p] = 0

\* The free list is the rest of the chain behind the pool in use, so that taking
\* a pool from it never drops or doubles one.
FreeListIsRest == current # 0 => freeList = next[current]

\* Pools behind p, p included
From(p) ==
    LET behind[k \in 0 .. MaxPools] ==
          IF k = 0 THEN {p} \ {0}
          ELSE behind[k - 1] \cup ({next[q] : q \in behind[k - 1]} \ {0})
    IN  behind[MaxPools]

\* Items in the pools that are allocated, added up in the order of creation
Total ==
    LET upTo[p \in 0 .. created] ==
          IF p = 0 THEN 0
          ELSE upTo[p - 1] + (IF p \in pools THEN size[p] ELSE 0)
    IN  upTo[created]

\* The chain from m_first holds every pool that is allocated and no other, and
\* the pools behind the one in use hold no item: release() and clear() reach all,
\* and capacity() is what the pools hold together.
ChainComplete ==
    current # 0 => /\ From(first) = pools
                   /\ current \in pools
                   /\ \A p \in From(freeList) : used[p] = 0
                   /\ capacity = Total

\* A null pointer is followed only by an allocator that holds no pool: by resize()
\* after clear(), which leaves m_first dangling, and by dumpAllocations() after
\* clear() or before there was a pool.  No sequence of the other calls does it.
FaultWithoutPool ==
    /\ fault # "none" => pools = {}
    /\ fault = "resize" => first # 0
=============================================================================

----------------------------- MODULE DDLRegistry -----------------------------
(***************************************************************************)
(* The static registry DDLNode::s_allocatedNodes used by several threads,  *)
(* each with a parser and nodes of its own.  Nothing guards the registry,  *)
(* so create and the destructor interleave access by access, down to the   *)
(* words of the std::vector: the pointers start, finish and end of its     *)
(* storage, and the blocks they point into, which a growth replaces.       *)
(*                                                                         *)
(* The module says which of these interleavings are the harmful ones.      *)
(***************************************************************************)
EXTENDS Integers, Sequences, FiniteSets

CONSTANTS
    Thread,     \* threads, each creates and destroys its own nodes
    Null,       \* nullptr
    MaxCreates  \* bound: nodes a thread creates

ASSUME MaxCreatesAssumption == MaxCreates \in Nat
ASSUME NullAssumption == Null \notin Thread \X Nat

VARIABLES
    start, finish, end, \* the vector's three pointers
    mem,                \* blocks of storage, by number, contents included
    freed,              \* blocks given back
    pc,                 \* what a thread is about to do
    made,               \* number of nodes a thread has created
    living,             \* nodes registered and not destroyed
    idx,                \* m_idx
    at,                 \* pointer or block number a thread holds in a register
    victim,             \* the node whose destructor a thread runs
    mixed,              \* two creates have overlapped
    raced,              \* two push_backs, or a growth and an access, have
    fault               \* storage freed or out of bounds was accessed

pointers == <<start, finish, end>>
nodes    == <<made, living, idx, victim>>
vars     == <<pointers, mem, freed, pc, nodes, at, mixed, raced, fault>>

Node == Thread \X (1 .. MaxCreates)
New(t) == <<t, made[t]>>

\* The number of the empty block that null pointers stand for
NoBlock == 1

Pointer(b, i) == [block |-> b, off |-> i]
Behind(p) == [p EXCEPT !.off = @ + 1]

\* The slot p points to may be read and written.
Valid(p) == p.block \notin freed /\ p.off < Len(mem[p.block])
Slot(p) == mem[p.block][p.off + 1]
Stored(p, n) == [mem EXCEPT ![p.block][p.off + 1] = n]

Init ==
    /\ start = Pointer(NoBlock, 0) /\ finish = start /\ end = start
    /\ mem = << <<>> >>
    /\ freed = {}
    /\ pc = [t \in Thread |-> "idle"]
    /\ made = [t \in Thread |-> 0]
    /\ living = {}
    /\ idx = [n \in Node |-> 0]
    /\ at = [t \in Thread |-> start]
    /\ victim = [t \in Thread |-> Null]
    /\ mixed = FALSE /\ raced = FALSE /\ fault = FALSE

Goto(t, label) == pc' = [pc EXCEPT ![t] = label]

\* The size a create remembers as the index of its node
SizeAndOne == finish.off + 1
Size == finish.off

\* create: size() is read, the node is constructed with it
ReadSize(t) ==
    /\ pc[t] = "idle"
    /\ made[t] < MaxCreates
    /\ made' = [made EXCEPT ![t] = @ + 1]
    /\ IF start.block = finish.block
       THEN idx' = [idx EXCEPT ![<<t, made'[t]>>] = Size] /\ UNCHANGED fault
       ELSE fault' = TRUE /\ UNCHANGED idx
    /\ Goto(t, "push")
    /\ UNCHANGED <<pointers, mem, freed, living, at, victim>>

\* push_back: room at finish, or none
Full == finish = end

PushBack(t) ==
    /\ pc[t] = "push"
    /\ at' = [at EXCEPT ![t] = finish]
    /\ Goto(t, IF Full THEN "grow" ELSE "store")
    /\ UNCHANGED <<pointers, mem, freed, nodes, fault>>

Store(t) ==
    /\ pc[t] = "store"
    /\ IF Valid(at[t])
       THEN mem' = Stored(at[t], New(t)) /\ UNCHANGED fault
       ELSE fault' = TRUE /\ UNCHANGED mem
    /\ Goto(t, "bump")
    /\ UNCHANGED <<pointers, freed, nodes, at>>

\* ++finish: from the register or from memory, as the compiler likes
Bump(t) ==
    /\ pc[t] = "bump"
    /\ \E p \in {at[t], finish} : finish' = Behind(p)
    /\ living' = living \cup {New(t)}
    /\ Goto(t, "idle")
    /\ UNCHANGED <<start, end, mem, freed, made, idx, at, victim, fault>>

\* A growth: the slots are copied into a block twice as long, behind them the
\* new node; the older block is freed; then the three pointers are replaced.
Copied(old, n) ==
    LET used == SubSeq(mem[start.block], 1, old)
        room == IF old = 0 THEN 0 ELSE old - 1
    IN  Append(used, n) \o [i \in 1 .. room |-> Null]

Grow(t) ==
    /\ pc[t] = "grow"
    /\ IF /\ start.block = finish.block /\ start.block \notin freed
          /\ finish.off <= Len(mem[start.block])
       THEN /\ mem' = Append(mem, Copied(finish.off, New(t)))
            /\ at' = [at EXCEPT ![t] = Pointer(Len(mem'), finish.off)]
            /\ UNCHANGED fault
       ELSE fault' = TRUE /\ UNCHANGED <<mem, at>>
    /\ Goto(t, "free")
    /\ UNCHANGED <<pointers, freed, nodes>>

FreeOld(t) ==
    /\ pc[t] = "free"
    /\ freed' = freed \cup {start.block}
    /\ fault' = (start.block \in freed \ {NoBlock})
    /\ Goto(t, "start")
    /\ UNCHANGED <<pointers, mem, nodes, at>>

SetStart(t) ==
    /\ pc[t] = "start"
    /\ start' = Pointer(at[t].block, 0)
    /\ Goto(t, "finish")
    /\ UNCHANGED <<finish, end, mem, freed, nodes, at, fault>>

SetFinish(t) ==
    /\ pc[t] = "finish"
    /\ finish' = Behind(at[t])
    /\ Goto(t, "end")
    /\ UNCHANGED <<start, end, mem, freed, nodes, at, fault>>

SetEnd(t) ==
    /\ pc[t] = "end"
    /\ end' = Pointer(at[t].block, Len(mem[at[t].block]))
    /\ living' = living \cup {New(t)}
    /\ Goto(t, "idle")
    /\ UNCHANGED <<start, finish, mem, freed, made, idx, at, victim, fault>>

\* ~DDLNode: s_allocatedNodes[m_idx] is compared with this, then cleared.
Destroy(t) ==
    /\ pc[t] = "idle"
    /\ \E n \in living :
         /\ n[1] = t
         /\ victim' = [victim EXCEPT ![t] = n]
         /\ at' = [at EXCEPT ![t] = Pointer(start.block, idx[n])]
         /\ living' = living \ {n}
    /\ Goto(t, "compare")
    /\ UNCHANGED <<pointers, mem, freed, made, idx, fault>>

AnySlot(t) == Valid(at[t])
OwnSlot(t) == Slot(at[t]) = victim[t]

Compare(t) ==
    /\ pc[t] = "compare"
    /\ IF ~Valid(at[t]) THEN fault' = TRUE /\ Goto(t, "idle")
       ELSE UNCHANGED fault /\ Goto(t, IF OwnSlot(t) THEN "clear" ELSE "idle")
    /\ UNCHANGED <<pointers, mem, freed, nodes, at>>

Clear(t) ==
    /\ pc[t] = "clear"
    /\ IF Valid(at[t])
       THEN mem' = Stored(at[t], Null) /\ UNCHANGED fault
       ELSE fault' = TRUE /\ UNCHANGED mem
    /\ Goto(t, "idle")
    /\ UNCHANGED <<pointers, freed, nodes, at>>

\* What has happened so far between two threads
Growing == {"grow", "free", "start", "finish", "end"}
Pushing == Growing \cup {"store", "bump"}

Observe ==
    /\ mixed' = (mixed \/ \E t, u \in Thread :
                    t # u /\ {pc'[t], pc'[u]} \subseteq Pushing \cup {"push"})
    /\ raced' = (raced \/ \E t, u \in Thread :
                    /\ t # u
                    /\ \/ {pc'[t], pc'[u]} \subseteq Pushing
                       \/ /\ pc'[t] \in Growing
                          /\ pc'[u] \in {"compare", "clear"} \/ pc'[u] # pc[u])

Step(t) ==
    \/ ReadSize(t) \/ PushBack(t) \/ Store(t) \/ Bump(t)
    \/ Grow(t) \/ FreeOld(t) \/ SetStart(t) \/ SetFinish(t) \/ SetEnd(t)
    \/ Destroy(t) \/ Compare(t) \/ Clear(t)

\* Nothing is defined once memory that is not there was accessed.
Next == ~fault /\ (\E t \in Thread : Step(t)) /\ Observe

Spec == Init /\ [][Next]_vars

-----------------------------------------------------------------------------
Word == [block : Nat, off : Nat]

\* Types of the variables.
TypeOK ==
    /\ {start, finish, end} \subseteq Word
    /\ mem \in Seq(Seq(Node \cup {Null}))
    /\ freed \subseteq DOMAIN mem
    /\ pc \in [Thread -> Pushing \cup {"idle", "push", "compare", "clear"}]
    /\ made \in [Thread -> 0 .. MaxCreates]
    /\ living \subseteq Node
    /\ idx \in [Node -> Nat]
    /\ at \in [Thread -> Word]
    /\ victim \in [Thread -> Node \cup {Null}]
    /\ {mixed, raced, fault} \subseteq BOOLEAN

\* The index a node remembers is always one of the vector's: create() and the
\* destructor touch no storage that is freed or not there, whatever creates and
\* destructors of other threads come between the steps of one.  Two races are left
\* out, on which the code has no claim: push_backs that overlap, and a growth
\* while another thread is between reading a pointer of the vector and using it.
NoFaultUnraced == ~raced => ~fault

\* The slots of the storage in use
Registered == {mem[start.block][i] : i \in 1 .. finish.off}
Resting == ~raced /\ \A t \in Thread : pc[t] \notin Growing

\* Up to such a race no living node is missing from the registry, although two
\* creates may have read the same size and so remember the same index.
LivingRegistered ==
    /\ TypeOK
    /\ Resting => living \subseteq Registered

\* Up to such a race a destructor clears a slot only while it holds its own node,
\* whatever the other threads did since it compared the two, and also when the
\* index its node remembers is another node's.
ClearsOwnOnly ==
    [][\A t \in Thread : (pc[t] = "clear" /\ ~raced) => Slot(at[t]) = victim[t]]_vars

\* When creates do not overlap the registry is exact, with destructors of other
\* threads running between any two steps: living nodes are at the index they
\* remember, and what is not living is about to be cleared.
ExactUnmixed ==
    Resting /\ ~mixed =>
      /\ \A n \in living : idx[n] < finish.off /\ mem[start.block][idx[n] + 1] = n
      /\ \A n \in Registered \ (living \cup {Null}) :
           \E t \in Thread : pc[t] \in {"compare", "clear"} /\ victim[t] = n
=============================================================================

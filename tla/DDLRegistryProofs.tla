-------------------------- MODULE DDLRegistryProofs --------------------------
(***************************************************************************)
(* The registry under any number of threads and of nodes: what holds up to *)
(* a race, and that it does whatever the other threads do.                 *)
(***************************************************************************)
EXTENDS DDLRegistry, SequenceTheorems, TLAPS

Creating == Pushing \cup {"push"}
Clearing == {"compare", "clear"}
Label == Creating \cup Clearing \cup {"idle"}
Content == Node \cup {Null}
Blocks == 1 .. Len(mem)

-----------------------------------------------------------------------------
(* Words and memory.                                                       *)

LEMMA WordIs == ASSUME NEW p \in Word PROVE p.block \in Nat /\ p.off \in Nat
  BY DEF Word

LEMMA PointerIs ==
    ASSUME NEW b \in Nat, NEW i \in Nat
    PROVE  Pointer(b, i) \in Word /\ Pointer(b, i).block = b /\ Pointer(b, i).off = i
  BY DEF Word, Pointer

LEMMA BehindIs ==
    ASSUME NEW p \in Word
    PROVE  Behind(p) \in Word /\ Behind(p).block = p.block /\ Behind(p).off = p.off + 1
  BY DEF Word, Behind

\* A store changes one slot.
LEMMA StoredIs ==
    ASSUME mem \in Seq(Seq(Content)), NEW p \in Word, p.block \in Blocks,
           p.off < Len(mem[p.block]), NEW n \in Content
    PROVE  /\ Stored(p, n) \in Seq(Seq(Content))
           /\ Len(Stored(p, n)) = Len(mem)
           /\ \A b \in Blocks : Len(Stored(p, n)[b]) = Len(mem[b])
           /\ \A b \in Blocks : \A i \in 1 .. Len(mem[b]) :
                Stored(p, n)[b][i] = IF b = p.block /\ i = p.off + 1 THEN n ELSE mem[b][i]
<1> DEFINE c == p.block
           i0 == p.off + 1
           slots == [mem[c] EXCEPT ![i0] = n]
<1>1. c \in 1 .. Len(mem) /\ mem[c] \in Seq(Content) /\ i0 \in 1 .. Len(mem[c])
  <2>1. c \in 1 .. Len(mem) /\ mem[c] \in Seq(Content)
    BY ElementOfSeq DEF Blocks
  <2>2. Len(mem[c]) \in Nat
    BY <2>1, LenProperties
  <2> QED
    BY <2>1, <2>2, WordIs
<1>2. /\ slots \in Seq(Content) /\ Len(slots) = Len(mem[c])
      /\ \A j \in 1 .. Len(mem[c]) : slots[j] = IF j = i0 THEN n ELSE mem[c][j]
  BY <1>1, ExceptSeq
<1>3. Stored(p, n) = [mem EXCEPT ![c] = slots]
  BY DEF Stored
<1> HIDE DEF slots, c, i0
<1>4. /\ [mem EXCEPT ![c] = slots] \in Seq(Seq(Content))
      /\ Len([mem EXCEPT ![c] = slots]) = Len(mem)
      /\ \A j \in 1 .. Len(mem) : [mem EXCEPT ![c] = slots][j] = IF j = c THEN slots ELSE mem[j]
  BY <1>1, <1>2, ExceptSeq
<1>5. c = p.block /\ i0 = p.off + 1
  BY DEF c, i0
<1> QED
  BY <1>2, <1>3, <1>4, <1>5 DEF Blocks

LEMMA FunctionSeq ==
    ASSUME NEW S, NEW k \in Nat, NEW f \in [1 .. k -> S]
    PROVE  f \in Seq(S) /\ Len(f) = k
<1>1. f \in Seq(S)
  BY SeqDef
<1> QED
  BY <1>1, LenProperties

LEMMA AppendConcat ==
    ASSUME NEW S, NEW s \in Seq(S), NEW e \in S, NEW r \in Seq(S), NEW c, c = Append(s, e) \o r
    PROVE  /\ c \in Seq(S) /\ Len(c) > Len(s)
           /\ \A i \in 1 .. Len(s) : c[i] = s[i]
           /\ c[Len(s) + 1] = e
<1> DEFINE a == Append(s, e)
<1>1. /\ a \in Seq(S) /\ Len(a) = Len(s) + 1
      /\ \A i \in 1 .. Len(s) : a[i] = s[i]
      /\ a[Len(s) + 1] = e
  BY AppendProperties
<1>2. Len(r) \in Nat /\ Len(s) \in Nat
  BY LenProperties
<1>3. c = a \o r
  OBVIOUS
<1> HIDE DEF a
<1>4. /\ a \o r \in Seq(S) /\ Len(a \o r) = Len(a) + Len(r)
      /\ \A i \in 1 .. Len(a) + Len(r) : (a \o r)[i] = IF i <= Len(a) THEN a[i] ELSE r[i - Len(a)]
  BY <1>1, ConcatProperties, Zenon
<1>5. c \in Seq(S) /\ Len(c) = Len(s) + 1 + Len(r) /\ \A i \in 1 .. Len(s) + 1 : c[i] = a[i]
  BY <1>1, <1>2, <1>3, <1>4
<1> QED
  BY <1>1, <1>2, <1>5

\* A growth copies the slots in use and puts the new node behind them.
LEMMA CopiedIs ==
    ASSUME mem \in Seq(Seq(Content)), start.block \in Blocks, NEW old \in Nat,
           old <= Len(mem[start.block]), NEW n \in Content
    PROVE  /\ Copied(old, n) \in Seq(Content)
           /\ Len(Copied(old, n)) > old
           /\ \A i \in 1 .. old : Copied(old, n)[i] = mem[start.block][i]
           /\ Copied(old, n)[old + 1] = n
<1> DEFINE slots == mem[start.block]
           used == SubSeq(slots, 1, old)
           room == IF old = 0 THEN 0 ELSE old - 1
           free == [i \in 1 .. room |-> Null]
<1>1. slots \in Seq(Content) /\ Len(slots) \in Nat
  BY ElementOfSeq, LenProperties DEF Blocks
<1>2. used \in Seq(Content) /\ Len(used) = old /\ \A i \in 1 .. old : used[i] = slots[i]
  <2>1. \A i \in 1 .. old : slots[i] \in Content
    BY <1>1, ElementOfSeq
  <2> HIDE DEF slots
  <2> QED
    BY <2>1, SubSeqProperties
<1>3. free \in Seq(Content)
  <2>1. room \in Nat
    OBVIOUS
  <2> HIDE DEF room
  <2>2. free \in [1 .. room -> Content]
    BY DEF Content
  <2> HIDE DEF free
  <2> QED
    BY <2>1, <2>2, FunctionSeq
<1>4. Copied(old, n) = Append(used, n) \o free
  BY DEF Copied
<1> HIDE DEF slots, used, free
<1> DEFINE c == Append(used, n) \o free
<1>5. /\ c \in Seq(Content) /\ Len(c) > old
      /\ (\A i \in 1 .. old : c[i] = used[i]) /\ c[old + 1] = n
  <2>1. n \in Content /\ used \in Seq(Content) /\ free \in Seq(Content) /\ c = Append(used, n) \o free
    BY <1>2, <1>3
  <2> HIDE DEF c
  <2>2. /\ c \in Seq(Content) /\ Len(c) > Len(used)
        /\ (\A i \in 1 .. Len(used) : c[i] = used[i]) /\ c[Len(used) + 1] = n
    BY <2>1, AppendConcat
  <2> QED
    BY <1>2, <2>2
<1> HIDE DEF c
<1>6. c \in Seq(Content) /\ Len(c) > old /\ (\A i \in 1 .. old : c[i] = slots[i]) /\ c[old + 1] = n
  BY <1>2, <1>5
<1>7. Copied(old, n) = c
  BY <1>4 DEF c
<1> QED
  BY <1>6, <1>7 DEF slots

-----------------------------------------------------------------------------
(* Types.                                                                  *)

\* TypeOK but for the flags, with what keeps it: pointers are into blocks there
\* are, and a thread that creates or destroys a node has one.
Typed ==
    /\ start \in Word /\ finish \in Word /\ end \in Word
    /\ start.off = 0
    /\ start.block \in Blocks /\ finish.block \in Blocks /\ end.block \in Blocks
    /\ mem \in Seq(Seq(Content))
    /\ freed \subseteq Blocks
    /\ pc \in [Thread -> Label]
    /\ made \in [Thread -> 0 .. MaxCreates]
    /\ living \subseteq Node
    /\ idx \in [Node -> Nat]
    /\ at \in [Thread -> Word]
    /\ victim \in [Thread -> Content]
    /\ \A t \in Thread : at[t].block \in Blocks
    /\ \A t \in Thread : pc[t] \in Creating => New(t) \in Node
    /\ \A t \in Thread : pc[t] \in Clearing => victim[t] \in Node /\ victim[t][1] = t

Flagged == mixed \in BOOLEAN /\ raced \in BOOLEAN /\ fault \in BOOLEAN

LEMMA NewIs ==
    ASSUME Typed, NEW t \in Thread
    PROVE  /\ New(t) \in Node <=> made[t] \in 1 .. MaxCreates
           /\ made[t] + 1 \in 1 .. MaxCreates <=> made[t] < MaxCreates
  BY MaxCreatesAssumption DEF Typed, New, Node

LEMMA LenMem == ASSUME Typed PROVE Len(mem) \in Nat /\ Blocks \subseteq Nat
  BY LenProperties DEF Typed, Blocks

LEMMA InitTyped == Init => Typed
<1> SUFFICES ASSUME Init PROVE Typed
  OBVIOUS
<1>1. start \in Word /\ start.block = 1 /\ start.off = 0 /\ finish = start /\ end = start
  BY PointerIs DEF Init, NoBlock
<1>2. mem \in Seq(Seq(Content)) /\ Len(mem) = 1
  BY DEF Init
<1> QED
  BY <1>1, <1>2, MaxCreatesAssumption
     DEF Init, Typed, Blocks, Label, Creating, Clearing, Pushing, Growing, Content
\* A step of one thread keeps the types if it does so for what it changes.
LEMMA TypedFrame ==
    ASSUME Typed, NEW t \in Thread, NEW l \in Label, pc' = [pc EXCEPT ![t] = l],
           start' \in Word, finish' \in Word, end' \in Word, start'.off = 0,
           start'.block \in Blocks', finish'.block \in Blocks', end'.block \in Blocks',
           mem' \in Seq(Seq(Content)), Len(mem) <= Len(mem'),
           freed' \subseteq Blocks',
           made' \in [Thread -> 0 .. MaxCreates], \A u \in Thread \ {t} : made'[u] = made[u],
           living' \subseteq Node,
           idx' \in [Node -> Nat],
           at' \in [Thread -> Word], at'[t].block \in Blocks',
           \A u \in Thread \ {t} : at'[u] = at[u],
           victim' \in [Thread -> Content], \A u \in Thread \ {t} : victim'[u] = victim[u],
           l \in Creating => made'[t] \in 1 .. MaxCreates,
           l \in Clearing => victim'[t] \in Node /\ victim'[t][1] = t
    PROVE  Typed'
<1>1. Len(mem) \in Nat /\ Len(mem') \in Nat
  BY LenProperties DEF Typed
<1>2. \A u \in Thread : at'[u].block \in Blocks'
  <2>1. Blocks \subseteq Blocks'
    BY <1>1 DEF Blocks
  <2>2. \A u \in Thread : at[u].block \in Blocks
    BY DEF Typed
  <2> QED
    BY <2>1, <2>2
<1>3. pc' \in [Thread -> Label]
  BY DEF Typed
<1>4. \A u \in Thread : pc'[u] \in Creating => New(u)' \in Node
  <2>1. \A u \in Thread : pc'[u] \in Creating => made'[u] \in 1 .. MaxCreates
    BY NewIs DEF Typed
  <2> QED
    BY <2>1 DEF New, Node
<1>5. \A u \in Thread : pc'[u] \in Clearing => victim'[u] \in Node /\ victim'[u][1] = u
  BY DEF Typed
<1>6. Content' = Content /\ Label' = Label
  BY DEF Content, Label, Node, Creating, Clearing, Pushing, Growing
<1> QED
  BY <1>2, <1>3, <1>4, <1>5, <1>6 DEF Typed

LEMMA ReadSizeTyped == ASSUME Typed, NEW t \in Thread, ReadSize(t) PROVE Typed'
<1> DEFINE l == "push"
<1>1. made' \in [Thread -> 0 .. MaxCreates]
  BY MaxCreatesAssumption DEF ReadSize, Typed
<1>2. idx' \in [Node -> Nat]
  BY WordIs DEF ReadSize, Typed, Size
<1>7. mem' = mem /\ Blocks' = Blocks
  BY DEF ReadSize, Blocks, pointers, nodes
<1>8. l \in Label /\ pc' = [pc EXCEPT ![t] = l]
  BY DEF ReadSize, Goto, Label, Creating, Clearing, Pushing, Growing
<1>9. /\ start' \in Word /\ finish' \in Word /\ end' \in Word /\ start'.off = 0
      /\ start'.block \in Blocks' /\ finish'.block \in Blocks' /\ end'.block \in Blocks'
      /\ mem' \in Seq(Seq(Content)) /\ Len(mem) <= Len(mem')
      /\ freed' \subseteq Blocks' /\ living' \subseteq Node
      /\ made' \in [Thread -> 0 .. MaxCreates] /\ idx' \in [Node -> Nat]
      /\ at' \in [Thread -> Word] /\ victim' \in [Thread -> Content]
  BY <1>1, <1>2, <1>7, LenMem DEF ReadSize, Typed, pointers, nodes
<1>10. /\ at'[t].block \in Blocks'
       /\ \A u \in Thread \ {t} : made'[u] = made[u] /\ at'[u] = at[u] /\ victim'[u] = victim[u]
       /\ l \in Creating => made'[t] \in 1 .. MaxCreates
       /\ l \in Clearing => victim'[t] \in Node /\ victim'[t][1] = t
  BY NewIs DEF ReadSize, Typed, Blocks, Creating, Clearing, Pushing, Growing, pointers, nodes, Size
<1> HIDE DEF l
<1> QED
  BY <1>8, <1>9, <1>10, TypedFrame

LEMMA PushBackTyped == ASSUME Typed, NEW t \in Thread, PushBack(t) PROVE Typed'
<1> DEFINE l == IF Full THEN "grow" ELSE "store"
<1>7. mem' = mem /\ Blocks' = Blocks
  BY DEF PushBack, Blocks, pointers, nodes
<1>8. l \in Label /\ pc' = [pc EXCEPT ![t] = l]
  BY DEF PushBack, Goto, Label, Creating, Clearing, Pushing, Growing
<1>9. /\ start' \in Word /\ finish' \in Word /\ end' \in Word /\ start'.off = 0
      /\ start'.block \in Blocks' /\ finish'.block \in Blocks' /\ end'.block \in Blocks'
      /\ mem' \in Seq(Seq(Content)) /\ Len(mem) <= Len(mem')
      /\ freed' \subseteq Blocks' /\ living' \subseteq Node
      /\ made' \in [Thread -> 0 .. MaxCreates] /\ idx' \in [Node -> Nat]
      /\ at' \in [Thread -> Word] /\ victim' \in [Thread -> Content]
  BY <1>7, LenMem, WordIs DEF PushBack, Typed, pointers, nodes
<1>10. /\ at'[t].block \in Blocks'
       /\ \A u \in Thread \ {t} : made'[u] = made[u] /\ at'[u] = at[u] /\ victim'[u] = victim[u]
       /\ l \in Creating => made'[t] \in 1 .. MaxCreates
       /\ l \in Clearing => victim'[t] \in Node /\ victim'[t][1] = t
  BY NewIs DEF PushBack, Typed, Blocks, Creating, Clearing, Pushing, Growing, pointers, nodes
<1> HIDE DEF l
<1> QED
  BY <1>8, <1>9, <1>10, TypedFrame

LEMMA StoreTyped == ASSUME Typed, NEW t \in Thread, Store(t) PROVE Typed'
<1> DEFINE l == "bump"
<1>1. /\ Len(mem') = Len(mem) /\ mem' \in Seq(Seq(Content)) /\ Len(mem) \in Nat
  BY NewIs, StoredIs, LenProperties DEF Store, Typed, Valid, Content, Creating, Pushing
<1>7. Len(mem) <= Len(mem') /\ Blocks \subseteq Blocks' /\ Blocks \subseteq Nat
  BY <1>1 DEF Blocks
<1>8. l \in Label /\ pc' = [pc EXCEPT ![t] = l]
  BY DEF Store, Goto, Label, Creating, Clearing, Pushing, Growing
<1>9. /\ start' \in Word /\ finish' \in Word /\ end' \in Word /\ start'.off = 0
      /\ start'.block \in Blocks' /\ finish'.block \in Blocks' /\ end'.block \in Blocks'
      /\ mem' \in Seq(Seq(Content)) /\ Len(mem) <= Len(mem')
      /\ freed' \subseteq Blocks' /\ living' \subseteq Node
      /\ made' \in [Thread -> 0 .. MaxCreates] /\ idx' \in [Node -> Nat]
      /\ at' \in [Thread -> Word] /\ victim' \in [Thread -> Content]
  BY <1>1, <1>7 DEF Store, Typed, pointers, nodes
<1>10. /\ at'[t].block \in Blocks'
       /\ \A u \in Thread \ {t} : made'[u] = made[u] /\ at'[u] = at[u] /\ victim'[u] = victim[u]
       /\ l \in Creating => made'[t] \in 1 .. MaxCreates
       /\ l \in Clearing => victim'[t] \in Node /\ victim'[t][1] = t
  BY NewIs, <1>1 DEF Store, Typed, Blocks, Creating, Clearing, Pushing, Growing, pointers, nodes
<1> HIDE DEF l
<1> QED
  BY <1>8, <1>9, <1>10, TypedFrame

LEMMA BumpTyped == ASSUME Typed, NEW t \in Thread, Bump(t) PROVE Typed'
<1> DEFINE l == "idle"
<1>1. finish' \in Word /\ finish'.block \in Blocks
  BY BehindIs DEF Bump, Typed
<1>2. New(t) \in Node
  BY DEF Bump, Typed, Creating, Pushing, Growing
<1>3. /\ UNCHANGED <<start, end, mem, freed, made, idx, at, victim>>
      /\ living' = living \cup {New(t)}
  BY DEF Bump
<1>7. mem' = mem /\ Blocks' = Blocks
  BY DEF Bump, Blocks, pointers, nodes
<1>8. l \in Label /\ pc' = [pc EXCEPT ![t] = l]
  BY DEF Bump, Goto, Label, Creating, Clearing, Pushing, Growing
<1>9. /\ start' \in Word /\ finish' \in Word /\ end' \in Word /\ start'.off = 0
      /\ start'.block \in Blocks' /\ finish'.block \in Blocks' /\ end'.block \in Blocks'
      /\ mem' \in Seq(Seq(Content)) /\ Len(mem) <= Len(mem')
      /\ freed' \subseteq Blocks' /\ living' \subseteq Node
      /\ made' \in [Thread -> 0 .. MaxCreates] /\ idx' \in [Node -> Nat]
      /\ at' \in [Thread -> Word] /\ victim' \in [Thread -> Content]
  BY <1>1, <1>2, <1>3, <1>7, LenMem DEF Typed
<1>10. /\ at'[t].block \in Blocks'
       /\ \A u \in Thread \ {t} : made'[u] = made[u] /\ at'[u] = at[u] /\ victim'[u] = victim[u]
       /\ l \in Creating => made'[t] \in 1 .. MaxCreates
       /\ l \in Clearing => victim'[t] \in Node /\ victim'[t][1] = t
  BY NewIs, <1>1 DEF Bump, Typed, Blocks, Creating, Clearing, Pushing, Growing, pointers, nodes
<1> HIDE DEF l
<1> QED
  BY <1>8, <1>9, <1>10, TypedFrame

LEMMA GrowTyped == ASSUME Typed, NEW t \in Thread, Grow(t) PROVE Typed'
<1> DEFINE l == "free"
<1>1. /\ mem' \in Seq(Seq(Content)) /\ Len(mem) <= Len(mem') /\ Len(mem) \in Nat /\ Len(mem') \in Nat
      /\ at' \in [Thread -> Word] /\ at'[t].block \in Blocks'
      /\ \A u \in Thread \ {t} : at'[u] = at[u]
  <2>1. Len(mem) \in Nat /\ finish.off \in Nat
    BY LenProperties, WordIs DEF Typed
  <2>2. CASE fault' = TRUE /\ UNCHANGED <<mem, at>>
    BY <2>1, <2>2 DEF Typed, Blocks
  <2>3. CASE /\ start.block = finish.block /\ start.block \notin freed
             /\ finish.off <= Len(mem[start.block])
             /\ mem' = Append(mem, Copied(finish.off, New(t)))
             /\ at' = [at EXCEPT ![t] = Pointer(Len(mem'), finish.off)]
    <3>1. Copied(finish.off, New(t)) \in Seq(Content)
      BY <2>1, <2>3, CopiedIs, NewIs DEF Grow, Typed, Content, Creating, Pushing, Growing
    <3>2. mem' \in Seq(Seq(Content)) /\ Len(mem') = Len(mem) + 1
      BY <2>3, <3>1, AppendProperties DEF Typed
    <3>3. Pointer(Len(mem'), finish.off) \in Word /\ Pointer(Len(mem'), finish.off).block = Len(mem')
      BY <2>1, <3>2, PointerIs
    <3> QED
      BY <2>1, <2>3, <3>2, <3>3 DEF Typed, Blocks
  <2> QED
    BY <2>2, <2>3 DEF Grow
<1>7. Len(mem) <= Len(mem') /\ Blocks \subseteq Blocks' /\ Blocks \subseteq Nat
  BY <1>1 DEF Blocks
<1>8. l \in Label /\ pc' = [pc EXCEPT ![t] = l]
  BY DEF Grow, Goto, Label, Creating, Clearing, Pushing, Growing
<1>9. /\ start' \in Word /\ finish' \in Word /\ end' \in Word /\ start'.off = 0
      /\ start'.block \in Blocks' /\ finish'.block \in Blocks' /\ end'.block \in Blocks'
      /\ mem' \in Seq(Seq(Content)) /\ Len(mem) <= Len(mem')
      /\ freed' \subseteq Blocks' /\ living' \subseteq Node
      /\ made' \in [Thread -> 0 .. MaxCreates] /\ idx' \in [Node -> Nat]
      /\ at' \in [Thread -> Word] /\ victim' \in [Thread -> Content]
  BY <1>1, <1>7 DEF Grow, Typed, pointers, nodes
<1>10. /\ at'[t].block \in Blocks'
       /\ \A u \in Thread \ {t} : made'[u] = made[u] /\ at'[u] = at[u] /\ victim'[u] = victim[u]
       /\ l \in Creating => made'[t] \in 1 .. MaxCreates
       /\ l \in Clearing => victim'[t] \in Node /\ victim'[t][1] = t
  BY NewIs, <1>1 DEF Grow, Typed, Blocks, Creating, Clearing, Pushing, Growing, pointers, nodes
<1> HIDE DEF l
<1> QED
  BY <1>8, <1>9, <1>10, TypedFrame

LEMMA FreeOldTyped == ASSUME Typed, NEW t \in Thread, FreeOld(t) PROVE Typed'
<1> DEFINE l == "start"
<1>1. /\ UNCHANGED <<start, finish, end, mem, made, living, idx, victim, at>>
      /\ freed' = freed \cup {start.block}
  BY DEF FreeOld, pointers, nodes
<1>2. Blocks' = Blocks
  BY <1>1 DEF Blocks
<1>3. freed' \subseteq Blocks'
  BY <1>1, <1>2 DEF Typed
<1>8. l \in Label /\ pc' = [pc EXCEPT ![t] = l]
  BY DEF FreeOld, Goto, Label, Creating, Clearing, Pushing, Growing
<1>9. /\ start' \in Word /\ finish' \in Word /\ end' \in Word /\ start'.off = 0
      /\ start'.block \in Blocks' /\ finish'.block \in Blocks' /\ end'.block \in Blocks'
      /\ mem' \in Seq(Seq(Content)) /\ Len(mem) <= Len(mem')
      /\ freed' \subseteq Blocks' /\ living' \subseteq Node
      /\ made' \in [Thread -> 0 .. MaxCreates] /\ idx' \in [Node -> Nat]
      /\ at' \in [Thread -> Word] /\ victim' \in [Thread -> Content]
  BY <1>1, <1>2, <1>3, LenMem DEF Typed
<1>10. /\ at'[t].block \in Blocks'
       /\ \A u \in Thread \ {t} : made'[u] = made[u] /\ at'[u] = at[u] /\ victim'[u] = victim[u]
       /\ l \in Creating => made'[t] \in 1 .. MaxCreates
       /\ l \in Clearing => victim'[t] \in Node /\ victim'[t][1] = t
  BY NewIs DEF FreeOld, Typed, Blocks, Creating, Clearing, Pushing, Growing, pointers, nodes
<1> HIDE DEF l
<1> QED
  BY <1>8, <1>9, <1>10, TypedFrame

LEMMA SetStartTyped == ASSUME Typed, NEW t \in Thread, SetStart(t) PROVE Typed'
<1> DEFINE l == "finish"
<1>1. start' \in Word /\ start'.block \in Blocks /\ start'.off = 0
  BY PointerIs, WordIs DEF SetStart, Typed
<1>7. mem' = mem /\ Blocks' = Blocks
  BY DEF SetStart, Blocks, pointers, nodes
<1>8. l \in Label /\ pc' = [pc EXCEPT ![t] = l]
  BY DEF SetStart, Goto, Label, Creating, Clearing, Pushing, Growing
<1>9. /\ start' \in Word /\ finish' \in Word /\ end' \in Word /\ start'.off = 0
      /\ start'.block \in Blocks' /\ finish'.block \in Blocks' /\ end'.block \in Blocks'
      /\ mem' \in Seq(Seq(Content)) /\ Len(mem) <= Len(mem')
      /\ freed' \subseteq Blocks' /\ living' \subseteq Node
      /\ made' \in [Thread -> 0 .. MaxCreates] /\ idx' \in [Node -> Nat]
      /\ at' \in [Thread -> Word] /\ victim' \in [Thread -> Content]
  BY <1>1, <1>7, LenMem DEF SetStart, Typed, pointers, nodes
<1>10. /\ at'[t].block \in Blocks'
       /\ \A u \in Thread \ {t} : made'[u] = made[u] /\ at'[u] = at[u] /\ victim'[u] = victim[u]
       /\ l \in Creating => made'[t] \in 1 .. MaxCreates
       /\ l \in Clearing => victim'[t] \in Node /\ victim'[t][1] = t
  BY NewIs, <1>1 DEF SetStart, Typed, Blocks, Creating, Clearing, Pushing, Growing, pointers, nodes
<1> HIDE DEF l
<1> QED
  BY <1>8, <1>9, <1>10, TypedFrame

LEMMA SetFinishTyped == ASSUME Typed, NEW t \in Thread, SetFinish(t) PROVE Typed'
<1> DEFINE l == "end"
<1>1. finish' \in Word /\ finish'.block \in Blocks
  BY BehindIs DEF SetFinish, Typed
<1>7. mem' = mem /\ Blocks' = Blocks
  BY DEF SetFinish, Blocks, pointers, nodes
<1>8. l \in Label /\ pc' = [pc EXCEPT ![t] = l]
  BY DEF SetFinish, Goto, Label, Creating, Clearing, Pushing, Growing
<1>9. /\ start' \in Word /\ finish' \in Word /\ end' \in Word /\ start'.off = 0
      /\ start'.block \in Blocks' /\ finish'.block \in Blocks' /\ end'.block \in Blocks'
      /\ mem' \in Seq(Seq(Content)) /\ Len(mem) <= Len(mem')
      /\ freed' \subseteq Blocks' /\ living' \subseteq Node
      /\ made' \in [Thread -> 0 .. MaxCreates] /\ idx' \in [Node -> Nat]
      /\ at' \in [Thread -> Word] /\ victim' \in [Thread -> Content]
  BY <1>1, <1>7, LenMem DEF SetFinish, Typed, pointers, nodes
<1>10. /\ at'[t].block \in Blocks'
       /\ \A u \in Thread \ {t} : made'[u] = made[u] /\ at'[u] = at[u] /\ victim'[u] = victim[u]
       /\ l \in Creating => made'[t] \in 1 .. MaxCreates
       /\ l \in Clearing => victim'[t] \in Node /\ victim'[t][1] = t
  BY NewIs, <1>1 DEF SetFinish, Typed, Blocks, Creating, Clearing, Pushing, Growing, pointers, nodes
<1> HIDE DEF l
<1> QED
  BY <1>8, <1>9, <1>10, TypedFrame

LEMMA SetEndTyped == ASSUME Typed, NEW t \in Thread, SetEnd(t) PROVE Typed'
<1> DEFINE l == "idle"
<1>1. end' \in Word /\ end'.block \in Blocks
  <2>1. mem[at[t].block] \in Seq(Content)
    BY ElementOfSeq DEF Typed, Blocks
  <2>2. Len(mem[at[t].block]) \in Nat /\ at[t].block \in Nat
    BY <2>1, LenProperties, WordIs DEF Typed
  <2> QED
    BY <2>2, PointerIs DEF SetEnd, Typed
<1>2. New(t) \in Node
  BY DEF SetEnd, Typed, Creating, Pushing, Growing
<1>7. mem' = mem /\ Blocks' = Blocks
  BY DEF SetEnd, Blocks, pointers, nodes
<1>8. l \in Label /\ pc' = [pc EXCEPT ![t] = l]
  BY DEF SetEnd, Goto, Label, Creating, Clearing, Pushing, Growing
<1>9. /\ start' \in Word /\ finish' \in Word /\ end' \in Word /\ start'.off = 0
      /\ start'.block \in Blocks' /\ finish'.block \in Blocks' /\ end'.block \in Blocks'
      /\ mem' \in Seq(Seq(Content)) /\ Len(mem) <= Len(mem')
      /\ freed' \subseteq Blocks' /\ living' \subseteq Node
      /\ made' \in [Thread -> 0 .. MaxCreates] /\ idx' \in [Node -> Nat]
      /\ at' \in [Thread -> Word] /\ victim' \in [Thread -> Content]
  BY <1>1, <1>2, <1>7, LenMem DEF SetEnd, Typed, pointers, nodes
<1>10. /\ at'[t].block \in Blocks'
       /\ \A u \in Thread \ {t} : made'[u] = made[u] /\ at'[u] = at[u] /\ victim'[u] = victim[u]
       /\ l \in Creating => made'[t] \in 1 .. MaxCreates
       /\ l \in Clearing => victim'[t] \in Node /\ victim'[t][1] = t
  BY NewIs, <1>1 DEF SetEnd, Typed, Blocks, Creating, Clearing, Pushing, Growing, pointers, nodes
<1> HIDE DEF l
<1> QED
  BY <1>8, <1>9, <1>10, TypedFrame

LEMMA DestroyTyped == ASSUME Typed, NEW t \in Thread, Destroy(t) PROVE Typed'
<1> DEFINE l == "compare"
<1>1. PICK n \in living : n[1] = t /\ victim' = [victim EXCEPT ![t] = n]
                           /\ at' = [at EXCEPT ![t] = Pointer(start.block, idx[n])]
                           /\ living' = living \ {n}
  BY DEF Destroy
<1>2. Pointer(start.block, idx[n]) \in Word /\ Pointer(start.block, idx[n]).block = start.block
  BY PointerIs, WordIs DEF Typed
<1>3. n \in Content
  BY DEF Typed, Content
<1>7. mem' = mem /\ Blocks' = Blocks
  BY DEF Destroy, Blocks, pointers, nodes
<1>8. l \in Label /\ pc' = [pc EXCEPT ![t] = l]
  BY DEF Destroy, Goto, Label, Creating, Clearing, Pushing, Growing
<1>9. /\ start' \in Word /\ finish' \in Word /\ end' \in Word /\ start'.off = 0
      /\ start'.block \in Blocks' /\ finish'.block \in Blocks' /\ end'.block \in Blocks'
      /\ mem' \in Seq(Seq(Content)) /\ Len(mem) <= Len(mem')
      /\ freed' \subseteq Blocks' /\ living' \subseteq Node
      /\ made' \in [Thread -> 0 .. MaxCreates] /\ idx' \in [Node -> Nat]
      /\ at' \in [Thread -> Word] /\ victim' \in [Thread -> Content]
  BY <1>1, <1>2, <1>3, <1>7, LenMem DEF Destroy, Typed, pointers, nodes
<1>10. /\ at'[t].block \in Blocks'
       /\ \A u \in Thread \ {t} : made'[u] = made[u] /\ at'[u] = at[u] /\ victim'[u] = victim[u]
       /\ l \in Creating => made'[t] \in 1 .. MaxCreates
       /\ l \in Clearing => victim'[t] \in Node /\ victim'[t][1] = t
  BY NewIs, <1>1, <1>2, <1>3 DEF Destroy, Typed, Blocks, Creating, Clearing, Pushing, Growing,
     pointers, nodes
<1> HIDE DEF l
<1> QED
  BY <1>8, <1>9, <1>10, TypedFrame

LEMMA CompareTyped == ASSUME Typed, NEW t \in Thread, Compare(t) PROVE Typed'
<1> DEFINE l == IF Valid(at[t]) /\ OwnSlot(t) THEN "clear" ELSE "idle"
<1>7. mem' = mem /\ Blocks' = Blocks
  BY DEF Compare, Blocks, pointers, nodes
<1>8. l \in Label /\ pc' = [pc EXCEPT ![t] = l]
  BY DEF Compare, Goto, Label, Creating, Clearing, Pushing, Growing
<1>9. /\ start' \in Word /\ finish' \in Word /\ end' \in Word /\ start'.off = 0
      /\ start'.block \in Blocks' /\ finish'.block \in Blocks' /\ end'.block \in Blocks'
      /\ mem' \in Seq(Seq(Content)) /\ Len(mem) <= Len(mem')
      /\ freed' \subseteq Blocks' /\ living' \subseteq Node
      /\ made' \in [Thread -> 0 .. MaxCreates] /\ idx' \in [Node -> Nat]
      /\ at' \in [Thread -> Word] /\ victim' \in [Thread -> Content]
  BY <1>7, LenMem DEF Compare, Typed, pointers, nodes
<1>10. /\ at'[t].block \in Blocks'
       /\ \A u \in Thread \ {t} : made'[u] = made[u] /\ at'[u] = at[u] /\ victim'[u] = victim[u]
       /\ l \in Creating => made'[t] \in 1 .. MaxCreates
       /\ l \in Clearing => victim'[t] \in Node /\ victim'[t][1] = t
  BY NewIs DEF Compare, Typed, Blocks, Creating, Clearing, Pushing, Growing, pointers, nodes
<1> HIDE DEF l
<1> QED
  BY <1>8, <1>9, <1>10, TypedFrame

LEMMA ClearTyped == ASSUME Typed, NEW t \in Thread, Clear(t) PROVE Typed'
<1> DEFINE l == "idle"
<1>1. /\ Len(mem') = Len(mem) /\ mem' \in Seq(Seq(Content)) /\ Len(mem) \in Nat
  BY StoredIs, LenProperties DEF Clear, Typed, Valid, Content
<1>7. Len(mem) <= Len(mem') /\ Blocks \subseteq Blocks' /\ Blocks \subseteq Nat
  BY <1>1 DEF Blocks
<1>8. l \in Label /\ pc' = [pc EXCEPT ![t] = l]
  BY DEF Clear, Goto, Label, Creating, Clearing, Pushing, Growing
<1>9. /\ start' \in Word /\ finish' \in Word /\ end' \in Word /\ start'.off = 0
      /\ start'.block \in Blocks' /\ finish'.block \in Blocks' /\ end'.block \in Blocks'
      /\ mem' \in Seq(Seq(Content)) /\ Len(mem) <= Len(mem')
      /\ freed' \subseteq Blocks' /\ living' \subseteq Node
      /\ made' \in [Thread -> 0 .. MaxCreates] /\ idx' \in [Node -> Nat]
      /\ at' \in [Thread -> Word] /\ victim' \in [Thread -> Content]
  BY <1>1, <1>7 DEF Clear, Typed, pointers, nodes
<1>10. /\ at'[t].block \in Blocks'
       /\ \A u \in Thread \ {t} : made'[u] = made[u] /\ at'[u] = at[u] /\ victim'[u] = victim[u]
       /\ l \in Creating => made'[t] \in 1 .. MaxCreates
       /\ l \in Clearing => victim'[t] \in Node /\ victim'[t][1] = t
  BY NewIs, <1>1 DEF Clear, Typed, Blocks, Creating, Clearing, Pushing, Growing, pointers, nodes
<1> HIDE DEF l
<1> QED
  BY <1>8, <1>9, <1>10, TypedFrame

-----------------------------------------------------------------------------
(* What holds up to a race.                                                *)

\* The steps of a growth that have its new block
Moving == Growing \ {"grow"}

\* No living node is missing from the first k slots of block b.
Keeps(b, k) == \A n \in living : \E i \in 1 .. k : mem[b][i] = n

\* What a race would break: push_backs do not overlap, and a growth no destructor.
Apart ==
    \A t, u \in Thread : t # u =>
      /\ ~ (pc[t] \in Pushing /\ pc[u] \in Pushing)
      /\ ~ (pc[t] \in Growing /\ pc[u] \in Clearing)

\* Outside a growth the three pointers are those of one block in use.
Intact ==
    /\ finish.block = start.block /\ end.block = start.block
    /\ start.block \notin freed
    /\ end.off = Len(mem[start.block]) /\ finish.off <= end.off
    /\ Keeps(start.block, finish.off)

Whole == (\A t \in Thread : pc[t] \notin Moving) => Intact

\* Indices are of slots in use, or of the next.
Indexed ==
    /\ \A n \in living : n[2] <= made[n[1]] /\ idx[n] < finish.off
    /\ \A t \in Thread : pc[t] \in Creating => idx[New(t)] <= finish.off /\ New(t) \notin living

\* A push_back that needs no growth
Placing(t) ==
    /\ pc[t] \in {"store", "bump"} => at[t] = finish /\ finish.off < end.off
    /\ pc[t] = "bump" => mem[finish.block][finish.off + 1] = New(t)

\* A growth between two of its steps
Moved(t) ==
    /\ pc[t] \in Moving =>
         /\ at[t].block \notin freed
         /\ at[t].off < Len(mem[at[t].block])
         /\ mem[at[t].block][at[t].off + 1] = New(t)
         /\ Keeps(at[t].block, at[t].off)
         /\ idx[New(t)] <= at[t].off
    /\ pc[t] = "free" => start.block \notin freed /\ at[t].block # start.block
    /\ pc[t] \in {"free", "start", "finish"} => finish.off = at[t].off
    /\ pc[t] \in {"finish", "end"} => start.block = at[t].block
    /\ pc[t] = "end" => finish = Behind(at[t])

\* A destructor between two of its accesses
Comparing(t) ==
    /\ pc[t] \in Clearing =>
         /\ at[t].block = start.block /\ at[t].off < finish.off
         /\ victim[t] \notin living
    /\ pc[t] = "clear" => mem[at[t].block][at[t].off + 1] = victim[t]

Calm ==
    /\ ~fault
    /\ Apart /\ Whole /\ Indexed
    /\ \A t \in Thread : Placing(t) /\ Moved(t) /\ Comparing(t)

LEMMA WordEq ==
    ASSUME NEW p \in Word, NEW q \in Word, p.block = q.block, p.off = q.off PROVE p = q
  BY DEF Word

\* A step that is no race is taken while no other thread grows the vector, and
\* leaves the threads apart.
LEMMA Alone ==
    ASSUME Typed, NEW t \in Thread, NEW l \in Label, l # pc[t], pc' = [pc EXCEPT ![t] = l],
           Observe, ~raced'
    PROVE  /\ ~raced /\ Apart'
           /\ \A u \in Thread \ {t} : pc[u] \notin Growing
           /\ \A u \in Thread : pc'[u] = IF u = t THEN l ELSE pc[u]
<1>1. \A u \in Thread : pc'[u] = IF u = t THEN l ELSE pc[u]
  BY DEF Typed
<1>2. /\ ~raced
      /\ \A u, v \in Thread : u # v =>
           /\ ~ (pc'[u] \in Pushing /\ pc'[v] \in Pushing)
           /\ ~ (pc'[u] \in Growing /\ (pc'[v] \in Clearing \/ pc'[v] # pc[v]))
  <2> DEFINE race == \E u, v \in Thread :
               /\ u # v
               /\ \/ {pc'[u], pc'[v]} \subseteq Pushing
                  \/ /\ pc'[u] \in Growing
                     /\ pc'[v] \in {"compare", "clear"} \/ pc'[v] # pc[v]
  <2>1. raced' = (raced \/ race)
    BY DEF Observe
  <2> HIDE DEF race
  <2>2. ~raced /\ ~race
    BY <2>1, Zenon
  <2> QED
    BY <2>2 DEF race, Clearing
<1>3. \A u \in Thread \ {t} : pc[u] \notin Growing
  BY <1>1, <1>2
<1>4. Apart'
  BY <1>2 DEF Apart, Clearing, Pushing, Growing
<1> QED
  BY <1>1, <1>2, <1>3, <1>4

LEMMA Still ==
    ASSUME Calm, NEW t \in Thread, pc[t] \notin Moving,
           \A u \in Thread \ {t} : pc[u] \notin Growing
    PROVE  Intact
  BY DEF Calm, Whole, Moving

\* A store into the block in use changes one slot of it.
LEMMA StoredIn ==
    ASSUME Typed, NEW p \in Word, NEW n \in Content, p.block = start.block,
           p.off < Len(mem[start.block]), mem' = Stored(p, n)
    PROVE  /\ Len(mem'[start.block]) = Len(mem[start.block])
           /\ \A i \in 1 .. Len(mem[start.block]) :
                mem'[start.block][i] = IF i = p.off + 1 THEN n ELSE mem[start.block][i]
<1>1. mem \in Seq(Seq(Content)) /\ p.block \in Blocks /\ p.off < Len(mem[p.block]) /\ start.block \in Blocks
  BY DEF Typed
<1>2. /\ \A b \in Blocks : Len(Stored(p, n)[b]) = Len(mem[b])
      /\ \A b \in Blocks : \A i \in 1 .. Len(mem[b]) :
           Stored(p, n)[b][i] = IF b = p.block /\ i = p.off + 1 THEN n ELSE mem[b][i]
  BY <1>1, StoredIs
<1> QED
  BY <1>1, <1>2

LEMMA ReadSizeCalm ==
    ASSUME Typed, Typed', Calm, NEW t \in Thread, ReadSize(t), Apart',
           \A u \in Thread \ {t} : pc[u] \notin Growing
    PROVE  Calm'
<1>0. Intact
  BY Still DEF ReadSize, Moving, Growing
<1>1. /\ pc[t] = "idle"
      /\ made' = [made EXCEPT ![t] = @ + 1] /\ made[t] < MaxCreates
      /\ idx' = [idx EXCEPT ![<<t, made[t] + 1>>] = finish.off]
      /\ UNCHANGED <<start, finish, end, mem, freed, living, at, victim, fault>>
  BY <1>0 DEF ReadSize, pointers, nodes, Typed, Intact, Calm, Size
<1>2. \A u \in Thread : pc'[u] = IF u = t THEN "push" ELSE pc[u]
  BY DEF ReadSize, Goto, Typed
<1>3. /\ made[t] \in Nat /\ New(t)' = <<t, made[t] + 1>> /\ New(t)' \in Node /\ New(t)' \notin living
      /\ idx'[New(t)'] = finish.off /\ \A n \in Node : n # New(t)' => idx'[n] = idx[n]
  BY <1>1, MaxCreatesAssumption DEF Typed, New, Node, Calm, Indexed
<1>4. \A u \in Thread : u # t => New(u)' = New(u) /\ New(u) # New(t)'
  BY <1>1 DEF New, Typed
<1>11. ~fault'
  BY <1>1 DEF Calm
<1>12. Whole'
  BY <1>0, <1>1 DEF Whole, Intact, Keeps
<1>13. Indexed'
  <2>1. \A n \in living' : n[2] <= made'[n[1]] /\ idx'[n] < finish'.off
    <3> SUFFICES ASSUME NEW n \in living PROVE n[2] <= made'[n[1]] /\ idx'[n] < finish.off
      BY <1>1
    <3>1. n[2] <= made[n[1]] /\ idx[n] < finish.off
      BY DEF Calm, Indexed
    <3>2. n \in Node /\ n[1] \in Thread /\ n[2] \in Nat
      BY DEF Typed, Node
    <3>3. made[n[1]] <= made'[n[1]]
      BY <1>1, <3>2, MaxCreatesAssumption DEF Typed
    <3>4. made[n[1]] \in Nat /\ made'[n[1]] \in Nat
      BY <3>2, MaxCreatesAssumption DEF Typed
    <3> QED
      BY <1>3, <3>1, <3>2, <3>3, <3>4
  <2>2. \A u \in Thread : pc'[u] \in Creating => idx'[New(u)'] <= finish'.off /\ New(u)' \notin living'
    <3>1. finish.off \in Nat
      BY WordIs DEF Typed
    <3>2. idx'[New(t)'] <= finish'.off /\ New(t)' \notin living'
      BY <1>1, <1>3, <3>1
    <3>3. ASSUME NEW u \in Thread, u # t, pc'[u] \in Creating
          PROVE  idx'[New(u)'] <= finish'.off /\ New(u)' \notin living'
      <4>1. New(u) \in Node /\ idx[New(u)] <= finish.off /\ New(u) \notin living
        BY <1>2, <3>3 DEF Typed, Calm, Indexed
      <4> QED
        BY <1>1, <1>3, <1>4, <3>3, <4>1
    <3> QED
      BY <3>2, <3>3
  <2> QED
    BY <2>1, <2>2 DEF Indexed
<1>14. \A u \in Thread : Placing(u)'
  BY <1>1, <1>2, <1>4 DEF Calm, Placing
<1>15. \A u \in Thread : Moved(u)'
  BY <1>1, <1>2 DEF Calm, Moved, Creating, Clearing, Pushing, Growing, Moving
<1>16. \A u \in Thread : Comparing(u)'
  BY <1>1, <1>2 DEF Calm, Comparing, Creating, Clearing, Pushing, Growing, Moving
<1> QED
  BY <1>11, <1>12, <1>13, <1>14, <1>15, <1>16 DEF Calm

LEMMA PushBackCalm ==
    ASSUME Typed, Typed', Calm, NEW t \in Thread, PushBack(t), Apart',
           \A u \in Thread \ {t} : pc[u] \notin Growing
    PROVE  Calm'
<1>0. Intact
  BY Still DEF PushBack, Moving, Growing
<1>1. /\ pc[t] = "push"
      /\ at' = [at EXCEPT ![t] = finish]
      /\ UNCHANGED <<start, finish, end, mem, freed, made, living, idx, victim, fault>>
  BY DEF PushBack, pointers, nodes
<1>2. \A u \in Thread : pc'[u] = IF u = t THEN (IF Full THEN "grow" ELSE "store") ELSE pc[u]
  BY DEF PushBack, Goto, Typed
<1>3. ~Full => finish.off < end.off
  BY <1>0, WordEq, WordIs DEF Full, Typed, Intact
<1>4. \A u \in Thread : New(u)' = New(u) /\ at'[u] = IF u = t THEN finish ELSE at[u]
  BY <1>1 DEF New, Typed
<1>11. ~fault'
  BY <1>1 DEF Calm
<1>12. Whole'
  BY <1>0, <1>1 DEF Whole, Intact, Keeps
<1>13. Indexed'
  BY <1>1, <1>2, <1>4 DEF Calm, Indexed, Creating, Clearing, Pushing, Growing, Moving
<1>14. \A u \in Thread : Placing(u)'
  BY <1>1, <1>2, <1>3, <1>4 DEF Calm, Placing
<1>15. \A u \in Thread : Moved(u)'
  BY <1>1, <1>2, <1>4 DEF Calm, Moved, Creating, Clearing, Pushing, Growing, Moving
<1>16. \A u \in Thread : Comparing(u)'
  BY <1>1, <1>2, <1>4 DEF Calm, Comparing, Creating, Clearing, Pushing, Growing, Moving
<1> QED
  BY <1>11, <1>12, <1>13, <1>14, <1>15, <1>16 DEF Calm

LEMMA CompareCalm ==
    ASSUME Typed, Typed', Calm, NEW t \in Thread, Compare(t), Apart',
           \A u \in Thread \ {t} : pc[u] \notin Growing
    PROVE  Calm'
<1>0. Intact
  BY Still DEF Compare, Moving, Growing
<1>1. /\ pc[t] = "compare"
      /\ UNCHANGED <<start, finish, end, mem, freed, made, living, idx, at, victim>>
  BY DEF Compare, pointers, nodes
<1>3. Valid(at[t])
  <2>1. finish.off \in Nat /\ end.off \in Nat /\ at[t].off \in Nat
    BY WordIs DEF Typed
  <2>2. at[t].block = start.block /\ at[t].off < finish.off
    BY <1>1 DEF Calm, Comparing, Clearing
  <2> QED
    BY <1>0, <2>1, <2>2 DEF Valid, Intact
<1>2. \A u \in Thread : pc'[u] = IF u = t THEN (IF OwnSlot(t) THEN "clear" ELSE "idle") ELSE pc[u]
  BY <1>3 DEF Compare, Goto, Typed
<1>4. /\ \A u \in Thread : New(u)' = New(u)
      /\ OwnSlot(t) => mem[at[t].block][at[t].off + 1] = victim[t]
  BY <1>1 DEF New, OwnSlot, Slot
<1>11. ~fault'
  BY <1>3 DEF Compare, Calm
<1>12. Whole'
  BY <1>0, <1>1 DEF Whole, Intact, Keeps
<1>13. Indexed'
  BY <1>1, <1>2, <1>4 DEF Calm, Indexed, Creating, Clearing, Pushing, Growing, Moving
<1>14. \A u \in Thread : Placing(u)'
  BY <1>1, <1>2, <1>4 DEF Calm, Placing
<1>15. \A u \in Thread : Moved(u)'
  BY <1>1, <1>2, <1>4 DEF Calm, Moved, Creating, Clearing, Pushing, Growing, Moving
<1>16. \A u \in Thread : Comparing(u)'
  BY <1>1, <1>2, <1>4 DEF Calm, Comparing, Creating, Clearing, Pushing, Growing, Moving
<1> QED
  BY <1>11, <1>12, <1>13, <1>14, <1>15, <1>16 DEF Calm

LEMMA StoreCalm ==
    ASSUME Typed, Typed', Calm, NEW t \in Thread, Store(t), Apart',
           \A u \in Thread \ {t} : pc[u] \notin Growing
    PROVE  Calm'
<1>0. Intact
  BY Still DEF Store, Moving, Growing
<1>1. /\ pc[t] = "store"
      /\ at[t] = finish /\ finish.off < end.off
      /\ UNCHANGED <<start, finish, end, freed, made, living, idx, at, victim>>
  BY DEF Store, pointers, nodes, Calm, Placing
<1>2. \A u \in Thread : pc'[u] = IF u = t THEN "bump" ELSE pc[u]
  BY DEF Store, Goto, Typed
<1>3. Valid(at[t]) /\ mem' = Stored(finish, New(t)) /\ fault' = fault
  BY <1>0, <1>1 DEF Store, Valid, Intact
<1>4. /\ Len(mem'[start.block]) = Len(mem[start.block])
      /\ \A i \in 1 .. Len(mem[start.block]) :
           mem'[start.block][i] = IF i = finish.off + 1 THEN New(t) ELSE mem[start.block][i]
  <2>1. New(t) \in Content /\ finish \in Word
    BY <1>1 DEF Typed, Content, Creating, Pushing
  <2> QED
    BY <1>0, <1>1, <1>3, <2>1, StoredIn DEF Intact
<1>5. \A u \in Thread : New(u)' = New(u)
  BY <1>1 DEF New
<1>6. finish.off \in Nat /\ end.off \in Nat /\ \A u \in Thread : at[u].off \in Nat
  BY WordIs DEF Typed
<1>7. \A i \in 1 .. finish.off : mem'[start.block][i] = mem[start.block][i]
  BY <1>0, <1>1, <1>4, <1>6 DEF Intact
<1>11. ~fault'
  BY <1>3 DEF Calm
<1>12. Whole'
  <2>1. Keeps(start.block, finish.off)'
    BY <1>0, <1>1, <1>7 DEF Intact, Keeps
  <2> QED
    BY <1>0, <1>1, <1>4, <2>1 DEF Whole, Intact
<1>13. Indexed'
  BY <1>1, <1>2, <1>5 DEF Calm, Indexed, Creating, Clearing, Pushing, Growing, Moving
<1>14. \A u \in Thread : Placing(u)'
  <2>1. \A u \in Thread \ {t} : pc'[u] \notin Pushing
    BY <1>2 DEF Apart, Pushing
  <2>2. mem'[finish.block][finish.off + 1] = New(t)
    <3>1. finish.off + 1 \in 1 .. Len(mem[start.block]) /\ finish.block = start.block
      BY <1>0, <1>1, <1>6 DEF Intact
    <3> QED
      BY <1>4, <3>1
  <2> QED
    BY <1>1, <1>2, <1>5, <2>1, <2>2 DEF Placing, Pushing
<1>15. \A u \in Thread : Moved(u)'
  BY <1>1, <1>2 DEF Moved, Creating, Clearing, Pushing, Growing, Moving
<1>16. \A u \in Thread : Comparing(u)'
  <2> SUFFICES ASSUME NEW u \in Thread PROVE Comparing(u)'
    OBVIOUS
  <2>1. Comparing(u) /\ (pc'[u] \in Clearing => pc'[u] = pc[u])
    BY <1>2 DEF Calm, Clearing
  <2>2. pc[u] = "clear" => at[u].off + 1 \in 1 .. finish.off
    BY <1>6, <2>1 DEF Comparing, Clearing
  <2> QED
    BY <1>1, <1>7, <2>1, <2>2 DEF Comparing, Clearing
<1> QED
  BY <1>11, <1>12, <1>13, <1>14, <1>15, <1>16 DEF Calm

LEMMA BumpCalm ==
    ASSUME Typed, Typed', Calm, NEW t \in Thread, Bump(t), Apart',
           \A u \in Thread \ {t} : pc[u] \notin Growing
    PROVE  Calm'
<1>0. Intact
  BY Still DEF Bump, Moving, Growing
<1>1. /\ pc[t] = "bump"
      /\ at[t] = finish /\ finish.off < end.off /\ mem[finish.block][finish.off + 1] = New(t)
      /\ finish' = Behind(finish) /\ living' = living \cup {New(t)}
      /\ UNCHANGED <<start, end, mem, freed, made, idx, at, victim, fault>>
  BY DEF Bump, pointers, nodes, Calm, Placing
<1>2. \A u \in Thread : pc'[u] = IF u = t THEN "idle" ELSE pc[u]
  BY DEF Bump, Goto, Typed
<1>3. /\ finish'.block = finish.block /\ finish'.off = finish.off + 1
      /\ finish.off \in Nat /\ end.off \in Nat /\ \A u \in Thread : at[u].off \in Nat
  BY <1>1, BehindIs, WordIs DEF Typed
<1>4. \A u \in Thread : New(u)' = New(u)
  BY <1>1 DEF New
<1>5. /\ New(t) \in Node /\ New(t)[2] = made[New(t)[1]] /\ New(t)[1] = t /\ made[t] \in Nat
      /\ \A u \in Thread : New(u) = New(t) => u = t
  BY <1>1, MaxCreatesAssumption DEF New, Typed, Creating, Clearing, Pushing, Growing, Moving
<1>6. idx[New(t)] < finish'.off /\ \A n \in Node : idx[n] \in Nat
  <2>1. \A n \in Node : idx[n] \in Nat
    BY DEF Typed
  <2>2. idx[New(t)] <= finish.off
    BY <1>1 DEF Calm, Indexed, Creating, Pushing
  <2> QED
    BY <1>3, <1>5, <2>1, <2>2
<1>11. ~fault'
  BY <1>1 DEF Calm
<1>12. Whole'
  <2>1. \A n \in living : \E i \in 1 .. finish'.off : mem[start.block][i] = n
    BY <1>0, <1>3 DEF Intact, Keeps
  <2>2. finish'.off \in 1 .. finish'.off /\ mem[start.block][finish'.off] = New(t)
    BY <1>0, <1>1, <1>3 DEF Intact
  <2>3. Keeps(start.block, finish.off)'
    BY <1>1, <2>1, <2>2 DEF Keeps
  <2> QED
    BY <1>0, <1>1, <1>3, <2>3 DEF Whole, Intact
<1>13. Indexed'
  <2>1. \A n \in living' : n[2] <= made'[n[1]] /\ idx'[n] < finish'.off
    <3> SUFFICES ASSUME NEW n \in living' PROVE n[2] <= made[n[1]] /\ idx[n] < finish'.off
      BY <1>1
    <3>1. CASE n = New(t)
      BY <1>5, <1>6, <3>1
    <3>2. CASE n \in living
      BY <1>3, <1>6, <3>2 DEF Calm, Indexed, Typed
    <3> QED
      BY <1>1, <3>1, <3>2
  <2>2. \A u \in Thread : pc'[u] \in Creating => idx'[New(u)'] <= finish'.off /\ New(u)' \notin living'
    <3> SUFFICES ASSUME NEW u \in Thread, pc'[u] \in Creating
                 PROVE  idx[New(u)] <= finish'.off /\ New(u) \notin living'
      BY <1>1, <1>4
    <3>1. u # t /\ pc[u] \in Creating
      BY <1>2 DEF Creating, Clearing, Pushing, Growing, Moving
    <3>2. idx[New(u)] <= finish.off /\ New(u) \notin living /\ New(u) \in Node
      BY <3>1 DEF Calm, Indexed, Typed
    <3> QED
      BY <1>1, <1>3, <1>5, <1>6, <3>1, <3>2
  <2> QED
    BY <2>1, <2>2 DEF Indexed
<1>14. \A u \in Thread : Placing(u)'
  <2>1. \A u \in Thread : pc'[u] \notin Pushing
    BY <1>1, <1>2 DEF Calm, Apart, Pushing, Growing
  <2> QED
    BY <2>1 DEF Placing, Pushing
<1>15. \A u \in Thread : Moved(u)'
  BY <1>1, <1>2 DEF Moved, Creating, Clearing, Pushing, Growing, Moving
<1>16. \A u \in Thread : Comparing(u)'
  <2> SUFFICES ASSUME NEW u \in Thread PROVE Comparing(u)'
    OBVIOUS
  <2>1. Comparing(u) /\ (pc'[u] \in Clearing => pc'[u] = pc[u] /\ u # t)
    BY <1>2 DEF Calm, Clearing
  <2>2. pc[u] \in Clearing /\ u # t => victim[u] # New(t)
    BY DEF Typed, New
  <2> QED
    BY <1>1, <1>3, <2>1, <2>2 DEF Comparing, Clearing
<1> QED
  BY <1>11, <1>12, <1>13, <1>14, <1>15, <1>16 DEF Calm

LEMMA DestroyCalm ==
    ASSUME Typed, Typed', Calm, NEW t \in Thread, Destroy(t), Apart',
           \A u \in Thread \ {t} : pc[u] \notin Growing
    PROVE  Calm'
<1>0. Intact
  BY Still DEF Destroy, Moving, Growing
<1>1. /\ pc[t] = "idle"
      /\ \E n \in living :
           /\ n[1] = t /\ victim' = [victim EXCEPT ![t] = n]
           /\ at' = [at EXCEPT ![t] = Pointer(start.block, idx[n])] /\ living' = living \ {n}
      /\ UNCHANGED <<start, finish, end, mem, freed, made, idx, fault>>
  BY DEF Destroy, pointers, nodes
<1>2. \A u \in Thread : pc'[u] = IF u = t THEN "compare" ELSE pc[u]
  BY DEF Destroy, Goto, Typed
<1>3. PICK n \in living :
        /\ victim' = [victim EXCEPT ![t] = n] /\ living' = living \ {n}
        /\ at' = [at EXCEPT ![t] = Pointer(start.block, idx[n])]
  BY <1>1
<1>4. /\ at'[t].block = start.block /\ at'[t].off = idx[n] /\ idx[n] < finish.off
      /\ victim'[t] = n /\ n \notin living'
      /\ \A u \in Thread : New(u)' = New(u) /\ (u # t => at'[u] = at[u] /\ victim'[u] = victim[u])
  BY <1>1, <1>3, PointerIs, WordIs DEF New, Typed, Calm, Indexed
<1>11. ~fault'
  BY <1>1 DEF Calm
<1>12. Whole'
  BY <1>0, <1>1, <1>3 DEF Whole, Intact, Keeps
<1>13. Indexed'
  BY <1>1, <1>2, <1>3, <1>4 DEF Calm, Indexed, Creating, Clearing, Pushing, Growing, Moving
<1>14. \A u \in Thread : Placing(u)'
  BY <1>1, <1>2, <1>4 DEF Calm, Placing
<1>15. \A u \in Thread : Moved(u)'
  BY <1>1, <1>2 DEF Moved, Creating, Clearing, Pushing, Growing, Moving
<1>16. \A u \in Thread : Comparing(u)'
  BY <1>1, <1>2, <1>3, <1>4 DEF Calm, Comparing, Creating, Clearing, Pushing, Growing, Moving
<1> QED
  BY <1>11, <1>12, <1>13, <1>14, <1>15, <1>16 DEF Calm

LEMMA ClearCalm ==
    ASSUME Typed, Typed', Calm, NEW t \in Thread, Clear(t), Apart',
           \A u \in Thread \ {t} : pc[u] \notin Growing
    PROVE  Calm'
<1>0. Intact
  BY Still DEF Clear, Moving, Growing
<1>1. /\ pc[t] = "clear"
      /\ at[t].block = start.block /\ at[t].off < finish.off /\ victim[t] \notin living
      /\ mem[at[t].block][at[t].off + 1] = victim[t]
      /\ UNCHANGED <<start, finish, end, freed, made, living, idx, at, victim>>
  BY DEF Clear, pointers, nodes, Calm, Comparing, Clearing
<1>2. \A u \in Thread : pc'[u] = IF u = t THEN "idle" ELSE pc[u]
  BY DEF Clear, Goto, Typed
<1>6. finish.off \in Nat /\ end.off \in Nat /\ \A u \in Thread : at[u].off \in Nat
  BY WordIs DEF Typed
<1>3. mem' = Stored(at[t], Null) /\ fault' = fault
  BY <1>0, <1>1, <1>6 DEF Clear, Valid, Intact
<1>4. /\ Len(mem'[start.block]) = Len(mem[start.block])
      /\ \A i \in 1 .. Len(mem[start.block]) :
           mem'[start.block][i] = IF i = at[t].off + 1 THEN Null ELSE mem[start.block][i]
  <2>1. Null \in Content /\ at[t] \in Word
    BY DEF Typed, Content
  <2>2. at[t].off < Len(mem[start.block])
    BY <1>0, <1>1, <1>6 DEF Intact
  <2> QED
    BY <1>1, <1>3, <2>1, <2>2, StoredIn
<1>5. /\ \A u \in Thread : New(u)' = New(u) /\ (u # t => New(u) # victim[t])
      /\ \A u \in Thread : u # t /\ pc[u] \in Clearing => victim[u] # victim[t]
  BY <1>1 DEF New, Typed, Clearing
<1>11. ~fault'
  BY <1>3 DEF Calm
<1>12. Whole'
  <2>1. ASSUME NEW n \in living PROVE \E i \in 1 .. finish.off : mem'[start.block][i] = n
    <3>1. PICK i \in 1 .. finish.off : mem[start.block][i] = n
      BY <1>0 DEF Intact, Keeps
    <3>2. i \in 1 .. Len(mem[start.block]) /\ i # at[t].off + 1
      BY <1>0, <1>1, <1>6, <3>1 DEF Intact
    <3> QED
      BY <1>4, <3>1, <3>2
  <2>2. Keeps(start.block, finish.off)'
    BY <1>1, <2>1 DEF Keeps
  <2> QED
    BY <1>0, <1>1, <1>4, <2>2 DEF Whole, Intact
<1>13. Indexed'
  BY <1>1, <1>2, <1>5 DEF Calm, Indexed, Creating, Clearing, Pushing, Growing, Moving
<1>14. \A u \in Thread : Placing(u)'
  <2> SUFFICES ASSUME NEW u \in Thread PROVE Placing(u)'
    OBVIOUS
  <2>1. Placing(u) /\ (pc'[u] \in {"store", "bump"} => pc'[u] = pc[u] /\ u # t)
    BY <1>2 DEF Calm
  <2>2. pc[u] = "bump" /\ u # t =>
          /\ finish.off + 1 \in 1 .. Len(mem[start.block])
          /\ mem[start.block][finish.off + 1] # mem[start.block][at[t].off + 1]
    BY <1>0, <1>1, <1>5, <1>6, <2>1 DEF Placing, Intact
  <2>3. pc[u] = "bump" /\ u # t => mem'[finish.block][finish.off + 1] = mem[finish.block][finish.off + 1]
    BY <1>0, <1>4, <2>2 DEF Intact
  <2> QED
    BY <1>1, <1>5, <2>1, <2>3 DEF Placing
<1>15. \A u \in Thread : Moved(u)'
  BY <1>1, <1>2 DEF Moved, Creating, Clearing, Pushing, Growing, Moving
<1>16. \A u \in Thread : Comparing(u)'
  <2> SUFFICES ASSUME NEW u \in Thread PROVE Comparing(u)'
    OBVIOUS
  <2>1. Comparing(u) /\ (pc'[u] \in Clearing => pc'[u] = pc[u] /\ u # t)
    BY <1>2 DEF Calm, Clearing
  <2>2. pc[u] = "clear" /\ u # t =>
          /\ at[u].block = start.block /\ at[u].off + 1 \in 1 .. Len(mem[start.block])
          /\ mem[start.block][at[u].off + 1] # mem[start.block][at[t].off + 1]
    <3> SUFFICES ASSUME pc[u] = "clear", u # t
                 PROVE  /\ at[u].block = start.block /\ at[u].off + 1 \in 1 .. Len(mem[start.block])
                        /\ mem[start.block][at[u].off + 1] # mem[start.block][at[t].off + 1]
      OBVIOUS
    <3>1. at[u].block = start.block /\ at[u].off < finish.off /\ mem[at[u].block][at[u].off + 1] = victim[u]
      BY <2>1 DEF Comparing, Clearing
    <3>2. at[u].off + 1 \in 1 .. Len(mem[start.block])
      BY <1>0, <1>6, <3>1 DEF Intact
    <3> QED
      BY <1>1, <1>5, <3>1, <3>2 DEF Clearing
  <2>3. pc[u] = "clear" /\ u # t => mem'[at[u].block][at[u].off + 1] = mem[at[u].block][at[u].off + 1]
    BY <1>4, <2>2
  <2> QED
    BY <1>1, <2>1, <2>3 DEF Comparing, Clearing
<1> QED
  BY <1>11, <1>12, <1>13, <1>14, <1>15, <1>16 DEF Calm

LEMMA GrowCalm ==
    ASSUME Typed, Typed', Calm, NEW t \in Thread, Grow(t), Apart',
           \A u \in Thread \ {t} : pc[u] \notin Growing
    PROVE  Calm'
<1>0. Intact
  BY Still DEF Grow, Moving, Growing
<1>1. pc[t] = "grow" /\ \A u \in Thread : pc'[u] = IF u = t THEN "free" ELSE pc[u]
  BY DEF Grow, Goto, Typed
<1>2. \A u \in Thread \ {t} : pc[u] \notin Pushing \cup Clearing
  BY <1>1 DEF Calm, Apart, Pushing, Growing
<1>3. UNCHANGED <<start, finish, end, freed, made, living, idx, victim>>
  BY DEF Grow, pointers, nodes
<1>4. /\ finish.off \in Nat /\ finish.off <= Len(mem[start.block]) /\ New(t) \in Content
      /\ Len(mem) \in Nat /\ start.block \in 1 .. Len(mem) /\ freed \subseteq 1 .. Len(mem)
  BY <1>0, <1>1, WordIs, LenMem DEF Typed, Blocks, Intact, Content, Creating, Pushing, Growing
<1>5. /\ mem' = Append(mem, Copied(finish.off, New(t))) /\ fault' = fault
      /\ at' = [at EXCEPT ![t] = Pointer(Len(mem'), finish.off)]
  BY <1>0, <1>4 DEF Grow, Intact
<1>6. /\ Copied(finish.off, New(t)) \in Seq(Content)
      /\ Len(Copied(finish.off, New(t))) > finish.off
      /\ \A i \in 1 .. finish.off : Copied(finish.off, New(t))[i] = mem[start.block][i]
      /\ Copied(finish.off, New(t))[finish.off + 1] = New(t)
  <2>1. mem \in Seq(Seq(Content)) /\ start.block \in Blocks
    BY DEF Typed
  <2> QED
    BY <1>4, <2>1, CopiedIs
<1>7. Len(mem') = Len(mem) + 1 /\ mem'[Len(mem) + 1] = Copied(finish.off, New(t))
  BY <1>5, <1>6, AppendProperties DEF Typed
<1>8. at'[t].block = Len(mem) + 1 /\ at'[t].off = finish.off
  BY <1>4, <1>5, <1>7, PointerIs DEF Typed
<1>11. ~fault'
  BY <1>5 DEF Calm
<1>12. Whole'
  BY <1>1 DEF Whole, Moving, Growing
<1>13. Indexed'
  BY <1>1, <1>3 DEF Calm, Indexed, New, Creating, Pushing, Growing
<1>14. \A u \in Thread : Placing(u)'
  BY <1>1, <1>2 DEF Placing, Pushing
<1>15. \A u \in Thread : Moved(u)'
  <2>1. \A u \in Thread \ {t} : pc'[u] \notin Moving
    BY <1>1, <1>2 DEF Moving, Pushing
  <2>2. Moved(t)'
    <3>1. Keeps(at[t].block, at[t].off)'
      <4>1. \A n \in living : \E i \in 1 .. finish.off : Copied(finish.off, New(t))[i] = n
        BY <1>0, <1>6 DEF Intact, Keeps
      <4> QED
        BY <1>3, <1>7, <1>8, <4>1 DEF Keeps
    <3>2. at'[t].block \notin freed' /\ at'[t].block # start'.block /\ start'.block \notin freed'
      BY <1>0, <1>3, <1>4, <1>8 DEF Intact
    <3>3. idx'[New(t)'] <= at'[t].off
      BY <1>1, <1>3, <1>8 DEF Calm, Indexed, New, Creating, Pushing, Growing
    <3> QED
      BY <1>1, <1>3, <1>6, <1>7, <1>8, <3>1, <3>2, <3>3 DEF Moved, New
  <2> QED
    BY <2>1, <2>2 DEF Moved, Moving, Growing
<1>16. \A u \in Thread : Comparing(u)'
  BY <1>1, <1>2 DEF Comparing, Clearing
<1> QED
  BY <1>11, <1>12, <1>13, <1>14, <1>15, <1>16 DEF Calm

LEMMA FreeOldCalm ==
    ASSUME Typed, Typed', Calm, NEW t \in Thread, FreeOld(t), Apart',
           \A u \in Thread \ {t} : pc[u] \notin Growing
    PROVE  Calm'
<1>1. pc[t] = "free" /\ \A u \in Thread : pc'[u] = IF u = t THEN "start" ELSE pc[u]
  BY DEF FreeOld, Goto, Typed
<1>2. \A u \in Thread \ {t} : pc[u] \notin Pushing \cup Clearing
  BY <1>1 DEF Calm, Apart, Pushing, Growing
<1>3. /\ UNCHANGED <<start, finish, end, mem, made, living, idx, victim, at>>
      /\ freed' = freed \cup {start.block} /\ fault' = (start.block \in freed \ {NoBlock})
  BY DEF FreeOld, pointers, nodes
<1>4. /\ at[t].block \notin freed /\ at[t].off < Len(mem[at[t].block])
      /\ mem[at[t].block][at[t].off + 1] = New(t)
      /\ Keeps(at[t].block, at[t].off) /\ idx[New(t)] <= at[t].off
  BY <1>1 DEF Calm, Moved, Moving, Growing
<1>5. start.block \notin freed /\ at[t].block # start.block /\ finish.off = at[t].off
  BY <1>1 DEF Calm, Moved
<1>11. ~fault'
  BY <1>3, <1>5
<1>12. Whole'
  BY <1>1 DEF Whole, Moving, Growing
<1>13. Indexed'
  BY <1>1, <1>3 DEF Calm, Indexed, New, Creating, Pushing, Growing
<1>14. \A u \in Thread : Placing(u)'
  BY <1>1, <1>2 DEF Placing, Pushing
<1>15. \A u \in Thread : Moved(u)'
  <2>1. \A u \in Thread \ {t} : pc'[u] \notin Moving
    BY <1>1, <1>2 DEF Moving, Pushing
  <2>2. Moved(t)'
    BY <1>1, <1>3, <1>4, <1>5 DEF Moved, Keeps, New
  <2> QED
    BY <2>1, <2>2 DEF Moved, Moving, Growing
<1>16. \A u \in Thread : Comparing(u)'
  BY <1>1, <1>2 DEF Comparing, Clearing
<1> QED
  BY <1>11, <1>12, <1>13, <1>14, <1>15, <1>16 DEF Calm

LEMMA SetStartCalm ==
    ASSUME Typed, Typed', Calm, NEW t \in Thread, SetStart(t), Apart',
           \A u \in Thread \ {t} : pc[u] \notin Growing
    PROVE  Calm'
<1>1. pc[t] = "start" /\ \A u \in Thread : pc'[u] = IF u = t THEN "finish" ELSE pc[u]
  BY DEF SetStart, Goto, Typed
<1>2. \A u \in Thread \ {t} : pc[u] \notin Pushing \cup Clearing
  BY <1>1 DEF Calm, Apart, Pushing, Growing
<1>3. /\ UNCHANGED <<finish, end, mem, freed, made, living, idx, victim, at, fault>>
      /\ start' = Pointer(at[t].block, 0)
  BY DEF SetStart, pointers, nodes
<1>4. /\ at[t].block \notin freed /\ at[t].off < Len(mem[at[t].block])
      /\ mem[at[t].block][at[t].off + 1] = New(t)
      /\ Keeps(at[t].block, at[t].off) /\ idx[New(t)] <= at[t].off
  BY <1>1 DEF Calm, Moved, Moving, Growing
<1>5. finish.off = at[t].off /\ start'.block = at[t].block
  BY <1>1, <1>3, PointerIs, WordIs DEF Calm, Moved, Typed
<1>11. ~fault'
  BY <1>3 DEF Calm
<1>12. Whole'
  BY <1>1 DEF Whole, Moving, Growing
<1>13. Indexed'
  BY <1>1, <1>3 DEF Calm, Indexed, New, Creating, Pushing, Growing
<1>14. \A u \in Thread : Placing(u)'
  BY <1>1, <1>2 DEF Placing, Pushing
<1>15. \A u \in Thread : Moved(u)'
  <2>1. \A u \in Thread \ {t} : pc'[u] \notin Moving
    BY <1>1, <1>2 DEF Moving, Pushing
  <2>2. Moved(t)'
    BY <1>1, <1>3, <1>4, <1>5 DEF Moved, Keeps, New
  <2> QED
    BY <2>1, <2>2 DEF Moved, Moving, Growing
<1>16. \A u \in Thread : Comparing(u)'
  BY <1>1, <1>2 DEF Comparing, Clearing
<1> QED
  BY <1>11, <1>12, <1>13, <1>14, <1>15, <1>16 DEF Calm

LEMMA SetFinishCalm ==
    ASSUME Typed, Typed', Calm, NEW t \in Thread, SetFinish(t), Apart',
           \A u \in Thread \ {t} : pc[u] \notin Growing
    PROVE  Calm'
<1>1. pc[t] = "finish" /\ \A u \in Thread : pc'[u] = IF u = t THEN "end" ELSE pc[u]
  BY DEF SetFinish, Goto, Typed
<1>2. \A u \in Thread \ {t} : pc[u] \notin Pushing \cup Clearing
  BY <1>1 DEF Calm, Apart, Pushing, Growing
<1>3. /\ UNCHANGED <<start, end, mem, freed, made, living, idx, victim, at, fault>>
      /\ finish' = Behind(at[t])
  BY DEF SetFinish, pointers, nodes
<1>4. /\ at[t].block \notin freed /\ at[t].off < Len(mem[at[t].block])
      /\ mem[at[t].block][at[t].off + 1] = New(t)
      /\ Keeps(at[t].block, at[t].off) /\ idx[New(t)] <= at[t].off
  BY <1>1 DEF Calm, Moved, Moving, Growing
<1>5. finish.off = at[t].off /\ start.block = at[t].block /\ finish'.off = finish.off + 1 /\ finish.off \in Nat
  BY <1>1, <1>3, BehindIs, WordIs DEF Calm, Moved, Typed
<1>11. ~fault'
  BY <1>3 DEF Calm
<1>12. Whole'
  BY <1>1 DEF Whole, Moving, Growing
<1>13. Indexed'
  <2>1. \A n \in Node : idx[n] \in Nat
    BY DEF Typed
  <2>2. \A u \in Thread : pc'[u] \in Creating => pc[u] \in Creating /\ New(u) \in Node
    BY <1>1 DEF Typed, Creating, Pushing, Growing
  <2> QED
    BY <1>3, <1>5, <2>1, <2>2 DEF Calm, Indexed, New, Typed
<1>14. \A u \in Thread : Placing(u)'
  BY <1>1, <1>2 DEF Placing, Pushing
<1>15. \A u \in Thread : Moved(u)'
  <2>1. \A u \in Thread \ {t} : pc'[u] \notin Moving
    BY <1>1, <1>2 DEF Moving, Pushing
  <2>2. Moved(t)'
    BY <1>1, <1>3, <1>4, <1>5 DEF Moved, Keeps, New
  <2> QED
    BY <2>1, <2>2 DEF Moved, Moving, Growing
<1>16. \A u \in Thread : Comparing(u)'
  BY <1>1, <1>2 DEF Comparing, Clearing
<1> QED
  BY <1>11, <1>12, <1>13, <1>14, <1>15, <1>16 DEF Calm

LEMMA SetEndCalm ==
    ASSUME Typed, Typed', Calm, NEW t \in Thread, SetEnd(t), Apart',
           \A u \in Thread \ {t} : pc[u] \notin Growing
    PROVE  Calm'
<1>1. pc[t] = "end" /\ \A u \in Thread : pc'[u] = IF u = t THEN "idle" ELSE pc[u]
  BY DEF SetEnd, Goto, Typed
<1>2. \A u \in Thread \ {t} : pc[u] \notin Pushing \cup Clearing
  BY <1>1 DEF Calm, Apart, Pushing, Growing
<1>3. /\ UNCHANGED <<start, finish, mem, freed, made, idx, at, victim, fault>>
      /\ end' = Pointer(at[t].block, Len(mem[at[t].block])) /\ living' = living \cup {New(t)}
  BY DEF SetEnd, pointers, nodes
<1>4. /\ at[t].block \notin freed /\ at[t].off < Len(mem[at[t].block])
      /\ mem[at[t].block][at[t].off + 1] = New(t)
      /\ Keeps(at[t].block, at[t].off) /\ idx[New(t)] <= at[t].off
  BY <1>1 DEF Calm, Moved, Moving, Growing
<1>5. /\ finish.block = at[t].block /\ start.block = at[t].block /\ finish.off = at[t].off + 1
      /\ at[t].off \in Nat /\ Len(mem[at[t].block]) \in Nat
  <2>1. mem[at[t].block] \in Seq(Content)
    BY ElementOfSeq DEF Typed, Blocks
  <2> QED
    BY <1>1, <2>1, BehindIs, WordIs, LenProperties DEF Calm, Moved, Typed
<1>6. end'.block = at[t].block /\ end'.off = Len(mem[at[t].block])
  <2>1. at[t].block \in Nat
    BY WordIs DEF Typed
  <2> QED
    BY <1>3, <1>5, <2>1, PointerIs
<1>7. /\ New(t) \in Node /\ New(t)[1] = t /\ New(t)[2] = made[t] /\ made[t] \in Nat
      /\ \A u \in Thread : New(u) = New(t) => u = t
  BY <1>1, MaxCreatesAssumption DEF New, Typed, Creating, Pushing, Growing
<1>11. ~fault'
  BY <1>3 DEF Calm
<1>12. Whole'
  <2>1. \A n \in living : \E i \in 1 .. finish.off : mem[start.block][i] = n
    BY <1>4, <1>5 DEF Keeps
  <2>2. finish.off \in 1 .. finish.off /\ mem[start.block][finish.off] = New(t)
    BY <1>4, <1>5
  <2>3. Keeps(start.block, finish.off)'
    BY <1>3, <2>1, <2>2 DEF Keeps
  <2> QED
    BY <1>3, <1>4, <1>5, <1>6, <2>3 DEF Whole, Intact
<1>13. Indexed'
  <2>1. \A n \in living' : n[2] <= made'[n[1]] /\ idx'[n] < finish'.off
    <3> SUFFICES ASSUME NEW n \in living' PROVE n[2] <= made[n[1]] /\ idx[n] < finish.off
      BY <1>3
    <3>1. CASE n = New(t)
      <4>1. idx[n] \in Nat
        BY <1>7, <3>1 DEF Typed
      <4> QED
        BY <1>4, <1>5, <1>7, <3>1, <4>1
    <3>2. CASE n \in living
      BY <3>2 DEF Calm, Indexed
    <3> QED
      BY <1>3, <3>1, <3>2
  <2>2. \A u \in Thread : pc'[u] \in Creating => idx'[New(u)'] <= finish'.off /\ New(u)' \notin living'
    <3>1. \A u \in Thread : pc'[u] \in Creating => u # t /\ pc[u] \in Creating
      BY <1>1 DEF Creating, Pushing, Growing
    <3> QED
      BY <1>3, <1>7, <3>1 DEF Calm, Indexed, New
  <2> QED
    BY <2>1, <2>2 DEF Indexed
<1>14. \A u \in Thread : Placing(u)'
  BY <1>1, <1>2 DEF Placing, Pushing
<1>15. \A u \in Thread : Moved(u)'
  <2>1. \A u \in Thread \ {t} : pc'[u] \notin Moving
    BY <1>1, <1>2 DEF Moving, Pushing
  <2>2. Moved(t)'
    BY <1>1 DEF Moved, Moving, Growing
  <2> QED
    BY <2>1, <2>2 DEF Moved, Moving, Growing
<1>16. \A u \in Thread : Comparing(u)'
  BY <1>1, <1>2 DEF Comparing, Clearing
<1> QED
  BY <1>11, <1>12, <1>13, <1>14, <1>15, <1>16 DEF Calm

-----------------------------------------------------------------------------
(***************************************************************************)
(* What every thread relies on while creates do not overlap: the index a   *)
(* node remembers is its own, from the read of the size on, and the slots  *)
(* in use hold the living nodes and those whose destructor has not cleared *)
(* its slot yet, each at its index, and nothing else.                      *)
(***************************************************************************)
Here == {n \in Node : n \in living \/ \E t \in Thread : pc[t] \in Clearing /\ victim[t] = n}

\* The first k slots hold the nodes of S, each at the index ix has for it.
Exactly(slots, k, ix, S) ==
    /\ \A n \in S : ix[n] < k /\ slots[ix[n] + 1] = n
    /\ \A i \in 1 .. k : slots[i] # Null => slots[i] \in S /\ ix[slots[i]] + 1 = i

OneCreates == \A t, u \in Thread : t # u => ~(pc[t] \in Creating /\ pc[u] \in Creating)

Fresh(t) ==
    /\ pc[t] \in Creating \ {"end"} => idx[New(t)] = finish.off
    /\ pc[t] = "end" => idx[New(t)] = at[t].off

Leaving(t) == pc[t] \in Clearing => victim[t][2] <= made[t] /\ at[t].off = idx[victim[t]]

\* The storage in use, or the block a growth is about to put in its place
InUse == (\A t \in Thread : pc[t] \notin Moving) => Exactly(mem[start.block], finish.off, idx, Here)
Grown(t) == pc[t] \in Moving => Exactly(mem[at[t].block], at[t].off, idx, Here)

Exact ==
    /\ OneCreates /\ InUse
    /\ \A t \in Thread : Fresh(t) /\ Leaving(t) /\ Grown(t)

LEMMA ExactlySame ==
    ASSUME NEW slots, NEW slots2, NEW k \in Nat, NEW ix, NEW ix2, NEW S,
           Exactly(slots, k, ix, S),
           \A i \in 1 .. k : slots2[i] = slots[i],
           \A n \in S : ix2[n] = ix[n] /\ ix[n] \in Nat
    PROVE  Exactly(slots2, k, ix2, S)
<1>1. \A n \in S : ix[n] + 1 \in 1 .. k
  BY DEF Exactly
<1> QED
  BY <1>1 DEF Exactly

LEMMA ExactlyMore ==
    ASSUME NEW slots, NEW k \in Nat, NEW ix, NEW S, NEW n,
           Exactly(slots, k, ix, S), slots[k + 1] = n, ix[n] = k,
           \A m \in S : ix[m] \in Nat
    PROVE  Exactly(slots, k + 1, ix, S \cup {n})
<1>1. \A m \in S \cup {n} : ix[m] < k + 1 /\ slots[ix[m] + 1] = m
  BY DEF Exactly
<1>2. \A i \in 1 .. k + 1 : i = k + 1 \/ i \in 1 .. k
  OBVIOUS
<1> QED
  BY <1>1, <1>2 DEF Exactly

LEMMA ExactlyLess ==
    ASSUME NEW slots, NEW slots2, NEW k \in Nat, NEW ix, NEW S, NEW v \in S, Null \notin S,
           Exactly(slots, k, ix, S),
           \A i \in 1 .. k : slots2[i] = IF i = ix[v] + 1 THEN Null ELSE slots[i],
           \A n \in S : ix[n] \in Nat
    PROVE  Exactly(slots2, k, ix, S \ {v})
<1>1. ASSUME NEW n \in S \ {v} PROVE ix[n] < k /\ slots2[ix[n] + 1] = n
  <2>1. slots[ix[n] + 1] = n /\ slots[ix[v] + 1] = v /\ ix[n] + 1 \in 1 .. k
    BY DEF Exactly
  <2>2. ix[n] + 1 # ix[v] + 1
    BY <2>1
  <2> QED
    BY <2>1, <2>2 DEF Exactly
<1>2. ASSUME NEW i \in 1 .. k, slots2[i] # Null
      PROVE  slots2[i] \in S \ {v} /\ ix[slots2[i]] + 1 = i
  <2>1. slots2[i] = slots[i] /\ i # ix[v] + 1
    BY <1>2
  <2> QED
    BY <1>2, <2>1 DEF Exactly
<1> QED
  BY <1>1, <1>2 DEF Exactly

\* A node that is here is a node, with an index.
LEMMA HereIs ==
    ASSUME Typed
    PROVE  Here \subseteq Node /\ Null \notin Here /\ \A n \in Here : idx[n] \in Nat
  BY NullAssumption DEF Here, Typed, Node

\* A step that is no mixture of two creates finds no other thread in one.
LEMMA OneOnly ==
    ASSUME Observe, ~mixed'
    PROVE  ~mixed /\ OneCreates'
<1> DEFINE mix == \E t, u \in Thread : t # u /\ {pc'[t], pc'[u]} \subseteq Pushing \cup {"push"}
<1>1. mixed' = (mixed \/ mix)
  BY DEF Observe
<1>2. ~mixed /\ ~mix
  <2> HIDE DEF mix
  <2> QED
    BY <1>1, Zenon
<1> QED
  BY <1>2 DEF OneCreates, Creating

\* Who is here, after a step that changes neither the living nor the victims
LEMMA HereKept ==
    ASSUME Typed, NEW t \in Thread, NEW l, \A u \in Thread : pc'[u] = IF u = t THEN l ELSE pc[u],
           living' = living, victim' = victim, pc[t] \in Clearing <=> l \in Clearing
    PROVE  Here' = Here
  BY DEF Here

LEMMA ReadSizeExact ==
    ASSUME Typed, Typed', Calm, Exact, OneCreates', NEW t \in Thread, ReadSize(t),
           \A u \in Thread \ {t} : pc[u] \notin Growing
    PROVE  Exact'
<1>0. Intact
  BY Still DEF ReadSize, Moving, Growing
<1>1. /\ pc[t] = "idle"
      /\ made' = [made EXCEPT ![t] = @ + 1] /\ made[t] < MaxCreates
      /\ idx' = [idx EXCEPT ![<<t, made[t] + 1>>] = finish.off]
      /\ UNCHANGED <<start, finish, mem, living, at, victim>>
  BY <1>0 DEF ReadSize, pointers, nodes, Typed, Intact, Size
<1>2. \A u \in Thread : pc'[u] = IF u = t THEN "push" ELSE pc[u]
  BY DEF ReadSize, Goto, Typed
<1>3. /\ made[t] \in Nat /\ made'[t] = made[t] + 1 /\ \A u \in Thread \ {t} : made'[u] = made[u]
      /\ New(t)' = <<t, made[t] + 1>> /\ New(t)' \in Node
      /\ idx'[New(t)'] = finish.off /\ \A n \in Node : n # New(t)' => idx'[n] = idx[n]
  BY <1>1, MaxCreatesAssumption DEF Typed, New, Node
<1>4. \A n \in Here : n # New(t)'
  <2>1. \A n \in living : n # New(t)'
    BY <1>3 DEF Calm, Indexed
  <2>2. \A u \in Thread : pc[u] \in Clearing => victim[u] # New(t)'
    BY <1>1, <1>3 DEF Typed, Clearing
  <2> QED
    BY <2>1, <2>2 DEF Here
<1>5. Here' = Here
  BY <1>1, <1>2, HereKept DEF Clearing
<1>6. InUse'
  <2>1. Exactly(mem[start.block], finish.off, idx, Here)
    BY <1>1 DEF Exact, InUse, Moving, Growing
  <2>2. \A n \in Here : idx'[n] = idx[n] /\ idx[n] \in Nat
    BY <1>3, <1>4, HereIs
  <2>3. Exactly(mem[start.block], finish.off, idx', Here)
    <3>1. finish.off \in Nat /\ \A i \in 1 .. finish.off : mem[start.block][i] = mem[start.block][i]
      BY WordIs DEF Typed
    <3>2. \A ix : (\A n \in Here : ix[n] = idx[n] /\ idx[n] \in Nat)
                   => Exactly(mem[start.block], finish.off, ix, Here)
      BY <2>1, <3>1, ExactlySame, Zenon
    <3> QED
      BY <2>2, <3>2, Zenon
  <2> QED
    BY <1>1, <1>5, <2>3 DEF InUse
<1>7. ASSUME NEW u \in Thread PROVE Fresh(u)' /\ Leaving(u)' /\ Grown(u)'
  <2>1. CASE u = t
    BY <1>1, <1>2, <1>3, <2>1 DEF Fresh, Leaving, Grown, Clearing, Moving, Growing
  <2>2. CASE u # t
    <3>1. pc'[u] \notin Creating /\ pc'[u] = pc[u]
      BY <1>2, <2>2 DEF OneCreates, Creating
    <3>2. pc[u] \in Clearing => victim[u] \in Here /\ victim[u] \in Node
      BY DEF Here, Typed
    <3>3. Leaving(u)'
      BY <1>1, <1>3, <1>4, <2>2, <3>1, <3>2 DEF Exact, Leaving
    <3> QED
      BY <3>1, <3>3 DEF Fresh, Grown, Moving, Creating, Pushing, Growing
  <2> QED
    BY <2>1, <2>2
<1> QED
  BY <1>6, <1>7 DEF Exact

\* A step of a creating thread concerns it alone: no other thread creates.
LEMMA OthersExact ==
    ASSUME Typed, Exact, OneCreates', NEW t \in Thread, NEW l,
           \A u \in Thread : pc'[u] = IF u = t THEN l ELSE pc[u],
           pc[t] \in Creating \/ l \in Creating,
           UNCHANGED <<made, idx, victim>>, \A u \in Thread \ {t} : at'[u] = at[u],
           l \notin Clearing
    PROVE  \A u \in Thread : Leaving(u)' /\ (u # t => Fresh(u)' /\ Grown(u)')
<1> SUFFICES ASSUME NEW u \in Thread PROVE Leaving(u)' /\ (u # t => Fresh(u)' /\ Grown(u)')
  OBVIOUS
<1>1. CASE u = t
  BY <1>1 DEF Leaving
<1>2. CASE u # t
  <2>1. pc'[u] = pc[u] /\ pc[u] \notin Creating
    BY <1>2 DEF Exact, OneCreates
  <2> QED
    BY <1>2, <2>1 DEF Exact, Leaving, Fresh, Grown, Moving, Creating, Pushing, Growing
<1> QED
  BY <1>1, <1>2

LEMMA PushBackExact ==
    ASSUME Typed, Typed', Calm, Exact, OneCreates', NEW t \in Thread, PushBack(t),
           \A u \in Thread \ {t} : pc[u] \notin Growing
    PROVE  Exact'
<1> DEFINE l == IF Full THEN "grow" ELSE "store"
<1>1. /\ pc[t] = "push" /\ \A u \in Thread \ {t} : at'[u] = at[u]
      /\ UNCHANGED <<start, finish, mem, made, living, idx, victim>>
  BY DEF PushBack, pointers, nodes, Typed
<1>2. \A u \in Thread : pc'[u] = IF u = t THEN l ELSE pc[u]
  BY DEF PushBack, Goto, Typed
<1>3. l \in {"grow", "store"}
  OBVIOUS
<1> HIDE DEF l
<1>4. Here' = Here
  BY <1>1, <1>2, <1>3, HereKept DEF Clearing
<1>5. \A u \in Thread : Leaving(u)' /\ (u # t => Fresh(u)' /\ Grown(u)')
  BY <1>1, <1>2, <1>3, OthersExact DEF Creating, Clearing, Pushing, Growing
<1>6. Fresh(t)' /\ Grown(t)'
  BY <1>1, <1>2, <1>3 DEF Exact, Fresh, Grown, New, Creating, Pushing, Growing, Moving
<1>7. InUse'
  BY <1>1, <1>2, <1>3, <1>4 DEF Exact, InUse, Moving, Growing
<1> QED
  BY <1>5, <1>6, <1>7 DEF Exact

LEMMA StoreExact ==
    ASSUME Typed, Typed', Calm, Exact, OneCreates', NEW t \in Thread, Store(t),
           \A u \in Thread \ {t} : pc[u] \notin Growing
    PROVE  Exact'
<1>0. Intact
  BY Still DEF Store, Moving, Growing
<1>1. /\ pc[t] = "store" /\ at[t] = finish /\ finish.off < end.off
      /\ UNCHANGED <<start, finish, made, living, idx, at, victim>>
  BY DEF Store, pointers, nodes, Calm, Placing
<1>2. \A u \in Thread : pc'[u] = IF u = t THEN "bump" ELSE pc[u]
  BY DEF Store, Goto, Typed
<1>3. mem' = Stored(finish, New(t))
  BY <1>0, <1>1 DEF Store, Valid, Intact
<1>4. finish.off \in Nat /\ end.off \in Nat
  BY WordIs DEF Typed
<1>5. \A i \in 1 .. finish.off : mem'[start.block][i] = mem[start.block][i]
  <2>1. New(t) \in Content /\ finish \in Word
    BY <1>1 DEF Typed, Content, Creating, Pushing
  <2>2. \A i \in 1 .. Len(mem[start.block]) :
          mem'[start.block][i] = IF i = finish.off + 1 THEN New(t) ELSE mem[start.block][i]
    BY <1>0, <1>1, <1>3, <2>1, StoredIn DEF Intact
  <2> QED
    BY <1>0, <1>1, <1>4, <2>2 DEF Intact
<1>6. Here' = Here
  BY <1>1, <1>2, HereKept DEF Clearing
<1>7. \A u \in Thread : Leaving(u)' /\ (u # t => Fresh(u)' /\ Grown(u)')
  BY <1>1, <1>2, OthersExact DEF Creating, Clearing, Pushing, Growing
<1>8. Fresh(t)' /\ Grown(t)'
  BY <1>1, <1>2 DEF Exact, Fresh, Grown, New, Creating, Pushing, Growing, Moving
<1>9. InUse'
  <2>1. Exactly(mem[start.block], finish.off, idx, Here) /\ \A n \in Here : idx[n] = idx[n] /\ idx[n] \in Nat
    BY <1>1, HereIs DEF Exact, InUse, Moving, Growing
  <2>2. Exactly(mem'[start.block], finish.off, idx, Here)
    BY <1>4, <1>5, <2>1, ExactlySame, Zenon
  <2> QED
    BY <1>1, <1>6, <2>2 DEF InUse
<1> QED
  BY <1>7, <1>8, <1>9 DEF Exact

\* The new node joins those that are here.
LEMMA HereGrows ==
    ASSUME Typed, NEW t \in Thread, pc[t] \notin Clearing, New(t) \in Node,
           \A u \in Thread : pc'[u] = IF u = t THEN "idle" ELSE pc[u],
           living' = living \cup {New(t)}, victim' = victim
    PROVE  Here' = Here \cup {New(t)}
  BY DEF Here, Clearing

LEMMA BumpExact ==
    ASSUME Typed, Typed', Calm, Exact, OneCreates', NEW t \in Thread, Bump(t),
           \A u \in Thread \ {t} : pc[u] \notin Growing
    PROVE  Exact'
<1>0. Intact
  BY Still DEF Bump, Moving, Growing
<1>1. /\ pc[t] = "bump" /\ mem[finish.block][finish.off + 1] = New(t)
      /\ finish' = Behind(finish) /\ living' = living \cup {New(t)}
      /\ UNCHANGED <<start, mem, made, idx, at, victim>>
  BY DEF Bump, pointers, nodes, Calm, Placing
<1>2. \A u \in Thread : pc'[u] = IF u = t THEN "idle" ELSE pc[u]
  BY DEF Bump, Goto, Typed
<1>3. finish'.off = finish.off + 1 /\ finish.off \in Nat
  BY <1>1, BehindIs, WordIs DEF Typed
<1>4. idx[New(t)] = finish.off /\ New(t) \in Node
  BY <1>1 DEF Exact, Fresh, Typed, Creating, Pushing, Growing
<1>5. Here' = Here \cup {New(t)}
  BY <1>1, <1>2, <1>4, HereGrows DEF Clearing
<1>6. \A u \in Thread : Leaving(u)' /\ (u # t => Fresh(u)' /\ Grown(u)')
  BY <1>1, <1>2, OthersExact DEF Creating, Clearing, Pushing, Growing
<1>7. Fresh(t)' /\ Grown(t)'
  BY <1>2 DEF Fresh, Grown, Creating, Pushing, Growing, Moving
<1>8. InUse'
  <2>1. Exactly(mem[start.block], finish.off, idx, Here) /\ \A n \in Here : idx[n] \in Nat
    BY <1>1, HereIs DEF Exact, InUse, Moving, Growing
  <2>2. mem[start.block][finish.off + 1] = New(t)
    BY <1>0, <1>1 DEF Intact
  <2>3. Exactly(mem[start.block], finish.off + 1, idx, Here \cup {New(t)})
    BY <1>3, <1>4, <2>1, <2>2, ExactlyMore, Zenon
  <2> QED
    BY <1>1, <1>3, <1>5, <2>3 DEF InUse
<1> QED
  BY <1>6, <1>7, <1>8 DEF Exact

LEMMA GrowExact ==
    ASSUME Typed, Typed', Calm, Exact, OneCreates', NEW t \in Thread, Grow(t),
           \A u \in Thread \ {t} : pc[u] \notin Growing
    PROVE  Exact'
<1>0. Intact
  BY Still DEF Grow, Moving, Growing
<1>1. pc[t] = "grow" /\ \A u \in Thread : pc'[u] = IF u = t THEN "free" ELSE pc[u]
  BY DEF Grow, Goto, Typed
<1>2. UNCHANGED <<start, finish, made, living, idx, victim>>
  BY DEF Grow, pointers, nodes
<1>3. /\ finish.off \in Nat /\ finish.off <= Len(mem[start.block]) /\ New(t) \in Content
      /\ Len(mem) \in Nat /\ start.block \in 1 .. Len(mem)
  BY <1>0, <1>1, WordIs, LenMem DEF Typed, Blocks, Intact, Content, Creating, Pushing, Growing
<1>4. /\ mem' = Append(mem, Copied(finish.off, New(t)))
      /\ at' = [at EXCEPT ![t] = Pointer(Len(mem'), finish.off)]
  BY <1>0, <1>3 DEF Grow, Intact
<1>5. /\ Copied(finish.off, New(t)) \in Seq(Content)
      /\ \A i \in 1 .. finish.off : Copied(finish.off, New(t))[i] = mem[start.block][i]
  <2>1. mem \in Seq(Seq(Content)) /\ start.block \in Blocks
    BY DEF Typed
  <2> QED
    BY <1>3, <2>1, CopiedIs
<1>6. Len(mem') = Len(mem) + 1 /\ mem'[Len(mem) + 1] = Copied(finish.off, New(t))
  BY <1>4, <1>5, AppendProperties DEF Typed
<1>7. /\ at'[t].block = Len(mem) + 1 /\ at'[t].off = finish.off
      /\ \A u \in Thread \ {t} : at'[u] = at[u]
  BY <1>3, <1>4, <1>6, PointerIs DEF Typed
<1>8. Here' = Here
  BY <1>1, <1>2, HereKept DEF Clearing
<1>9. \A u \in Thread : Leaving(u)' /\ (u # t => Fresh(u)' /\ Grown(u)')
  BY <1>1, <1>2, <1>7, OthersExact DEF Creating, Clearing, Pushing, Growing
<1>10. Fresh(t)'
  BY <1>1, <1>2 DEF Exact, Fresh, New, Creating, Pushing, Growing
<1>11. Grown(t)'
  <2>1. Exactly(mem[start.block], finish.off, idx, Here) /\ \A n \in Here : idx[n] = idx[n] /\ idx[n] \in Nat
    <3>1. \A u \in Thread : pc[u] \notin Moving
      BY <1>1 DEF Moving, Growing
    <3> QED
      BY <3>1, HereIs DEF Exact, InUse
  <2>2. Exactly(Copied(finish.off, New(t)), finish.off, idx, Here)
    BY <1>3, <1>5, <2>1, ExactlySame, Zenon
  <2> QED
    BY <1>2, <1>6, <1>7, <1>8, <2>2 DEF Grown
<1>12. InUse'
  BY <1>1 DEF InUse, Moving, Growing
<1> QED
  BY <1>9, <1>10, <1>11, <1>12 DEF Exact

LEMMA FreeOldExact ==
    ASSUME Typed, Typed', Calm, Exact, OneCreates', NEW t \in Thread, FreeOld(t),
           \A u \in Thread \ {t} : pc[u] \notin Growing
    PROVE  Exact'
<1>1. pc[t] = "free" /\ \A u \in Thread : pc'[u] = IF u = t THEN "start" ELSE pc[u]
  BY DEF FreeOld, Goto, Typed
<1>2. UNCHANGED <<start, finish, mem, made, living, idx, victim, at>>
  BY DEF FreeOld, pointers, nodes
<1>3. Here' = Here
  BY <1>1, <1>2, HereKept DEF Clearing
<1>4. \A u \in Thread : Leaving(u)' /\ (u # t => Fresh(u)' /\ Grown(u)')
  BY <1>1, <1>2, OthersExact DEF Creating, Clearing, Pushing, Growing
<1>5. Fresh(t)' /\ Grown(t)' /\ InUse'
  BY <1>1, <1>2, <1>3 DEF Exact, Fresh, Grown, InUse, New, Creating, Pushing, Growing, Moving
<1> QED
  BY <1>4, <1>5 DEF Exact

LEMMA SetStartExact ==
    ASSUME Typed, Typed', Calm, Exact, OneCreates', NEW t \in Thread, SetStart(t),
           \A u \in Thread \ {t} : pc[u] \notin Growing
    PROVE  Exact'
<1>1. pc[t] = "start" /\ \A u \in Thread : pc'[u] = IF u = t THEN "finish" ELSE pc[u]
  BY DEF SetStart, Goto, Typed
<1>2. UNCHANGED <<finish, mem, made, living, idx, victim, at>>
  BY DEF SetStart, pointers, nodes
<1>3. Here' = Here
  BY <1>1, <1>2, HereKept DEF Clearing
<1>4. \A u \in Thread : Leaving(u)' /\ (u # t => Fresh(u)' /\ Grown(u)')
  BY <1>1, <1>2, OthersExact DEF Creating, Clearing, Pushing, Growing
<1>5. Fresh(t)' /\ Grown(t)' /\ InUse'
  BY <1>1, <1>2, <1>3 DEF Exact, Fresh, Grown, InUse, New, Creating, Pushing, Growing, Moving
<1> QED
  BY <1>4, <1>5 DEF Exact

LEMMA SetFinishExact ==
    ASSUME Typed, Typed', Calm, Exact, OneCreates', NEW t \in Thread, SetFinish(t),
           \A u \in Thread \ {t} : pc[u] \notin Growing
    PROVE  Exact'
<1>1. pc[t] = "finish" /\ \A u \in Thread : pc'[u] = IF u = t THEN "end" ELSE pc[u]
  BY DEF SetFinish, Goto, Typed
<1>2. UNCHANGED <<start, mem, made, living, idx, victim, at>>
  BY DEF SetFinish, pointers, nodes
<1>3. finish.off = at[t].off
  BY <1>1 DEF Calm, Moved
<1>4. Here' = Here
  BY <1>1, <1>2, HereKept DEF Clearing
<1>5. \A u \in Thread : Leaving(u)' /\ (u # t => Fresh(u)' /\ Grown(u)')
  BY <1>1, <1>2, OthersExact DEF Creating, Clearing, Pushing, Growing
<1>6. Fresh(t)' /\ Grown(t)' /\ InUse'
  BY <1>1, <1>2, <1>3, <1>4 DEF Exact, Fresh, Grown, InUse, New, Creating, Pushing, Growing, Moving
<1> QED
  BY <1>5, <1>6 DEF Exact

LEMMA SetEndExact ==
    ASSUME Typed, Typed', Calm, Exact, OneCreates', NEW t \in Thread, SetEnd(t),
           \A u \in Thread \ {t} : pc[u] \notin Growing
    PROVE  Exact'
<1>1. pc[t] = "end" /\ \A u \in Thread : pc'[u] = IF u = t THEN "idle" ELSE pc[u]
  BY DEF SetEnd, Goto, Typed
<1>2. UNCHANGED <<start, finish, mem, made, idx, at, victim>> /\ living' = living \cup {New(t)}
  BY DEF SetEnd, pointers, nodes
<1>3. /\ start.block = at[t].block /\ finish.off = at[t].off + 1 /\ at[t].off \in Nat
      /\ mem[at[t].block][at[t].off + 1] = New(t)
  BY <1>1, BehindIs, WordIs DEF Calm, Moved, Moving, Growing, Typed
<1>4. idx[New(t)] = at[t].off /\ New(t) \in Node
  BY <1>1 DEF Exact, Fresh, Typed, Creating, Pushing, Growing
<1>5. Here' = Here \cup {New(t)}
  BY <1>1, <1>2, <1>4, HereGrows DEF Clearing
<1>6. \A u \in Thread : Leaving(u)' /\ (u # t => Fresh(u)' /\ Grown(u)')
  BY <1>1, <1>2, OthersExact DEF Creating, Clearing, Pushing, Growing
<1>7. Fresh(t)' /\ Grown(t)'
  BY <1>1 DEF Fresh, Grown, Creating, Pushing, Growing, Moving
<1>8. InUse'
  <2>1. Exactly(mem[at[t].block], at[t].off, idx, Here) /\ \A n \in Here : idx[n] \in Nat
    BY <1>1, HereIs DEF Exact, Grown, Moving, Growing
  <2>2. Exactly(mem[at[t].block], at[t].off + 1, idx, Here \cup {New(t)})
    BY <1>3, <1>4, <2>1, ExactlyMore, Zenon
  <2> QED
    BY <1>2, <1>3, <1>5, <2>2 DEF InUse
<1> QED
  BY <1>6, <1>7, <1>8 DEF Exact

LEMMA DestroyExact ==
    ASSUME Typed, Typed', Calm, Exact, OneCreates', NEW t \in Thread, Destroy(t),
           \A u \in Thread \ {t} : pc[u] \notin Growing
    PROVE  Exact'
<1>1. /\ pc[t] = "idle" /\ UNCHANGED <<start, finish, mem, made, idx>>
      /\ \A u \in Thread : pc'[u] = IF u = t THEN "compare" ELSE pc[u]
  BY DEF Destroy, pointers, nodes, Goto, Typed
<1>2. PICK n \in living :
        /\ n[1] = t /\ victim' = [victim EXCEPT ![t] = n] /\ living' = living \ {n}
        /\ at' = [at EXCEPT ![t] = Pointer(start.block, idx[n])]
  BY DEF Destroy
<1>3. /\ n \in Node /\ n[2] <= made[t] /\ at'[t].off = idx[n] /\ victim'[t] = n
      /\ \A u \in Thread \ {t} : at'[u] = at[u] /\ victim'[u] = victim[u]
  <2>1. n \in Node /\ n[2] <= made[t]
    BY <1>2 DEF Typed, Calm, Indexed
  <2>2. at'[t] = Pointer(start.block, idx[n]) /\ victim'[t] = n
    BY <1>2 DEF Typed
  <2>3. \A u \in Thread \ {t} : at'[u] = at[u] /\ victim'[u] = victim[u]
    BY <1>2 DEF Typed
  <2>4. idx[n] \in Nat /\ start.block \in Nat
    BY <2>1, WordIs DEF Typed
  <2> QED
    BY <2>1, <2>2, <2>3, <2>4, PointerIs
<1>4. Here' = Here
  <2>1. ASSUME NEW m \in Node PROVE m \in Here <=> m \in Here'
    <3>1. CASE m = n
      BY <1>1, <1>2, <1>3, <3>1 DEF Here, Clearing
    <3>2. CASE m # n
      BY <1>1, <1>2, <1>3, <3>2 DEF Here, Clearing
    <3> QED
      BY <3>1, <3>2
  <2> QED
    BY <2>1 DEF Here
<1>5. ASSUME NEW u \in Thread PROVE Fresh(u)' /\ Leaving(u)' /\ Grown(u)'
  <2>1. CASE u = t
    BY <1>1, <1>2, <1>3, <2>1 DEF Fresh, Leaving, Grown, Creating, Pushing, Growing, Moving
  <2>2. CASE u # t
    <3>1. pc[u] \notin Moving
      BY <2>2 DEF Moving
    <3> QED
      BY <1>1, <1>3, <2>2, <3>1 DEF Exact, Fresh, Leaving, Grown, New, Moving, Growing
  <2> QED
    BY <2>1, <2>2
<1>6. InUse'
  BY <1>1, <1>4 DEF Exact, InUse, Moving, Growing
<1> QED
  BY <1>5, <1>6 DEF Exact

\* A destructor always finds its node at the index the node remembers.
LEMMA CompareExact ==
    ASSUME Typed, Typed', Calm, Exact, OneCreates', NEW t \in Thread, Compare(t),
           \A u \in Thread \ {t} : pc[u] \notin Growing
    PROVE  Exact'
<1>0. Intact
  BY Still DEF Compare, Moving, Growing
<1>1. /\ pc[t] = "compare" /\ UNCHANGED <<start, finish, mem, made, living, idx, at, victim>>
      /\ at[t].block = start.block /\ at[t].off < finish.off
  BY DEF Compare, pointers, nodes, Calm, Comparing, Clearing
<1>2. Valid(at[t])
  <2>1. finish.off \in Nat /\ end.off \in Nat /\ at[t].off \in Nat
    BY WordIs DEF Typed
  <2> QED
    BY <1>0, <1>1, <2>1 DEF Valid, Intact
<1>3. OwnSlot(t)
  <2>1. victim[t] \in Here /\ at[t].off = idx[victim[t]]
    BY <1>1 DEF Here, Exact, Leaving, Clearing, Typed
  <2>2. Exactly(mem[start.block], finish.off, idx, Here)
    BY <1>1 DEF Exact, InUse, Moving, Growing
  <2> QED
    BY <1>1, <2>1, <2>2 DEF Exactly, OwnSlot, Slot
<1>4. \A u \in Thread : pc'[u] = IF u = t THEN "clear" ELSE pc[u]
  BY <1>2, <1>3 DEF Compare, Goto, Typed
<1>5. Here' = Here
  BY <1>1, <1>4, HereKept DEF Clearing
<1>6. ASSUME NEW u \in Thread PROVE Fresh(u)' /\ Leaving(u)' /\ Grown(u)'
  <2>1. CASE u = t
    BY <1>1, <1>4, <2>1 DEF Exact, Fresh, Leaving, Grown, Creating, Clearing, Pushing, Growing, Moving
  <2>2. CASE u # t
    <3>1. pc[u] \notin Moving
      BY <2>2 DEF Moving
    <3> QED
      BY <1>1, <1>4, <2>2, <3>1 DEF Exact, Fresh, Leaving, Grown, New, Moving, Growing
  <2> QED
    BY <2>1, <2>2
<1>7. InUse'
  BY <1>1, <1>4, <1>5 DEF Exact, InUse, Moving, Growing
<1> QED
  BY <1>6, <1>7 DEF Exact

LEMMA ClearExact ==
    ASSUME Typed, Typed', Calm, Exact, OneCreates', NEW t \in Thread, Clear(t),
           \A u \in Thread \ {t} : pc[u] \notin Growing
    PROVE  Exact'
<1>0. Intact
  BY Still DEF Clear, Moving, Growing
<1>1. /\ pc[t] = "clear" /\ UNCHANGED <<start, finish, made, living, idx, at, victim>>
      /\ at[t].block = start.block /\ at[t].off < finish.off /\ victim[t] \notin living
  BY DEF Clear, pointers, nodes, Calm, Comparing, Clearing
<1>2. \A u \in Thread : pc'[u] = IF u = t THEN "idle" ELSE pc[u]
  BY DEF Clear, Goto, Typed
<1>3. finish.off \in Nat /\ end.off \in Nat /\ at[t].off \in Nat
  BY WordIs DEF Typed
<1>4. mem' = Stored(at[t], Null)
  BY <1>0, <1>1, <1>3 DEF Clear, Valid, Intact
<1>5. /\ victim[t] \in Here /\ at[t].off = idx[victim[t]] /\ victim[t] \in Node
      /\ \A u \in Thread \ {t} : pc[u] \in Clearing => victim[u] # victim[t]
  BY <1>1 DEF Here, Exact, Leaving, Clearing, Typed
<1>6. \A i \in 1 .. finish.off :
        mem'[start.block][i] = IF i = idx[victim[t]] + 1 THEN Null ELSE mem[start.block][i]
  <2>1. Null \in Content /\ at[t] \in Word
    BY DEF Typed, Content
  <2>2. at[t].off < Len(mem[start.block]) /\ finish.off <= Len(mem[start.block])
    BY <1>0, <1>1, <1>3 DEF Intact
  <2>3. \A i \in 1 .. Len(mem[start.block]) :
           mem'[start.block][i] = IF i = at[t].off + 1 THEN Null ELSE mem[start.block][i]
    BY <1>1, <1>4, <2>1, <2>2, StoredIn
  <2> QED
    BY <1>0, <1>3, <1>5, <2>2, <2>3 DEF Intact
<1>7. Here' = Here \ {victim[t]}
  BY <1>1, <1>2, <1>5 DEF Here, Clearing
<1>8. ASSUME NEW u \in Thread PROVE Fresh(u)' /\ Leaving(u)' /\ Grown(u)'
  <2>1. CASE u = t
    BY <1>1, <1>2, <2>1 DEF Fresh, Leaving, Grown, Creating, Clearing, Pushing, Growing, Moving
  <2>2. CASE u # t
    <3>1. pc[u] \notin Moving
      BY <2>2 DEF Moving
    <3> QED
      BY <1>1, <1>2, <2>2, <3>1 DEF Exact, Fresh, Leaving, Grown, New, Moving, Growing
  <2> QED
    BY <2>1, <2>2
<1>9. InUse'
  <2>1. /\ Exactly(mem[start.block], finish.off, idx, Here)
        /\ Null \notin Here /\ \A n \in Here : idx[n] \in Nat
    BY <1>1, HereIs DEF Exact, InUse, Moving, Growing
  <2>2. Exactly(mem'[start.block], finish.off, idx, Here \ {victim[t]})
    BY <1>3, <1>5, <1>6, <2>1, ExactlyLess, Zenon
  <2> QED
    BY <1>1, <1>7, <2>2 DEF InUse
<1> QED
  BY <1>8, <1>9 DEF Exact

-----------------------------------------------------------------------------
(* The invariant and the theorems.                                         *)

LEMMA StepTyped == ASSUME Typed, NEW t \in Thread, Step(t) PROVE Typed'
  BY ReadSizeTyped, PushBackTyped, StoreTyped, BumpTyped, GrowTyped, FreeOldTyped,
     SetStartTyped, SetFinishTyped, SetEndTyped, DestroyTyped, CompareTyped, ClearTyped DEF Step

\* Every step moves the thread that takes it.
LEMMA StepMoves ==
    ASSUME Typed, NEW t \in Thread, Step(t)
    PROVE  \E l \in Label : l # pc[t] /\ pc' = [pc EXCEPT ![t] = l]
<1>1. CASE ReadSize(t)
  BY <1>1 DEF ReadSize, Goto, Label, Creating, Clearing, Pushing, Growing
<1>2. CASE PushBack(t)
  BY <1>2 DEF PushBack, Goto, Label, Creating, Clearing, Pushing, Growing
<1>3. CASE Store(t)
  BY <1>3 DEF Store, Goto, Label, Creating, Clearing, Pushing, Growing
<1>4. CASE Bump(t)
  BY <1>4 DEF Bump, Goto, Label, Creating, Clearing, Pushing, Growing
<1>5. CASE Grow(t)
  BY <1>5 DEF Grow, Goto, Label, Creating, Clearing, Pushing, Growing
<1>6. CASE FreeOld(t)
  BY <1>6 DEF FreeOld, Goto, Label, Creating, Clearing, Pushing, Growing
<1>7. CASE SetStart(t)
  BY <1>7 DEF SetStart, Goto, Label, Creating, Clearing, Pushing, Growing
<1>8. CASE SetFinish(t)
  BY <1>8 DEF SetFinish, Goto, Label, Creating, Clearing, Pushing, Growing
<1>9. CASE SetEnd(t)
  BY <1>9 DEF SetEnd, Goto, Label, Creating, Clearing, Pushing, Growing
<1>10. CASE Destroy(t)
  BY <1>10 DEF Destroy, Goto, Label, Creating, Clearing, Pushing, Growing
<1>11. CASE Compare(t)
  BY <1>11 DEF Compare, Goto, Label, Creating, Clearing, Pushing, Growing
<1>12. CASE Clear(t)
  BY <1>12 DEF Clear, Goto, Label, Creating, Clearing, Pushing, Growing
<1> QED
  BY <1>1, <1>2, <1>3, <1>4, <1>5, <1>6, <1>7, <1>8, <1>9, <1>10, <1>11, <1>12 DEF Step

LEMMA StepCalm ==
    ASSUME Typed, Calm, NEW t \in Thread, Step(t), Observe, ~raced'
    PROVE  Calm'
<1>1. PICK l \in Label : l # pc[t] /\ pc' = [pc EXCEPT ![t] = l]
  BY StepMoves
<1>2. Apart' /\ \A u \in Thread \ {t} : pc[u] \notin Growing
  BY <1>1, Alone
<1>3. Typed'
  BY StepTyped
<1> QED
  BY <1>2, <1>3, ReadSizeCalm, PushBackCalm, StoreCalm, BumpCalm, GrowCalm, FreeOldCalm,
     SetStartCalm, SetFinishCalm, SetEndCalm, DestroyCalm, CompareCalm, ClearCalm DEF Step

LEMMA StepExact ==
    ASSUME Typed, Calm, Exact, NEW t \in Thread, Step(t), Observe, ~raced', ~mixed'
    PROVE  Exact'
<1>1. PICK l \in Label : l # pc[t] /\ pc' = [pc EXCEPT ![t] = l]
  BY StepMoves
<1>2. \A u \in Thread \ {t} : pc[u] \notin Growing
  BY <1>1, Alone
<1>3. Typed' /\ OneCreates'
  BY StepTyped, OneOnly
<1> QED
  BY <1>2, <1>3, ReadSizeExact, PushBackExact, StoreExact, BumpExact, GrowExact, FreeOldExact,
     SetStartExact, SetFinishExact, SetEndExact, DestroyExact, CompareExact, ClearExact DEF Step

LEMMA InitExact == Init => Exact
<1> SUFFICES ASSUME Init PROVE Exact
  OBVIOUS
<1>1. (\A t \in Thread : pc[t] = "idle") /\ living = {} /\ finish.off = 0
  BY PointerIs DEF Init, NoBlock
<1>2. Here = {}
  BY <1>1 DEF Here, Clearing
<1> QED
  BY <1>1, <1>2 DEF Exact, OneCreates, InUse, Exactly, Fresh, Leaving, Grown,
     Creating, Clearing, Pushing, Growing, Moving

LEMMA InitCalm == Init => Calm
<1> SUFFICES ASSUME Init PROVE Calm
  OBVIOUS
<1>1. start.block = 1 /\ start.off = 0 /\ finish = start /\ end = start /\ mem[1] = <<>>
  BY PointerIs DEF Init, NoBlock
<1>2. \A t \in Thread : pc[t] = "idle"
  BY DEF Init
<1>3. Len(<<>>) = 0
  OBVIOUS
<1> QED
  BY <1>1, <1>2, <1>3 DEF Init, Calm, Apart, Whole, Intact, Keeps, Indexed, Placing, Moved,
     Comparing,
       Creating, Clearing, Pushing, Growing, Moving

RegistryInv == Typed /\ Flagged /\ (~raced => Calm) /\ (~raced /\ ~mixed => Exact)

LEMMA NextFlagged == ASSUME Flagged, Next PROVE Flagged'
<1>1. PICK t \in Thread : Step(t)
  BY DEF Next
<1>2. mixed' \in BOOLEAN /\ raced' \in BOOLEAN
  BY DEF Next, Observe, Flagged
<1>3. fault' \in BOOLEAN
  <2>1. CASE FreeOld(t)
    <3>1. fault' = (start.block \in freed \ {NoBlock})
      BY <2>1 DEF FreeOld
    <3> QED
      BY <3>1
  <2>2. CASE ~FreeOld(t)
    <3>1. fault' = fault \/ fault' = TRUE
      BY <1>1, <2>2, Zenon DEF Step, ReadSize, PushBack, Store, Bump, Grow, SetStart,
         SetFinish, SetEnd, Destroy, Compare, Clear
    <3> QED
      BY <3>1 DEF Flagged
  <2> QED
    BY <2>1, <2>2
<1> QED
  BY <1>2, <1>3 DEF Flagged

LEMMA NextCalm == ASSUME RegistryInv, Next PROVE RegistryInv'
<1>1. PICK t \in Thread : Step(t)
  BY DEF Next
<1>2. Typed' /\ Flagged'
  BY <1>1, StepTyped, NextFlagged DEF RegistryInv
<1>3. ASSUME ~raced' PROVE Calm'
  <2>1. ~raced
    BY <1>1, <1>3, StepMoves, Alone DEF RegistryInv, Next
  <2> QED
    BY <1>1, <1>3, <2>1, StepCalm DEF RegistryInv, Next
<1>4. ASSUME ~raced', ~mixed' PROVE Exact'
  <2>1. ~raced /\ ~mixed
    BY <1>1, <1>4, StepMoves, Alone, OneOnly DEF RegistryInv, Next
  <2> QED
    BY <1>1, <1>4, <2>1, StepExact DEF RegistryInv, Next
<1> QED
  BY <1>2, <1>3, <1>4 DEF RegistryInv

LEMMA RegistryInvariant == Spec => []RegistryInv
<1>1. Init => RegistryInv
  BY InitTyped, InitCalm, InitExact DEF Init, RegistryInv, Flagged
<1>2. RegistryInv /\ [Next]_vars => RegistryInv'
  <2> SUFFICES ASSUME RegistryInv, [Next]_vars PROVE RegistryInv'
    OBVIOUS
  <2>1. CASE Next
    BY <2>1, NextCalm
  <2>2. CASE UNCHANGED vars
    <3>1. Typed'
      BY <2>2 DEF RegistryInv, Typed, Blocks, New, vars, pointers, nodes
    <3>2. ASSUME ~raced PROVE Calm'
      <4>1. Calm
        BY <3>2 DEF RegistryInv
      <4>2. Apart' /\ Whole' /\ Indexed'
        BY <2>2, <4>1 DEF Calm, Apart, Whole, Intact, Keeps, Indexed, New, vars, pointers, nodes
      <4>3. \A t \in Thread : Placing(t)' /\ Comparing(t)'
        BY <2>2, <4>1 DEF Calm, Placing, Comparing, New, vars, pointers, nodes
      <4>4. \A t \in Thread : Moved(t)'
        <5> SUFFICES ASSUME NEW t \in Thread PROVE Moved(t)'
          OBVIOUS
        <5>1. Keeps(at[t].block, at[t].off) => Keeps(at[t].block, at[t].off)'
          BY <2>2 DEF Keeps, vars, pointers, nodes
        <5>2. UNCHANGED <<start, finish, mem, freed, pc, idx, at>> /\ New(t)' = New(t)
          BY <2>2 DEF New, vars, pointers, nodes
        <5> QED
          BY <4>1, <5>1, <5>2 DEF Calm, Moved, Moving, Growing
      <4> QED
        BY <2>2, <4>1, <4>2, <4>3, <4>4 DEF Calm, vars
    <3>3. ASSUME ~raced, ~mixed PROVE Exact'
      <4>1. Exact
        BY <3>3 DEF RegistryInv
      <4>2. UNCHANGED <<start, finish, mem, pc, made, idx, at, victim>> /\ Here' = Here
        BY <2>2 DEF Here, vars, pointers, nodes
      <4>3. OneCreates' /\ InUse'
        BY <4>1, <4>2 DEF Exact, OneCreates, InUse
      <4>4. \A t \in Thread : Fresh(t)' /\ Leaving(t)' /\ Grown(t)'
        BY <4>1, <4>2 DEF Exact, Fresh, Leaving, Grown, New
      <4> QED
        BY <4>3, <4>4 DEF Exact
    <3> QED
      BY <2>2, <3>1, <3>2, <3>3 DEF RegistryInv, Flagged, vars
  <2> QED
    BY <2>1, <2>2
<1> QED
  BY <1>1, <1>2, PTL DEF Spec

\* Whatever the number of threads and of their nodes, create and the destructor
\* touch no storage that is freed or out of bounds before push_backs overlap or
\* one grows the vector under another thread's access: NoFaultUnraced.
THEOREM RegistryNoFault == Spec => []NoFaultUnraced
<1>1. RegistryInv => NoFaultUnraced
  BY DEF RegistryInv, Calm, NoFaultUnraced
<1> QED
  BY <1>1, RegistryInvariant, PTL

\* No living node is missing from the registry up to such a race, through any
\* number of growths and although indices may coincide: LivingRegistered.
THEOREM RegistryKeepsLiving == Spec => []LivingRegistered
<1>1. RegistryInv => LivingRegistered
  <2> SUFFICES ASSUME RegistryInv PROVE LivingRegistered
    OBVIOUS
  <2>1. TypeOK
    BY LenMem DEF RegistryInv, TypeOK, Typed, Flagged, Blocks, Content, Label, Creating, Clearing
  <2>2. ASSUME Resting PROVE living \subseteq Registered
    <3>1. Keeps(start.block, finish.off)
      BY <2>2 DEF RegistryInv, Calm, Whole, Intact, Resting, Moving
    <3> QED
      BY <3>1 DEF Keeps, Registered
  <2> QED
    BY <2>1, <2>2 DEF LivingRegistered
<1> QED
  BY <1>1, RegistryInvariant, PTL

\* Up to such a race the destructor's second access to its slot still finds the
\* node it compared at its first, whatever ran between the two: ClearsOwnOnly.
THEOREM RegistryClearsOwn == Spec => ClearsOwnOnly
<1>1. RegistryInv => \A t \in Thread : (pc[t] = "clear" /\ ~raced) => Slot(at[t]) = victim[t]
  BY DEF RegistryInv, Calm, Comparing, Slot
<1> QED
  BY <1>1, RegistryInvariant, PTL DEF ClearsOwnOnly

\* Up to such a race and as long as no two threads create at the same time, the
\* registry is exact, whatever destructors run in between, for any number of
\* threads and through any number of growths: ExactUnmixed.
THEOREM RegistryExactUnmixed == Spec => []ExactUnmixed
<1>1. RegistryInv => ExactUnmixed
  <2> SUFFICES ASSUME RegistryInv, Resting, ~mixed
               PROVE  /\ \A n \in living : idx[n] < finish.off /\ mem[start.block][idx[n] + 1] = n
                      /\ \A n \in Registered \ (living \cup {Null}) :
                           \E t \in Thread : pc[t] \in {"compare", "clear"} /\ victim[t] = n
    BY DEF ExactUnmixed
  <2>1. Exactly(mem[start.block], finish.off, idx, Here) /\ Typed
    BY DEF RegistryInv, Resting, Exact, InUse, Moving
  <2>2. \A n \in living : n \in Here
    BY <2>1 DEF Typed, Here
  <2> QED
    BY <2>1, <2>2 DEF Exactly, Registered, Here, Clearing
<1> QED
  BY <1>1, RegistryInvariant, PTL
=============================================================================

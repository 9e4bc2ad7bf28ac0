-------------------------- MODULE KernelCountsProofs --------------------------
(***************************************************************************)
(* The two reference counts of an object are exactly the references to it, *)
(* and what can be reached is flagged in its exporter's c-list, for any    *)
(* number of vats and objects and any length of the queues.                *)
(*                                                                         *)
(* Each of the two needs the other: a vat may retire an export only if it  *)
(* is not flagged, which must mean that nobody can reach it, or its count  *)
(* would be deleted with references left; and an exporter loses a flag     *)
(* only if the count is zero.  Both must hold of the savepoint, to which   *)
(* an abort returns.                                                       *)
(***************************************************************************)
EXTENDS KernelGCProofs, FunctionTheorems

QueueHolders(kk, o) ==
  Occurrences(kk.acceptanceQueue, o) + Occurrences(kk.runQueue, o)
  + (IF o \in Vats THEN 1 ELSE 0)

Reachers(kk, o) == {v \in Vats : o \in kk.imports[v] \cap kk.reach[v]}
Recognizers(kk, o) == {v \in Vats : o \in kk.imports[v]}

\* What the counts of an object must be.
Reaches(kk, o) == Cardinality(Reachers(kk, o)) + QueueHolders(kk, o)
Recognizes(kk, o) == Cardinality(Recognizers(kk, o)) + QueueHolders(kk, o)

Exact(kk, o) ==
  IF KernelObjectExists(kk, o)
  THEN /\ kk.refCount[o].reachable = Reaches(kk, o)
       /\ kk.refCount[o].recognizable = Recognizes(kk, o)
  ELSE Reaches(kk, o) = 0

Flagged(kk, o) == kk.owner[o] # NoVat => o \in kk.reach[kk.owner[o]]

\* A flag belongs to an import or to the export of the owner.
Listed(kk, o) ==
  \A v \in Vats : o \in kk.reach[v] => o \in kk.imports[v] \/ kk.owner[o] = v

\* Every object's counts are exact, an object that is reached is flagged, and
\* an object with an owner exists.
CountsInv(kk) ==
  \A o \in Objects :
    /\ Exact(kk, o)
    /\ Reaches(kk, o) > 0 => Flagged(kk, o)
    /\ kk.owner[o] # NoVat => KernelObjectExists(kk, o)
    /\ Listed(kk, o)

\* The inductive invariant.
HoldersInv == OwnerInv /\ CountsInv(k) /\ CountsInv(saved)

-----------------------------------------------------------------------------
\* Counting the members of a queue.

\* How many members of q are in T.
Count(q, T) == Cardinality({i \in 1..Len(q) : q[i] \in T})

LEMMA IntervalIsFinite == \A n \in Nat : IsFiniteSet(1..n)
BY FS_Interval

LEMMA CountAppend ==
  ASSUME NEW q \in Seq(Message), NEW m \in Message, NEW T
  PROVE  Count(Append(q, m), T) = Count(q, T) + (IF m \in T THEN 1 ELSE 0)
<1> DEFINE n == Len(q)
           A == {i \in 1..n : q[i] \in T}
           B == {i \in 1..Len(Append(q, m)) : Append(q, m)[i] \in T}
<1>1. /\ n \in Nat /\ Len(Append(q, m)) = n + 1
      /\ \A i \in 1..n : Append(q, m)[i] = q[i]
      /\ Append(q, m)[n + 1] = m
  BY AppendProperties
<1>2. IsFiniteSet(A) /\ n + 1 \notin A
  <2>1. IsFiniteSet(1..n)
    BY <1>1, IntervalIsFinite
  <2> QED
    BY <1>1, <2>1, FS_Subset
<1>3. Cardinality(A) \in Nat /\ Cardinality(A \cup {n + 1}) = Cardinality(A) + 1
  BY <1>2, FS_CardinalityType, FS_AddElement
<1>4. \A i : i \in B <=> i \in A \/ (i = n + 1 /\ m \in T)
  BY <1>1
<1>5. Count(q, T) = Cardinality(A) /\ Count(Append(q, m), T) = Cardinality(B)
  BY DEF Count
<1> HIDE DEF A, B, n
<1>6. CASE m \in T
  <2>1. B = A \cup {n + 1}
    BY <1>4, <1>6
  <2> QED
    BY <1>3, <1>5, <1>6, <2>1
<1>7. CASE m \notin T
  <2>1. B = A
    BY <1>4, <1>7
  <2> QED
    BY <1>3, <1>5, <1>7, <2>1
<1> QED
  BY <1>6, <1>7

LEMMA CountTail ==
  ASSUME NEW q \in Seq(Message), q # <<>>, NEW T
  PROVE  Count(q, T) = Count(Tail(q), T) + (IF Head(q) \in T THEN 1 ELSE 0)
<1> DEFINE n == Len(q)
           A == {i \in 1..n : q[i] \in T}
           B == {i \in 1..Len(Tail(q)) : Tail(q)[i] \in T}
           next == [i \in B |-> i + 1]
<1>1. /\ n \in Nat /\ n > 0 /\ Len(Tail(q)) = n - 1 /\ Head(q) = q[1]
      /\ \A i \in 1..(n - 1) : Tail(q)[i] = q[i + 1]
  BY HeadTailProperties
<1>2. IsFiniteSet(A) /\ IsFiniteSet(B)
  <2>1. IsFiniteSet(1..n) /\ IsFiniteSet(1..(n - 1))
    BY <1>1, IntervalIsFinite
  <2> QED
    BY <1>1, <2>1, FS_Subset
<1>3. next \in Bijection(B, A \ {1})
  <2>1. next \in [B -> A \ {1}]
    BY <1>1
  <2>2. \A i, j \in B : next[i] = next[j] => i = j
    BY <1>1
  <2>3. \A j \in A \ {1} : \E i \in B : next[i] = j
    <3> SUFFICES ASSUME NEW j \in A \ {1}
                 PROVE  \E i \in B : next[i] = j
      OBVIOUS
    <3>1. j - 1 \in B /\ (j - 1) + 1 = j
      BY <1>1
    <3> QED
      BY <3>1
  <2> HIDE DEF next, A, B
  <2> QED
    BY <2>1, <2>2, <2>3, Fun_IsBij
<1>4. Cardinality(A \ {1}) = Cardinality(B)
  <2> HIDE DEF next, A, B
  <2>1. ExistsBijection(B, A \ {1})
    BY <1>3 DEF ExistsBijection
  <2> QED
    BY <1>2, <2>1, FS_Bijection
<1>5. /\ Cardinality(A \ {1}) = IF 1 \in A THEN Cardinality(A) - 1 ELSE Cardinality(A)
      /\ Cardinality(A) \in Nat
  BY <1>2, FS_RemoveElement, FS_CardinalityType
<1>6. 1 \in A <=> Head(q) \in T
  BY <1>1
<1>7. Count(q, T) = Cardinality(A) /\ Count(Tail(q), T) = Cardinality(B)
  BY DEF Count
<1> HIDE DEF A, B
<1> QED
  BY <1>4, <1>5, <1>6, <1>7

\* How often a message names an object.
Names(m, o) == (IF m.target = o THEN 1 ELSE 0) + (IF m.arg = o THEN 1 ELSE 0)

ByTarget(o) == {m \in Message : m.target = o}
ByArg(o) == {m \in Message : m.arg = o}

LEMMA OccurrencesAreCounts ==
  ASSUME NEW q \in Seq(Message), NEW o
  PROVE  /\ Count(q, ByTarget(o)) \in Nat /\ Count(q, ByArg(o)) \in Nat
         /\ Occurrences(q, o) = Count(q, ByTarget(o)) + Count(q, ByArg(o))
         /\ Occurrences(q, o) \in Nat
<1>1. IsFiniteSet(1..Len(q))
  BY FS_Interval
<1>2. /\ {i \in 1..Len(q) : q[i].target = o} = {i \in 1..Len(q) : q[i] \in ByTarget(o)}
      /\ {i \in 1..Len(q) : q[i].arg = o} = {i \in 1..Len(q) : q[i] \in ByArg(o)}
  BY DEF ByTarget, ByArg
<1>3. Count(q, ByTarget(o)) \in Nat /\ Count(q, ByArg(o)) \in Nat
  BY <1>1, FS_Subset, FS_CardinalityType DEF Count
<1>4. Occurrences(q, o) = Count(q, ByTarget(o)) + Count(q, ByArg(o))
  BY <1>2 DEF Occurrences, Count
<1> QED
  BY <1>3, <1>4

LEMMA NamesCounts ==
  ASSUME NEW m \in Message, NEW o
  PROVE  /\ Names(m, o) = (IF m \in ByTarget(o) THEN 1 ELSE 0)
                          + (IF m \in ByArg(o) THEN 1 ELSE 0)
         /\ Names(m, o) \in Nat
BY DEF Names, ByTarget, ByArg

LEMMA OccurrencesAppend ==
  ASSUME NEW q \in Seq(Message), NEW m \in Message, NEW o
  PROVE  Occurrences(Append(q, m), o) = Occurrences(q, o) + Names(m, o)
<1>1. Append(q, m) \in Seq(Message)
  OBVIOUS
<1>2. /\ Count(Append(q, m), ByTarget(o)) =
           Count(q, ByTarget(o)) + (IF m \in ByTarget(o) THEN 1 ELSE 0)
      /\ Count(Append(q, m), ByArg(o)) =
           Count(q, ByArg(o)) + (IF m \in ByArg(o) THEN 1 ELSE 0)
  BY CountAppend
<1>3. /\ Occurrences(q, o) = Count(q, ByTarget(o)) + Count(q, ByArg(o))
      /\ Occurrences(Append(q, m), o) = Count(Append(q, m), ByTarget(o)) + Count(Append(q, m), ByArg(o))
      /\ Count(q, ByTarget(o)) \in Nat /\ Count(q, ByArg(o)) \in Nat
      /\ Count(Append(q, m), ByTarget(o)) \in Nat /\ Count(Append(q, m), ByArg(o)) \in Nat
  BY <1>1, OccurrencesAreCounts
<1>4. Names(m, o) = (IF m \in ByTarget(o) THEN 1 ELSE 0)
                         + (IF m \in ByArg(o) THEN 1 ELSE 0)
  BY <1>1, NamesCounts
<1> QED
  BY <1>2, <1>3, <1>4

LEMMA OccurrencesTail ==
  ASSUME NEW q \in Seq(Message), q # <<>>, NEW o
  PROVE  Occurrences(q, o) = Occurrences(Tail(q), o) + Names(Head(q), o)
<1>1. Tail(q) \in Seq(Message) /\ Head(q) \in Message
  BY HeadTailProperties
<1>2. /\ Count(q, ByTarget(o)) =
           Count(Tail(q), ByTarget(o)) + (IF Head(q) \in ByTarget(o) THEN 1 ELSE 0)
      /\ Count(q, ByArg(o)) =
           Count(Tail(q), ByArg(o)) + (IF Head(q) \in ByArg(o) THEN 1 ELSE 0)
  BY CountTail
<1>3. /\ Occurrences(q, o) = Count(q, ByTarget(o)) + Count(q, ByArg(o))
      /\ Occurrences(Tail(q), o) = Count(Tail(q), ByTarget(o)) + Count(Tail(q), ByArg(o))
      /\ Count(q, ByTarget(o)) \in Nat /\ Count(q, ByArg(o)) \in Nat
      /\ Count(Tail(q), ByTarget(o)) \in Nat /\ Count(Tail(q), ByArg(o)) \in Nat
  BY <1>1, OccurrencesAreCounts
<1>4. Names(Head(q), o) = (IF Head(q) \in ByTarget(o) THEN 1 ELSE 0)
                         + (IF Head(q) \in ByArg(o) THEN 1 ELSE 0)
  BY <1>1, NamesCounts
<1> QED
  BY <1>2, <1>3, <1>4

-----------------------------------------------------------------------------
\* Counting the vats.

LEMMA VatSets ==
  \A A \in SUBSET Vats : IsFiniteSet(A) /\ Cardinality(A) \in Nat
<1>1. SUBSET Vats \subseteq SUBSET Objects
  BY ConstantsType
<1> QED
  BY <1>1, ConstantsType

\* Two sets of vats that agree but for v.
LEMMA OneVat ==
  ASSUME NEW A \in SUBSET Vats, NEW B \in SUBSET Vats, NEW v \in Vats,
         \A w \in Vats \ {v} : w \in A <=> w \in B
  PROVE  Cardinality(B) = Cardinality(A) + (IF v \in B THEN 1 ELSE 0)
                                         - (IF v \in A THEN 1 ELSE 0)
<1> DEFINE C == A \ {v}
<1>1. IsFiniteSet(C) /\ Cardinality(C) \in Nat /\ v \notin C
  BY VatSets
<1>3. Cardinality(C \cup {v}) = Cardinality(C) + 1
  BY <1>1, FS_AddElement
<1>4. ASSUME NEW D \in {A, B}
      PROVE  Cardinality(D) = Cardinality(C) + (IF v \in D THEN 1 ELSE 0)
  <2>1. CASE v \in D
    <3>1. D = C \cup {v}
      BY <2>1
    <3> QED
      BY <1>3, <2>1, <3>1
  <2>2. CASE v \notin D
    <3>1. D = C
      BY <2>2
    <3> QED
      BY <1>1, <2>2, <3>1
  <2> QED
    BY <2>1, <2>2
<1> HIDE DEF C
<1> QED
  BY <1>1, <1>4

-----------------------------------------------------------------------------
\* The references to an object.

LEMMA ReferencesType ==
  ASSUME NEW kk \in KernelState, NEW o \in Objects
  PROVE  /\ QueueHolders(kk, o) \in Nat
         /\ Reaches(kk, o) \in Nat /\ Recognizes(kk, o) \in Nat
         /\ Reaches(kk, o) <= Recognizes(kk, o)
         /\ QueueHolders(kk, o) <= Reaches(kk, o)
         /\ Reaches(kk, o) = 0 <=> QueueHolders(kk, o) = 0 /\ Reachers(kk, o) = {}
         /\ Recognizes(kk, o) = 0 => Recognizers(kk, o) = {}
<1>1. /\ Occurrences(kk.acceptanceQueue, o) \in Nat
      /\ Occurrences(kk.runQueue, o) \in Nat
  BY OccurrencesAreCounts DEF KernelState
<1>2. QueueHolders(kk, o) \in Nat
  BY <1>1 DEF QueueHolders
<1>3. Reachers(kk, o) \in SUBSET Recognizers(kk, o) /\ Recognizers(kk, o) \in SUBSET Vats
  BY DEF Reachers, Recognizers
<1>4. /\ Cardinality(Reachers(kk, o)) \in Nat /\ Cardinality(Recognizers(kk, o)) \in Nat
      /\ Cardinality(Reachers(kk, o)) = 0 <=> Reachers(kk, o) = {}
      /\ Cardinality(Recognizers(kk, o)) = 0 <=> Recognizers(kk, o) = {}
  BY <1>3, VatSets, FS_EmptySet
<1>5. Cardinality(Reachers(kk, o)) <= Cardinality(Recognizers(kk, o))
  BY <1>3, VatSets, FS_Subset
<1> QED
  BY <1>2, <1>4, <1>5 DEF Reaches, Recognizes

\* What the entry of v adds to the references.
ReachBit(kk, v, o) == IF o \in kk.imports[v] \cap kk.reach[v] THEN 1 ELSE 0
RecogBit(kk, v, o) == IF o \in kk.imports[v] THEN 1 ELSE 0

SameQueues(kk, kl) ==
  kl.acceptanceQueue = kk.acceptanceQueue /\ kl.runQueue = kk.runQueue

\* Only one c-list has changed.
OnlyCList(kk, kl, v) ==
  /\ SameQueues(kk, kl)
  /\ \A w \in Vats \ {v} : kl.imports[w] = kk.imports[w] /\ kl.reach[w] = kk.reach[w]

Shifted(kk, kl, v, o) ==
  /\ Reaches(kl, o) = Reaches(kk, o) + ReachBit(kl, v, o) - ReachBit(kk, v, o)
  /\ Recognizes(kl, o) = Recognizes(kk, o) + RecogBit(kl, v, o) - RecogBit(kk, v, o)

LEMMA OneCList ==
  ASSUME NEW kk \in KernelState, NEW kl \in KernelState, NEW v \in Vats,
         OnlyCList(kk, kl, v), NEW o \in Objects
  PROVE  Shifted(kk, kl, v, o)
<1>1. QueueHolders(kl, o) = QueueHolders(kk, o) /\ QueueHolders(kk, o) \in Nat
  BY ReferencesType DEF QueueHolders, OnlyCList, SameQueues
<1>2. /\ Reachers(kk, o) \in SUBSET Vats /\ Reachers(kl, o) \in SUBSET Vats
      /\ \A w \in Vats \ {v} : w \in Reachers(kk, o) <=> w \in Reachers(kl, o)
      /\ v \in Reachers(kk, o) <=> o \in kk.imports[v] \cap kk.reach[v]
      /\ v \in Reachers(kl, o) <=> o \in kl.imports[v] \cap kl.reach[v]
  BY DEF Reachers, OnlyCList
<1>3. Cardinality(Reachers(kl, o)) =
        Cardinality(Reachers(kk, o)) + (IF v \in Reachers(kl, o) THEN 1 ELSE 0)
                                     - (IF v \in Reachers(kk, o) THEN 1 ELSE 0)
  BY <1>2, OneVat
<1>4. /\ Recognizers(kk, o) \in SUBSET Vats /\ Recognizers(kl, o) \in SUBSET Vats
      /\ \A w \in Vats \ {v} : w \in Recognizers(kk, o) <=> w \in Recognizers(kl, o)
      /\ v \in Recognizers(kk, o) <=> o \in kk.imports[v]
      /\ v \in Recognizers(kl, o) <=> o \in kl.imports[v]
  BY DEF Recognizers, OnlyCList
<1>5. Cardinality(Recognizers(kl, o)) =
        Cardinality(Recognizers(kk, o)) + (IF v \in Recognizers(kl, o) THEN 1 ELSE 0)
                                        - (IF v \in Recognizers(kk, o) THEN 1 ELSE 0)
  BY <1>4, OneVat
<1>6. /\ Cardinality(Reachers(kk, o)) \in Nat /\ Cardinality(Reachers(kl, o)) \in Nat
      /\ Cardinality(Recognizers(kk, o)) \in Nat /\ Cardinality(Recognizers(kl, o)) \in Nat
  BY <1>2, <1>4, VatSets
<1>7. /\ ReachBit(kl, v, o) = (IF v \in Reachers(kl, o) THEN 1 ELSE 0)
      /\ ReachBit(kk, v, o) = (IF v \in Reachers(kk, o) THEN 1 ELSE 0)
      /\ RecogBit(kl, v, o) = (IF v \in Recognizers(kl, o) THEN 1 ELSE 0)
      /\ RecogBit(kk, v, o) = (IF v \in Recognizers(kk, o) THEN 1 ELSE 0)
  BY <1>2, <1>4 DEF ReachBit, RecogBit
<1>8. /\ Reaches(kl, o) = Cardinality(Reachers(kl, o)) + QueueHolders(kl, o)
      /\ Reaches(kk, o) = Cardinality(Reachers(kk, o)) + QueueHolders(kk, o)
      /\ Recognizes(kl, o) = Cardinality(Recognizers(kl, o)) + QueueHolders(kl, o)
      /\ Recognizes(kk, o) = Cardinality(Recognizers(kk, o)) + QueueHolders(kk, o)
  BY DEF Reaches, Recognizes
<1> QED
  BY <1>1, <1>3, <1>5, <1>6, <1>7, <1>8 DEF Shifted

\* Only the queues have changed: n more references.
LEMMA OneMessage ==
  ASSUME NEW kk \in KernelState, NEW kl \in KernelState, NEW o \in Objects, NEW n \in Int,
         kl.imports = kk.imports, kl.reach = kk.reach,
         QueueHolders(kl, o) = QueueHolders(kk, o) + n
  PROVE  Reaches(kl, o) = Reaches(kk, o) + n /\ Recognizes(kl, o) = Recognizes(kk, o) + n
<1>1. Reachers(kl, o) = Reachers(kk, o) /\ Recognizers(kl, o) = Recognizers(kk, o)
  BY DEF Reachers, Recognizers
<1>2. Reachers(kk, o) \in SUBSET Vats /\ Recognizers(kk, o) \in SUBSET Vats
  BY DEF Reachers, Recognizers
<1>3. Cardinality(Reachers(kk, o)) \in Nat /\ Cardinality(Recognizers(kk, o)) \in Nat
  BY <1>2, VatSets
<1>4. QueueHolders(kk, o) \in Nat
  BY ReferencesType
<1>5. /\ Reaches(kl, o) = Cardinality(Reachers(kk, o)) + QueueHolders(kl, o)
      /\ Reaches(kk, o) = Cardinality(Reachers(kk, o)) + QueueHolders(kk, o)
      /\ Recognizes(kl, o) = Cardinality(Recognizers(kk, o)) + QueueHolders(kl, o)
      /\ Recognizes(kk, o) = Cardinality(Recognizers(kk, o)) + QueueHolders(kk, o)
  BY <1>1 DEF Reaches, Recognizes
<1> QED
  BY <1>3, <1>4, <1>5

\* What is neither a count, a flag nor a candidate of processRefcounts.
Rest(kk, kl) ==
  /\ SameTable(kk, kl)
  /\ kl.liveIDs = kk.liveIDs /\ kl.initialized = kk.initialized
  /\ kl.terminated = kk.terminated /\ kl.terminatedVats = kk.terminatedVats
  /\ kl.vatKeepers = kk.vatKeepers /\ kl.failed = kk.failed

-----------------------------------------------------------------------------
\* What the operators of KernelObjects do to the counts.

\* The counts of o change by dReach and dRecog.
Counted(kk, kl, o, dReach, dRecog) ==
  /\ KernelObjectExists(kl, o)
  /\ kl.refCount[o].reachable = kk.refCount[o].reachable + dReach
  /\ kl.refCount[o].recognizable = kk.refCount[o].recognizable + dRecog

MayCount(kk, S, dReach, dRecog) ==
  \A o \in S : /\ 0 <= kk.refCount[o].reachable + dReach
               /\ kk.refCount[o].reachable + dReach <= kk.refCount[o].recognizable + dRecog

Recounted(kk, kl, S, dReach, dRecog) ==
  /\ kl \in KernelState /\ Rest(kk, kl)
  /\ kl.reach = kk.reach /\ kl.maybeFree = kk.maybeFree
  /\ \A o \in S : Counted(kk, kl, o, dReach, dRecog)
  /\ \A o \in Objects \ S : kl.refCount[o] = kk.refCount[o]

LEMMA SetObjectRefCountsEffect ==
  ASSUME NEW kk \in KernelState, NEW S \in SUBSET Objects,
         NEW dReach \in Int, NEW dRecog \in Int, MayCount(kk, S, dReach, dRecog),
         NEW kl, kl = SetObjectRefCounts(kk, S, dReach, dRecog)
  PROVE  Recounted(kk, kl, S, dReach, dRecog)
<1> DEFINE rc == [o \in Objects |->
                    IF o \in S
                    THEN [exists |-> TRUE,
                          reachable |-> kk.refCount[o].reachable + dReach,
                          recognizable |-> kk.refCount[o].recognizable + dRecog]
                    ELSE kk.refCount[o]]
<1>1. kl = [kk EXCEPT !.refCount = rc]
  BY DEF SetObjectRefCounts, MayCount
<1>2. kl \in KernelState
  BY SetObjectRefCountsType
<1>3. /\ \A o \in S : rc[o] = [exists |-> TRUE,
                               reachable |-> kk.refCount[o].reachable + dReach,
                               recognizable |-> kk.refCount[o].recognizable + dRecog]
      /\ \A o \in Objects \ S : rc[o] = kk.refCount[o]
  OBVIOUS
<1> HIDE DEF rc
<1>4. /\ Rest(kk, kl) /\ kl.refCount = rc
      /\ kl.reach = kk.reach /\ kl.maybeFree = kk.maybeFree
  BY <1>1 DEF KernelState, Rest, SameTable
<1>5. ASSUME NEW o \in S
      PROVE  Counted(kk, kl, o, dReach, dRecog)
  <2>1. kl.refCount[o] = [exists |-> TRUE,
                          reachable |-> kk.refCount[o].reachable + dReach,
                          recognizable |-> kk.refCount[o].recognizable + dRecog]
    BY <1>3, <1>4
  <2>2. /\ kl.refCount[o].exists
        /\ kl.refCount[o].reachable = kk.refCount[o].reachable + dReach
        /\ kl.refCount[o].recognizable = kk.refCount[o].recognizable + dRecog
    BY ONLY <2>1
  <2> QED
    BY <2>2 DEF Counted, KernelObjectExists
<1>6. ASSUME NEW o \in Objects \ S
      PROVE  kl.refCount[o] = kk.refCount[o]
  BY <1>3, <1>4
<1> QED
  BY <1>2, <1>4, <1>5, <1>6 DEF Recounted

\* The objects of S that exist lose dReach and one reference, and become
\* candidates for collection if it was the last.
Released(kk, kl, S, dReach) ==
  /\ kl \in KernelState /\ Rest(kk, kl)
  /\ \A o \in Objects :
       IF o \in S /\ KernelObjectExists(kk, o)
       THEN /\ Counted(kk, kl, o, -dReach, -1)
            /\ o \in kl.maybeFree <=>
                 \/ o \in kk.maybeFree
                 \/ kl.refCount[o].reachable = 0 \/ kl.refCount[o].recognizable = 0
       ELSE /\ kl.refCount[o] = kk.refCount[o]
            /\ o \in kl.maybeFree <=> o \in kk.maybeFree

LEMMA DecrementRefCountsEffect ==
  ASSUME NEW kk \in KernelState, NEW S \in SUBSET Objects, NEW dReach \in {0, 1},
         \A o \in S : KernelObjectExists(kk, o) =>
           /\ kk.refCount[o].reachable >= dReach
           /\ kk.refCount[o].recognizable - 1 >= kk.refCount[o].reachable - dReach,
         NEW kl, kl = DecrementRefCounts(kk, S, dReach)
  PROVE  Released(kk, kl, S, dReach) /\ kl.reach = kk.reach
<1> DEFINE known == {o \in S : KernelObjectExists(kk, o)}
           lost == -dReach
           one == -1
           after == SetObjectRefCounts(kk, known, lost, one)
           zero  == {o \in known : \/ after.refCount[o].reachable = 0
                                   \/ after.refCount[o].recognizable = 0}
<1>1. known \in SUBSET Objects /\ \A o : o \in known <=> o \in S /\ KernelObjectExists(kk, o)
  OBVIOUS
<1>2. MayCount(kk, known, lost, one)
  <2> SUFFICES ASSUME NEW o \in known
               PROVE  /\ 0 <= kk.refCount[o].reachable + lost
                      /\ kk.refCount[o].reachable + lost
                            <= kk.refCount[o].recognizable + one
    BY DEF MayCount
  <2>1. kk.refCount[o].reachable \in Nat /\ kk.refCount[o].recognizable \in Nat
    BY DEF KernelState, RefCount
  <2> QED
    BY <2>1
<1>3. kl = [after EXCEPT !.maybeFree = @ \cup zero]
  BY DEF DecrementRefCounts
<1>4. lost \in Int /\ one \in Int
  OBVIOUS
<1>5. \A o : o \in zero <=> /\ o \in known
                            /\ \/ after.refCount[o].reachable = 0
                               \/ after.refCount[o].recognizable = 0
  OBVIOUS
<1> HIDE DEF known, zero, lost, one
<1>6. Recounted(kk, after, known, lost, one)
  BY <1>1, <1>2, <1>4, SetObjectRefCountsEffect
<1>7. kl \in KernelState
  BY DecrementRefCountsType
<1> HIDE DEF after
<1>8. /\ Rest(kk, kl) /\ kl.refCount = after.refCount /\ kl.reach = kk.reach
      /\ kl.maybeFree = kk.maybeFree \cup zero
  BY <1>3, <1>6 DEF Recounted, KernelState, Rest, SameTable
<1> USE DEF lost, one
<1>9. ASSUME NEW o \in Objects, o \in known
      PROVE  /\ Counted(kk, kl, o, -dReach, -1)
             /\ o \in kl.maybeFree <=>
                  \/ o \in kk.maybeFree
                  \/ kl.refCount[o].reachable = 0 \/ kl.refCount[o].recognizable = 0
  BY <1>5, <1>6, <1>8, <1>9 DEF Recounted, Counted, KernelObjectExists
<1>10. ASSUME NEW o \in Objects, o \notin known
       PROVE  /\ kl.refCount[o] = kk.refCount[o]
              /\ o \in kl.maybeFree <=> o \in kk.maybeFree
  BY <1>5, <1>6, <1>8, <1>10 DEF Recounted
<1> QED
  BY <1>1, <1>7, <1>8, <1>9, <1>10 DEF Released

\* The flags of S are gone from the c-list of v, and what v imported and
\* reached has one reference less.
Cleared(kk, kl, v, S) ==
  /\ kl \in KernelState /\ Rest(kk, kl)
  /\ kl.reach = [kk.reach EXCEPT ![v] = @ \ S]
  /\ \A o \in Objects :
       IF o \in S /\ ReachBit(kk, v, o) = 1 /\ KernelObjectExists(kk, o)
       THEN /\ Counted(kk, kl, o, -1, 0)
            /\ o \in kl.maybeFree <=> o \in kk.maybeFree \/ kl.refCount[o].reachable = 0
       ELSE /\ kl.refCount[o] = kk.refCount[o]
            /\ o \in kl.maybeFree <=> o \in kk.maybeFree

LEMMA ClearReachableFlagsEffect ==
  ASSUME NEW kk \in KernelState, NEW v \in Vats, NEW S \in SUBSET Objects,
         \A o \in Objects : Exact(kk, o),
         NEW kl, kl = ClearReachableFlags(kk, v, S)
  PROVE  Cleared(kk, kl, v, S)
<1> DEFINE counted == {o \in S \cap kk.imports[v] \cap kk.reach[v] : KernelObjectExists(kk, o)}
           flagged == [kk EXCEPT !.reach[v] = @ \ S]
           one == -1
           after == SetObjectRefCounts(flagged, counted, one, 0)
           zero == {o \in counted : after.refCount[o].reachable = 0}
<1>1. /\ flagged \in KernelState /\ Rest(kk, flagged)
      /\ flagged.refCount = kk.refCount /\ flagged.maybeFree = kk.maybeFree
      /\ flagged.reach = [kk.reach EXCEPT ![v] = @ \ S]
  BY DEF KernelState, Rest, SameTable
<1>2. /\ counted \in SUBSET Objects /\ one \in Int
      /\ \A o \in Objects : o \in counted <=>
           o \in S /\ ReachBit(kk, v, o) = 1 /\ KernelObjectExists(kk, o)
  BY DEF ReachBit
<1>3. kl = [after EXCEPT !.maybeFree = @ \cup zero]
  BY DEF ClearReachableFlags
<1>4. \A o : o \in zero <=> o \in counted /\ after.refCount[o].reachable = 0
  OBVIOUS
<1> HIDE DEF counted, flagged, zero
<1>5. MayCount(flagged, counted, one, 0)
  <2> SUFFICES ASSUME NEW o \in counted
               PROVE  /\ 0 <= kk.refCount[o].reachable + one
                      /\ kk.refCount[o].reachable + one <= kk.refCount[o].recognizable + 0
    BY <1>1 DEF MayCount
  <2>1. o \in Objects /\ KernelObjectExists(kk, o) /\ ReachBit(kk, v, o) = 1
    BY <1>2
  <2>2. v \in Reachers(kk, o)
    BY <2>1 DEF ReachBit, Reachers
  <2>3. /\ Reaches(kk, o) \in Nat /\ Recognizes(kk, o) \in Nat
        /\ Reaches(kk, o) # 0 /\ Reaches(kk, o) <= Recognizes(kk, o)
    BY <2>1, <2>2, ReferencesType
  <2>4. /\ kk.refCount[o].reachable = Reaches(kk, o)
        /\ kk.refCount[o].recognizable = Recognizes(kk, o)
    BY <2>1 DEF Exact
  <2> QED
    BY <2>3, <2>4
<1> HIDE DEF one
<1>6. Recounted(flagged, after, counted, one, 0)
  BY <1>1, <1>2, <1>5, SetObjectRefCountsEffect
<1>7. kl \in KernelState
  BY ClearReachableFlagsType
<1> HIDE DEF after
<1>8. /\ Rest(flagged, kl) /\ kl.refCount = after.refCount /\ kl.reach = flagged.reach
      /\ kl.maybeFree = kk.maybeFree \cup zero
  BY <1>1, <1>3, <1>6 DEF Recounted, KernelState, Rest, SameTable
<1>9. Rest(kk, kl)
  BY <1>1, <1>8 DEF Rest, SameTable
<1> USE DEF one
<1>10. ASSUME NEW o \in Objects, o \in counted
       PROVE  /\ Counted(kk, kl, o, -1, 0)
              /\ o \in kl.maybeFree <=> o \in kk.maybeFree \/ kl.refCount[o].reachable = 0
  BY <1>1, <1>4, <1>6, <1>8, <1>10 DEF Recounted, Counted, KernelObjectExists
<1>11. ASSUME NEW o \in Objects, o \notin counted
       PROVE  /\ kl.refCount[o] = kk.refCount[o]
              /\ o \in kl.maybeFree <=> o \in kk.maybeFree
  BY <1>1, <1>4, <1>6, <1>8, <1>11 DEF Recounted
<1> QED
  BY <1>1, <1>2, <1>7, <1>8, <1>9, <1>10, <1>11 DEF Cleared

-----------------------------------------------------------------------------
\* What every operation keeps.

\* An object nobody holds, and which no collection at the end of the crank
\* will look at.
Unheld(kk, o) ==
  KernelObjectExists(kk, o) /\ Reaches(kk, o) = 0 /\ o \notin kk.maybeFree

\* What is unheld was unheld before, with the same owner, no flag and no
\* importer more.
ObjectFollows(kk, kl, o) ==
  Unheld(kl, o) =>
    /\ Unheld(kk, o) /\ kl.owner[o] = kk.owner[o]
    /\ kk.owner[o] # NoVat /\ o \in kl.reach[kk.owner[o]] => o \in kk.reach[kk.owner[o]]
    /\ Recognizes(kl, o) = 0 => Recognizes(kk, o) = 0

\* A vat that is no longer live is on the list of terminated ones, in RAM
\* as in the database; only the vat that runs gets to own what it did not;
\* and no assertion has failed.
VatsFollow(kk, kl) ==
  /\ kl.liveIDs \subseteq kk.liveIDs
  /\ kk.liveIDs \subseteq kl.liveIDs \cup Elements(kl.terminatedVats)
  /\ Elements(kk.terminatedVats) \subseteq Elements(kl.terminatedVats)
  /\ kk.terminated = kk.terminatedVats => kl.terminated = kl.terminatedVats
  /\ kl.initialized = kk.initialized
  /\ \A o \in Objects : kl.owner[o] \in {kk.owner[o], NoVat, crank.vat}
  /\ kk.liveIDs \subseteq kk.initialized => kl.failed = kk.failed

\* So it is but for the objects of X; actions and ends of vats add up, and
\* live vats have imports of deleted objects that they had, or are told of.
Follows(kk, kl, X) ==
  /\ kk.gcActions \subseteq kl.gcActions
  /\ VatsFollow(kk, kl)
  /\ \A o \in Objects \ X : ObjectFollows(kk, kl, o)
  /\ \A v \in kl.liveIDs : \A o \in kl.imports[v] :
       ~KernelObjectExists(kl, o) =>
         \/ o \in kk.imports[v] /\ ~KernelObjectExists(kk, o)
         \/ [vat |-> v, type |-> "retireImport", kref |-> o] \in kl.gcActions

KeepsBut(kk, kl, X) == kl \in KernelState /\ CountsInv(kl) /\ Follows(kk, kl, X)
KeepsCounts(kk, kl) == KeepsBut(kk, kl, {})

LEMMA KeepsButTransitive ==
  ASSUME NEW kk, NEW kl, NEW km, NEW X, NEW Y, NEW Z,
         KeepsBut(kk, kl, X), KeepsBut(kl, km, Y),
         \A o \in X \cup Y : o \in Z \/ ~Unheld(km, o)
  PROVE  KeepsBut(kk, km, Z)
<1>1. ASSUME NEW o \in Objects \ Z
      PROVE  ObjectFollows(kk, km, o)
  <2> SUFFICES ASSUME Unheld(km, o)
               PROVE  ObjectFollows(kk, km, o)
    BY DEF ObjectFollows
  <2>1. o \notin X /\ o \notin Y
    OBVIOUS
  <2>2. ObjectFollows(kl, km, o) /\ ObjectFollows(kk, kl, o)
    BY <2>1 DEF KeepsBut, Follows
  <2> QED
    BY <2>2 DEF ObjectFollows
<1>2. ASSUME NEW v \in km.liveIDs, NEW o \in km.imports[v], ~KernelObjectExists(km, o)
      PROVE  \/ o \in kk.imports[v] /\ ~KernelObjectExists(kk, o)
             \/ [vat |-> v, type |-> "retireImport", kref |-> o] \in km.gcActions
  BY <1>2 DEF KeepsBut, Follows, VatsFollow
<1>3. kk.gcActions \subseteq km.gcActions /\ VatsFollow(kk, km)
  BY DEF KeepsBut, Follows, VatsFollow
<1> QED
  BY <1>1, <1>2, <1>3 DEF KeepsBut, Follows

LEMMA KeepsCountsTransitive ==
  ASSUME NEW kk, NEW kl, NEW km, KeepsCounts(kk, kl), KeepsCounts(kl, km)
  PROVE  KeepsCounts(kk, km)
BY KeepsButTransitive DEF KeepsCounts

LEMMA KeepsCountsReflexive ==
  ASSUME NEW kk \in KernelState, CountsInv(kk)
  PROVE  KeepsCounts(kk, kk)
BY DEF KeepsCounts, KeepsBut, Follows, VatsFollow, ObjectFollows

\* The owners and the lists stay, and what is imported anew exists.
Alike(kk, kl) ==
  /\ kl.owner = kk.owner /\ kl.gcActions = kk.gcActions
  /\ kl.liveIDs = kk.liveIDs /\ kl.initialized = kk.initialized
  /\ kl.terminated = kk.terminated /\ kl.terminatedVats = kk.terminatedVats
  /\ kl.failed = kk.failed
  /\ \A v \in Vats : \A o \in kl.imports[v] : o \in kk.imports[v] \/ KernelObjectExists(kl, o)

LEMMA RestIsAlike ==
  ASSUME NEW kk, NEW kl, Rest(kk, kl)
  PROVE  Alike(kk, kl)
BY DEF Rest, SameTable, Alike

\* Then what is left to show is about the counts of one object.
ObjectCounts(kk, kl, o) ==
  /\ Exact(kl, o) /\ Listed(kl, o)
  /\ Reaches(kl, o) > 0 => Flagged(kl, o)
  /\ KernelObjectExists(kl, o) = KernelObjectExists(kk, o)

ObjectKeepsCounts(kk, kl, o) ==
  /\ ObjectCounts(kk, kl, o)
  /\ Unheld(kl, o) =>
       /\ Unheld(kk, o)
       /\ kk.owner[o] # NoVat /\ o \in kl.reach[kk.owner[o]] => o \in kk.reach[kk.owner[o]]
       /\ Recognizes(kl, o) = 0 => Recognizes(kk, o) = 0

LEMMA AlikeKeepsBut ==
  ASSUME NEW kk \in KernelState, NEW kl \in KernelState, Alike(kk, kl), CountsInv(kk),
         NEW X,
         \A o \in Objects : ObjectCounts(kk, kl, o),
         \A o \in Objects \ X : ObjectKeepsCounts(kk, kl, o)
  PROVE  KeepsBut(kk, kl, X)
<1>1. CountsInv(kl)
  BY DEF CountsInv, Alike, ObjectCounts
<1>2. \A v \in kl.liveIDs : \A o \in kl.imports[v] :
        ~KernelObjectExists(kl, o) => o \in kk.imports[v] /\ ~KernelObjectExists(kk, o)
  BY DEF Alike, KernelState, ObjectCounts
<1>3. \A o \in Objects \ X : ObjectFollows(kk, kl, o)
  BY DEF Alike, ObjectKeepsCounts, ObjectFollows
<1>4. Follows(kk, kl, X)
  BY <1>2, <1>3 DEF Follows, VatsFollow, Alike
<1> QED
  BY <1>1, <1>4 DEF KeepsBut

LEMMA AlikeKeepsCounts ==
  ASSUME NEW kk \in KernelState, NEW kl \in KernelState, Alike(kk, kl), CountsInv(kk),
         \A o \in Objects : ObjectKeepsCounts(kk, kl, o)
  PROVE  KeepsCounts(kk, kl)
BY AlikeKeepsBut DEF ObjectKeepsCounts, KeepsCounts

LEMMA ClearReachableFlagsCounts ==
  ASSUME NEW kk \in KernelState, CountsInv(kk), NEW v \in Vats, NEW S \in SUBSET Objects,
         \A o \in S : kk.owner[o] = v => Reaches(kk, o) = 0,
         NEW kl, kl = ClearReachableFlags(kk, v, S)
  PROVE  KeepsCounts(kk, kl)
<1>1. Cleared(kk, kl, v, S)
  BY ClearReachableFlagsEffect DEF CountsInv
<1>2. kl \in KernelState /\ Rest(kk, kl) /\ kl.reach = [kk.reach EXCEPT ![v] = @ \ S]
  BY <1>1 DEF Cleared
<1>3. /\ kl.imports = kk.imports /\ kl.owner = kk.owner
      /\ \A w \in Vats \ {v} : kl.reach[w] = kk.reach[w]
      /\ kl.reach[v] = kk.reach[v] \ S
      /\ OnlyCList(kk, kl, v)
  BY <1>2 DEF Rest, SameTable, OnlyCList, SameQueues, KernelState
<1>4. ASSUME NEW o \in Objects
      PROVE  ObjectKeepsCounts(kk, kl, o)
  <2>1. /\ Exact(kk, o) /\ Listed(kk, o) /\ (Reaches(kk, o) > 0 => Flagged(kk, o))
        /\ Reaches(kk, o) \in Nat /\ Recognizes(kk, o) \in Nat
        /\ Reaches(kl, o) \in Nat /\ Recognizes(kl, o) \in Nat
        /\ kk.owner[o] \in Vats \cup {NoVat}
    BY <1>2, ReferencesType DEF CountsInv, KernelState
  <2>2. Shifted(kk, kl, v, o)
    BY <1>2, <1>3, OneCList
  <2>3. RecogBit(kl, v, o) = RecogBit(kk, v, o) /\ RecogBit(kk, v, o) \in {0, 1}
    BY <1>3 DEF RecogBit
  <2>4. Recognizes(kl, o) = Recognizes(kk, o)
    BY <2>1, <2>2, <2>3 DEF Shifted
  <2>7. Listed(kl, o)
    BY <1>3, <2>1 DEF Listed
  <2>5. CASE o \in S /\ ReachBit(kk, v, o) = 1
    <3>1. ReachBit(kl, v, o) = 0
      BY <1>3, <2>5 DEF ReachBit
    <3>2. Reaches(kl, o) = Reaches(kk, o) - 1
      BY <2>1, <2>2, <2>5, <3>1 DEF Shifted
    <3>3. Reaches(kk, o) > 0 /\ kk.owner[o] # v
      BY <2>1, <2>5, <3>2
    <3>4. KernelObjectExists(kk, o) /\ Flagged(kk, o)
      BY <2>1, <3>3 DEF Exact
    <3>5. /\ Counted(kk, kl, o, -1, 0)
          /\ o \in kl.maybeFree <=> o \in kk.maybeFree \/ kl.refCount[o].reachable = 0
      BY <1>1, <2>5, <3>4 DEF Cleared
    <3>6. /\ KernelObjectExists(kl, o)
          /\ kl.refCount[o].reachable = Reaches(kl, o)
          /\ kl.refCount[o].recognizable = Recognizes(kl, o)
      BY <2>1, <2>4, <3>2, <3>4, <3>5 DEF Exact, Counted
    <3>7. Flagged(kl, o)
      BY <1>3, <2>1, <3>3, <3>4 DEF Flagged
    <3> QED
      BY <2>7, <3>4, <3>5, <3>6, <3>7 DEF ObjectKeepsCounts, ObjectCounts, Exact, Unheld, KernelObjectExists, KernelState, RefCount
  <2>6. CASE ~(o \in S /\ ReachBit(kk, v, o) = 1)
    <3>1. ReachBit(kl, v, o) = ReachBit(kk, v, o) /\ ReachBit(kk, v, o) \in {0, 1}
      BY <1>3, <2>6 DEF ReachBit
    <3>2. Reaches(kl, o) = Reaches(kk, o)
      BY <2>1, <2>2, <3>1 DEF Shifted
    <3>3. kl.refCount[o] = kk.refCount[o] /\ (o \in kl.maybeFree <=> o \in kk.maybeFree)
      BY <1>1, <2>6 DEF Cleared
    <3>4. Reaches(kl, o) > 0 => Flagged(kl, o)
      BY <1>3, <2>1, <3>2 DEF Flagged
    <3>5. kk.owner[o] # NoVat /\ o \in kl.reach[kk.owner[o]] => o \in kk.reach[kk.owner[o]]
      BY <1>3, <2>1
    <3> QED
      BY <2>1, <2>4, <2>7, <3>2, <3>3, <3>4, <3>5 DEF ObjectKeepsCounts, ObjectCounts, Exact, Unheld, KernelObjectExists
  <2> QED
    BY <2>5, <2>6
<1> QED
  BY <1>2, <1>4, RestIsAlike, AlikeKeepsCounts

\* The second half of deleteCListEntry.
ForgetEntries(kk, v, S) ==
  [DecrementRefCounts(kk, S \cap kk.imports[v], 0)
     EXCEPT !.imports[v] = @ \ S, !.exports[v] = @ \ S]

Unreached(kk, v, S) == S \cap kk.reach[v] = {}

LEMMA DeleteUnreachedCounts ==
  ASSUME NEW kk \in KernelState, CountsInv(kk), NEW v \in Vats, NEW S \in SUBSET Objects,
         Unreached(kk, v, S),
         NEW kl, kl = ForgetEntries(kk, v, S)
  PROVE  KeepsCounts(kk, kl) /\ kl.reach = kk.reach
<1> DEFINE T == S \cap kk.imports[v]
           km == [kk EXCEPT !.imports[v] = @ \ S]
           decremented == DecrementRefCounts(kk, T, 0)
           left == decremented.imports[v] \ S
<1>0. kl = [decremented EXCEPT !.imports[v] = left, !.exports[v] = @ \ S]
  BY DEF ForgetEntries
<1>1. km \in KernelState /\ OnlyCList(kk, km, v)
      /\ km.reach = kk.reach /\ km.imports[v] = kk.imports[v] \ S
  BY DEF KernelState, OnlyCList, SameQueues
<1>2. T \in SUBSET Objects /\ \A o : o \in T <=> o \in S /\ o \in kk.imports[v]
  OBVIOUS
<1> HIDE DEF km, T
<1>3. ASSUME NEW o \in Objects
      PROVE  /\ Exact(kk, o) /\ (Reaches(kk, o) > 0 => Flagged(kk, o))
             /\ Reaches(kk, o) \in Nat /\ Recognizes(kk, o) \in Nat
             /\ Reaches(kk, o) <= Recognizes(kk, o)
             /\ kk.owner[o] \in Vats \cup {NoVat} /\ Listed(kk, o)
             /\ o \in T => Reaches(kk, o) <= Recognizes(kk, o) - 1
  <2>1. Exact(kk, o) /\ (Reaches(kk, o) > 0 => Flagged(kk, o))
        /\ kk.owner[o] \in Vats \cup {NoVat} /\ Listed(kk, o)
    BY DEF CountsInv, KernelState
  <2>2. /\ Reaches(kk, o) \in Nat /\ Recognizes(kk, o) \in Nat
        /\ Reaches(kk, o) <= Recognizes(kk, o)
        /\ Reaches(km, o) \in Nat /\ Recognizes(km, o) \in Nat
        /\ Reaches(km, o) <= Recognizes(km, o)
    BY <1>1, ReferencesType
  <2>3. ASSUME o \in T
        PROVE  Reaches(kk, o) <= Recognizes(kk, o) - 1
    <3>1. /\ ReachBit(kk, v, o) = 0 /\ ReachBit(km, v, o) = 0
          /\ RecogBit(kk, v, o) = 1 /\ RecogBit(km, v, o) = 0
      BY <1>1, <1>2, <2>3 DEF ReachBit, RecogBit, Unreached
    <3>2. Shifted(kk, km, v, o)
      BY <1>1, OneCList
    <3> QED
      BY <2>2, <3>1, <3>2 DEF Shifted
  <2> QED
    BY <2>1, <2>2, <2>3
<1>4. ASSUME NEW o \in T, KernelObjectExists(kk, o)
      PROVE  /\ kk.refCount[o].reachable >= 0
             /\ kk.refCount[o].recognizable - 1 >= kk.refCount[o].reachable - 0
  <2>1. o \in Objects
    BY <1>2
  <2>2. /\ kk.refCount[o].reachable = Reaches(kk, o)
        /\ kk.refCount[o].recognizable = Recognizes(kk, o)
    BY <1>3, <1>4, <2>1 DEF Exact
  <2> QED
    BY <1>3, <2>1, <2>2
<1>5. Released(kk, decremented, T, 0) /\ decremented.reach = kk.reach
  BY <1>2, <1>4, DecrementRefCountsEffect
<1> HIDE DEF decremented
<1>10. decremented \in KernelState /\ decremented.imports = kk.imports
       /\ decremented.owner = kk.owner
  BY <1>5 DEF Released, Rest, SameTable
<1>11. left = kk.imports[v] \ S /\ left \subseteq Objects
  BY <1>10 DEF KernelState
<1> HIDE DEF left
<1>6. /\ kl \in KernelState
      /\ kl.refCount = decremented.refCount /\ kl.maybeFree = decremented.maybeFree
      /\ kl.reach = kk.reach /\ kl.imports[v] = kk.imports[v] \ S
      /\ kl.owner = kk.owner
  <2> DEFINE im == [decremented.imports EXCEPT ![v] = left]
             ex == [decremented.exports EXCEPT ![v] = @ \ S]
  <2>4. im \in [Vats -> SUBSET Objects] /\ ex \in [Vats -> SUBSET Objects]
    BY <1>10, <1>11 DEF KernelState
  <2>5. kl = [decremented EXCEPT !.imports = im, !.exports = ex]
    BY <1>0, <1>10 DEF KernelState
  <2> HIDE DEF im, ex
  <2>1. kl \in KernelState
    <3> HIDE DEF left
    <3> QED
      BY ONLY <1>10, <2>4, <2>5 DEF KernelState
  <2> USE DEF im
  <2>2. /\ kl.refCount = decremented.refCount /\ kl.maybeFree = decremented.maybeFree
        /\ kl.reach = decremented.reach /\ kl.owner = decremented.owner
        /\ kl.imports = [decremented.imports EXCEPT ![v] = left]
    BY <1>0, <1>10 DEF KernelState
  <2>3. kl.imports[v] = left
    BY <1>10, <2>2 DEF KernelState
  <2> QED
    BY <1>5, <1>10, <1>11, <2>1, <2>2, <2>3
<1>7. OnlyCList(kk, kl, v)
  BY <1>0, <1>5 DEF Released, Rest, SameTable, KernelState, OnlyCList, SameQueues
<1>8. Alike(kk, kl)
  BY <1>0, <1>5, <1>11 DEF Released, Rest, SameTable, KernelState, Alike
<1>9. ASSUME NEW o \in Objects
      PROVE  ObjectKeepsCounts(kk, kl, o)
  <2>1. Shifted(kk, kl, v, o) /\ Reaches(kl, o) \in Nat /\ Recognizes(kl, o) \in Nat
    BY <1>6, <1>7, OneCList, ReferencesType
  <2>2. ReachBit(kl, v, o) = ReachBit(kk, v, o) /\ ReachBit(kk, v, o) \in {0, 1}
    BY <1>6 DEF ReachBit, Unreached
  <2>3. Reaches(kl, o) = Reaches(kk, o)
    BY <1>3, <2>1, <2>2 DEF Shifted
  <2>4. Reaches(kl, o) > 0 => Flagged(kl, o)
    BY <1>3, <1>6, <2>3 DEF Flagged
  <2>7. Listed(kl, o)
    BY <1>3, <1>6, <1>7 DEF Listed, OnlyCList, Unreached
  <2>5. CASE o \in T /\ KernelObjectExists(kk, o)
    <3>1. RecogBit(kk, v, o) = 1 /\ RecogBit(kl, v, o) = 0
      BY <1>2, <1>6, <2>5 DEF RecogBit
    <3>2. Recognizes(kl, o) = Recognizes(kk, o) - 1
      BY <1>3, <2>1, <3>1 DEF Shifted
    <3>3. /\ Counted(kk, decremented, o, -0, -1)
          /\ o \in decremented.maybeFree <=>
               \/ o \in kk.maybeFree
               \/ decremented.refCount[o].reachable = 0
               \/ decremented.refCount[o].recognizable = 0
      BY <1>5, <2>5 DEF Released
    <3>4. /\ KernelObjectExists(kl, o) /\ KernelObjectExists(kl, o) = KernelObjectExists(kk, o)
          /\ kl.refCount[o].reachable = Reaches(kl, o)
          /\ kl.refCount[o].recognizable = Recognizes(kl, o)
      <4>1. /\ kk.refCount[o].reachable = Reaches(kk, o)
            /\ kk.refCount[o].recognizable = Recognizes(kk, o)
        BY <1>3, <2>5 DEF Exact
      <4>2. kl.refCount[o].exists \in BOOLEAN /\ kk.refCount[o].exists \in BOOLEAN
        BY <1>6 DEF KernelState, RefCount
      <4>3. /\ kl.refCount[o].exists
            /\ kl.refCount[o].reachable = kk.refCount[o].reachable + (-0)
            /\ kl.refCount[o].recognizable = kk.refCount[o].recognizable + (-1)
        BY <1>6, <3>3 DEF Counted, KernelObjectExists
      <4> QED
        BY <1>3, <2>3, <2>5, <3>2, <4>1, <4>2, <4>3 DEF KernelObjectExists
    <3> QED
      BY <1>6, <2>4, <2>7, <3>3, <3>4 DEF ObjectKeepsCounts, ObjectCounts, Exact, Unheld
  <2>6. CASE ~(o \in T /\ KernelObjectExists(kk, o))
    <3>1. kl.refCount[o] = kk.refCount[o] /\ (o \in kl.maybeFree <=> o \in kk.maybeFree)
      BY <1>5, <1>6, <2>6 DEF Released
    <3>2. ASSUME KernelObjectExists(kk, o)
          PROVE  Recognizes(kl, o) = Recognizes(kk, o)
      <4>1. RecogBit(kl, v, o) = RecogBit(kk, v, o) /\ RecogBit(kk, v, o) \in {0, 1}
        BY <1>2, <1>6, <2>6, <3>2 DEF RecogBit
      <4> QED
        BY <1>3, <2>1, <4>1 DEF Shifted
    <3> QED
      BY <1>3, <1>6, <2>3, <2>4, <2>7, <3>1, <3>2
      DEF ObjectKeepsCounts, ObjectCounts, Exact, Unheld, KernelObjectExists
  <2> QED
    BY <2>5, <2>6
<1> QED
  BY <1>6, <1>8, <1>9, AlikeKeepsCounts

LEMMA DeleteCListEntriesCounts ==
  ASSUME NEW kk \in KernelState, CountsInv(kk), NEW v \in Vats, NEW S \in SUBSET Objects,
         \A o \in S : kk.owner[o] = v => Reaches(kk, o) = 0,
         NEW kl, kl = DeleteCListEntries(kk, v, S)
  PROVE  KeepsCounts(kk, kl) /\ kl.reach = [kk.reach EXCEPT ![v] = @ \ S]
<1> DEFINE cleared == ClearReachableFlags(kk, v, S)
<1>1. KeepsCounts(kk, cleared) /\ Cleared(kk, cleared, v, S)
  BY ClearReachableFlagsCounts, ClearReachableFlagsEffect DEF CountsInv
<1>3. /\ cleared \in KernelState /\ CountsInv(cleared)
      /\ cleared.imports = kk.imports
      /\ cleared.reach = [kk.reach EXCEPT ![v] = @ \ S]
  BY <1>1 DEF Cleared, KeepsCounts, KeepsBut, Rest, SameTable
<1> HIDE DEF cleared
<1>4. Unreached(cleared, v, S)
  BY <1>3 DEF KernelState, Unreached
<1>5. kl = ForgetEntries(cleared, v, S)
  BY <1>3 DEF DeleteCListEntries, ForgetEntries, cleared
<1>6. KeepsCounts(cleared, kl) /\ kl.reach = cleared.reach
  BY <1>3, <1>4, <1>5, DeleteUnreachedCounts
<1> QED
  BY <1>1, <1>3, <1>6, KeepsCountsTransitive

-----------------------------------------------------------------------------
\* Exporting and importing.

\* What may be sent: it exists, and its exporter, if any, was not told to drop it.
Ready(kk, o) == KernelObjectExists(kk, o) /\ Flagged(kk, o)

LEMMA SetReachableFlagCounts ==
  ASSUME NEW kk \in KernelState, CountsInv(kk), NEW v \in Vats, NEW o \in Objects,
         o \in kk.imports[v] \/ kk.owner[o] = v,
         o \in kk.imports[v] => Ready(kk, o),
         NEW kl, kl = SetReachableFlag(kk, v, o)
  PROVE  /\ KeepsBut(kk, kl, {o}) /\ Rest(kk, kl)
         /\ kl.reach = [kk.reach EXCEPT ![v] = @ \cup {o}]
         /\ o \in kk.imports[v] => KeepsCounts(kk, kl)
         /\ KernelObjectExists(kl, o) = KernelObjectExists(kk, o)
         /\ \A p \in Objects : Ready(kk, p) => Ready(kl, p)
<1> DEFINE flagged == [kk EXCEPT !.reach[v] = @ \cup {o}]
           anew == o \in kk.imports[v] \ kk.reach[v]
<1>1. /\ flagged \in KernelState /\ Rest(kk, flagged)
      /\ flagged.refCount = kk.refCount /\ flagged.maybeFree = kk.maybeFree
      /\ flagged.reach = [kk.reach EXCEPT ![v] = @ \cup {o}]
  BY DEF KernelState, Rest, SameTable
<1>2. kl = IF anew THEN SetObjectRefCounts(flagged, {o}, 1, 0) ELSE flagged
  BY DEF SetReachableFlag
<1> HIDE DEF flagged
<1>3. ASSUME NEW p \in Objects
      PROVE  /\ Exact(kk, p) /\ (Reaches(kk, p) > 0 => Flagged(kk, p)) /\ Listed(kk, p)
             /\ Reaches(kk, p) \in Nat /\ Recognizes(kk, p) \in Nat
             /\ Reaches(kk, p) <= Recognizes(kk, p)
             /\ kk.owner[p] \in Vats \cup {NoVat}
  BY ReferencesType DEF CountsInv, KernelState
<1>4. OnlyCList(kk, flagged, v) /\ flagged.imports = kk.imports
  BY <1>1 DEF OnlyCList, SameQueues, Rest, SameTable, KernelState
<1>5. ASSUME NEW p \in Objects
      PROVE  /\ Reaches(flagged, p) = IF p = o /\ anew THEN Reaches(kk, p) + 1
                                                       ELSE Reaches(kk, p)
             /\ Recognizes(flagged, p) = Recognizes(kk, p)
  <2>1. Shifted(kk, flagged, v, p)
    BY <1>1, <1>4, OneCList
  <2>2. /\ RecogBit(flagged, v, p) = RecogBit(kk, v, p) /\ RecogBit(kk, v, p) \in {0, 1}
        /\ ReachBit(flagged, v, p) = IF p = o /\ anew THEN 1 ELSE ReachBit(kk, v, p)
        /\ p = o /\ anew => ReachBit(kk, v, p) = 0
        /\ ReachBit(kk, v, p) \in {0, 1}
    BY <1>1, <1>4 DEF RecogBit, ReachBit, KernelState
  <2> QED
    BY <1>3, <2>1, <2>2 DEF Shifted
<1>6. anew => MayCount(flagged, {o}, 1, 0)
  <2> SUFFICES ASSUME anew
               PROVE  MayCount(flagged, {o}, 1, 0)
    OBVIOUS
  <2>1. /\ kk.refCount[o].reachable = Reaches(kk, o)
        /\ kk.refCount[o].recognizable = Recognizes(kk, o)
    BY <1>3 DEF Exact, Ready
  <2>2. Reaches(flagged, o) = Reaches(kk, o) + 1 /\ Recognizes(flagged, o) = Recognizes(kk, o)
    BY <1>5
  <2>3. Reaches(flagged, o) <= Recognizes(flagged, o)
    BY <1>1, ReferencesType
  <2> QED
    BY <1>1, <1>3, <2>1, <2>2, <2>3 DEF MayCount
<1>7. /\ kl \in KernelState /\ Rest(flagged, kl)
      /\ kl.reach = flagged.reach /\ kl.maybeFree = kk.maybeFree
      /\ anew => Counted(kk, kl, o, 1, 0)
      /\ \A p \in Objects : ~(p = o /\ anew) => kl.refCount[p] = kk.refCount[p]
  <2>1. CASE anew
    <3>1. Recounted(flagged, kl, {o}, 1, 0)
      BY <1>1, <1>2, <1>6, <2>1, SetObjectRefCountsEffect
    <3> QED
      BY <1>1, <2>1, <3>1 DEF Recounted, Counted
  <2>2. CASE ~anew
    BY <1>1, <1>2, <2>2 DEF Rest, SameTable
  <2> QED
    BY <2>1, <2>2
<1>8. /\ Rest(kk, kl) /\ kl.reach = [kk.reach EXCEPT ![v] = @ \cup {o}]
      /\ kl.imports = kk.imports /\ kl.owner = kk.owner
      /\ \A p \in Objects : Reaches(kl, p) = Reaches(flagged, p)
                            /\ Recognizes(kl, p) = Recognizes(flagged, p)
  BY <1>1, <1>7 DEF Rest, SameTable, Reaches, Recognizes, Reachers, Recognizers, QueueHolders
<1>9. ASSUME NEW p \in Objects
      PROVE  ObjectCounts(kk, kl, p) /\ (p # o => ObjectKeepsCounts(kk, kl, p))
  <2>1. Listed(kl, p)
    BY <1>3, <1>8 DEF Listed, KernelState
  <2>2. CASE p = o /\ anew
    <3>1. KernelObjectExists(kk, p) /\ Flagged(kk, p)
      BY <2>2 DEF Ready
    <3>2. /\ kk.refCount[p].reachable = Reaches(kk, p)
          /\ kk.refCount[p].recognizable = Recognizes(kk, p)
      BY <1>3, <3>1 DEF Exact
    <3>3. /\ KernelObjectExists(kl, p)
          /\ kl.refCount[p].reachable = kk.refCount[p].reachable + 1
          /\ kl.refCount[p].recognizable = kk.refCount[p].recognizable + 0
      BY <1>7, <2>2 DEF Counted
    <3>4. KernelObjectExists(kl, p) = KernelObjectExists(kk, p)
      BY <1>7, <3>1, <3>3 DEF KernelObjectExists, KernelState, RefCount
    <3>5. Exact(kl, p)
      BY <1>3, <1>5, <1>8, <2>2, <3>2, <3>3 DEF Exact
    <3>6. Flagged(kl, p)
      BY <1>3, <1>8, <3>1 DEF Flagged, KernelState
    <3> QED
      BY <2>1, <2>2, <3>4, <3>5, <3>6 DEF ObjectCounts
  <2>3. CASE ~(p = o /\ anew)
    <3>1. kl.refCount[p] = kk.refCount[p] /\ Reaches(kl, p) = Reaches(kk, p)
          /\ Recognizes(kl, p) = Recognizes(kk, p)
      BY <1>5, <1>7, <1>8, <2>3
    <3>2. Exact(kl, p) /\ KernelObjectExists(kl, p) = KernelObjectExists(kk, p)
      BY <1>3, <3>1 DEF Exact, KernelObjectExists
    <3>3. Reaches(kl, p) > 0 => Flagged(kl, p)
      BY <1>3, <1>8, <3>1 DEF Flagged, KernelState
    <3>4. p # o /\ kk.owner[p] # NoVat /\ p \in kl.reach[kk.owner[p]] =>
            p \in kk.reach[kk.owner[p]]
      BY <1>3, <1>8 DEF KernelState
    <3> QED
      BY <1>7, <2>1, <3>1, <3>2, <3>3, <3>4 DEF ObjectCounts, ObjectKeepsCounts, Unheld
  <2> QED
    BY <2>2, <2>3
<1>10. KeepsBut(kk, kl, {o})
  BY <1>7, <1>8, <1>9, RestIsAlike, AlikeKeepsBut
<1>11. ASSUME o \in kk.imports[v]
       PROVE  KeepsCounts(kk, kl)
  <2>1. v \in Reachers(kl, o)
    BY <1>8, <1>11 DEF Reachers, KernelState
  <2>2. ~Unheld(kl, o)
    BY <1>7, <2>1, ReferencesType DEF Unheld
  <2>3. KeepsCounts(kk, kk)
    BY KeepsCountsReflexive
  <2> QED
    BY <1>10, <2>2, <2>3, KeepsButTransitive DEF KeepsCounts
<1>12. ASSUME NEW p \in Objects, Ready(kk, p)
       PROVE  Ready(kl, p)
  <2>1. KernelObjectExists(kl, p)
    BY <1>9, <1>12 DEF ObjectCounts, Ready
  <2>2. Flagged(kl, p)
    BY <1>3, <1>8, <1>12 DEF Flagged, Ready, KernelState
  <2> QED
    BY <2>1, <2>2 DEF Ready
<1> QED
  BY <1>8, <1>9, <1>10, <1>11, <1>12 DEF ObjectCounts

\* The next kref to be allocated is known to nobody.
LEMMA NextKoidIsFresh ==
  ASSUME NEW kk \in KernelState, TableInv(kk), NEW n \in Objects, n = kk.nextKoid
  PROVE  /\ Reaches(kk, n) = 0 /\ Recognizes(kk, n) = 0 /\ kk.owner[n] = NoVat
         /\ \A w \in Vats : n \notin kk.imports[w]
<1>1. n \in Nat /\ kk.owner[n] = NoVat /\ n \notin Vats
  BY VatsAssumption
  DEF TableInv, UnallocatedHasNoOwner, MessagesAllocated, KernelState, Objects, Vats
<1>2. \A w \in Vats : n \notin kk.imports[w]
  BY <1>1 DEF TableInv, ImportsAreForeign
<1>3. ASSUME NEW q \in Seq(Message), Elements(q) \subseteq Messages(kk)
      PROVE  Occurrences(q, n) = 0
  <2>1. \A i \in 1..Len(q) : q[i].target # n /\ q[i].arg # n
    <3> SUFFICES ASSUME NEW i \in 1..Len(q)
                 PROVE  q[i].target # n /\ q[i].arg # n
      OBVIOUS
    <3>1. q[i] \in Message /\ q[i] \in Messages(kk)
      BY <1>3, ElementOfSeq DEF Elements
    <3>2. q[i].target < n /\ q[i].arg < n
      BY <3>1 DEF TableInv, MessagesAllocated
    <3> QED
      BY <1>1, <3>2
  <2>2. {i \in 1..Len(q) : q[i].target = n} = {} /\ {i \in 1..Len(q) : q[i].arg = n} = {}
    BY <2>1
  <2>3. Cardinality({}) = 0
    BY FS_EmptySet
  <2>4. Occurrences(q, n) = Cardinality({}) + Cardinality({})
    BY <2>2 DEF Occurrences
  <2> QED
    BY <2>3, <2>4
<1>4. QueueHolders(kk, n) = 0
  BY <1>1, <1>3 DEF QueueHolders, Messages, KernelState
<1>5. Reachers(kk, n) = {} /\ Recognizers(kk, n) = {}
  BY <1>2 DEF Reachers, Recognizers
<1> QED
  BY <1>1, <1>2, <1>4, <1>5, FS_EmptySet DEF Reaches, Recognizes

\* Counts, flags and imports are the same.
LEMMA SameReferences ==
  ASSUME NEW kk, NEW kl, SameQueues(kk, kl), kl.imports = kk.imports, kl.reach = kk.reach
  PROVE  \A o : Reaches(kl, o) = Reaches(kk, o) /\ Recognizes(kl, o) = Recognizes(kk, o)
BY DEF SameQueues, Reaches, Recognizes, Reachers, Recognizers, QueueHolders

LEMMA NewExportCounts ==
  ASSUME NEW kk \in KernelState, CountsInv(kk), TableInv(kk), NEW v \in Vats, v = crank.vat,
         NEW n \in Objects, n = kk.nextKoid,
         NEW kl, kl = NewExport(kk, v)
  PROVE  /\ KeepsBut(kk, kl, {n}) /\ kl.owner[n] = v /\ n \notin kl.imports[v]
         /\ \A p \in Objects \ {n} : Ready(kk, p) => Ready(kl, p)
<1> DEFINE ow == [kk.owner EXCEPT ![n] = v]
           rc == [kk.refCount EXCEPT ![n] =
                    [exists |-> TRUE, reachable |-> 0, recognizable |-> 0]]
           added == AddKernelObject(kk, v)
<1>1. added = [kk EXCEPT !.owner = ow, !.refCount = rc,
                         !.nextKoid = @ + 1, !.kernelObjects = @ + 1]
  BY DEF AddKernelObject, KernelState
<1>2. added \in KernelState
  BY AddKernelObjectType
<1>3. /\ ow[n] = v /\ \A o \in Objects \ {n} : ow[o] = kk.owner[o]
      /\ rc[n] = [exists |-> TRUE, reachable |-> 0, recognizable |-> 0]
      /\ \A o \in Objects \ {n} : rc[o] = kk.refCount[o]
  BY DEF KernelState
<1> HIDE DEF ow, rc, added
<1>4. kl \in KernelState
  BY NewEntriesType
<1>5. kl = [added EXCEPT !.exports[v] = @ \cup {n}]
  BY DEF NewExport, added
<1>6. /\ kl.owner = ow /\ kl.refCount = rc
      /\ kl.imports = kk.imports /\ kl.reach = kk.reach /\ SameQueues(kk, kl)
      /\ kl.maybeFree = kk.maybeFree /\ kl.gcActions = kk.gcActions
      /\ kl.liveIDs = kk.liveIDs /\ kl.initialized = kk.initialized
      /\ kl.terminated = kk.terminated /\ kl.terminatedVats = kk.terminatedVats
      /\ kl.failed = kk.failed
  BY <1>1, <1>2, <1>5 DEF KernelState, SameQueues
<1>7. /\ Reaches(kk, n) = 0 /\ Recognizes(kk, n) = 0 /\ kk.owner[n] = NoVat
      /\ \A w \in Vats : n \notin kk.imports[w]
  BY NextKoidIsFresh
<1>8. \A o : Reaches(kl, o) = Reaches(kk, o) /\ Recognizes(kl, o) = Recognizes(kk, o)
  BY <1>6, SameReferences
<1>9. ASSUME NEW o \in Objects
      PROVE  /\ Exact(kl, o) /\ (Reaches(kl, o) > 0 => Flagged(kl, o))
             /\ kl.owner[o] # NoVat => KernelObjectExists(kl, o)
             /\ Listed(kl, o)
  <2>1. /\ Exact(kk, o) /\ (Reaches(kk, o) > 0 => Flagged(kk, o))
        /\ kk.owner[o] # NoVat => KernelObjectExists(kk, o)
        /\ Listed(kk, o)
    BY DEF CountsInv
  <2>2. CASE o = n
    <3>1. kl.refCount[n] = [exists |-> TRUE, reachable |-> 0, recognizable |-> 0]
      BY <1>3, <1>6
    <3>2. kl.refCount[n].exists /\ kl.refCount[n].reachable = 0
          /\ kl.refCount[n].recognizable = 0
      BY ONLY <3>1
    <3>3. Listed(kl, n)
      BY <1>6, <1>7, <2>1, <2>2, ConstantsType DEF Listed
    <3> QED
      BY <1>7, <1>8, <2>2, <3>2, <3>3 DEF Exact, KernelObjectExists
  <2>3. CASE o # n
    BY <1>3, <1>6, <1>8, <2>1, <2>3 DEF Exact, Flagged, Listed, KernelObjectExists
  <2> QED
    BY <2>2, <2>3
<1>10. CountsInv(kl)
  BY <1>9 DEF CountsInv
<1>11. \A o \in Objects \ {n} : ObjectFollows(kk, kl, o)
  BY <1>3, <1>6, <1>8 DEF ObjectFollows, Unheld, KernelObjectExists
<1>12. ASSUME NEW w \in kl.liveIDs, NEW o \in kl.imports[w], ~KernelObjectExists(kl, o)
       PROVE  o \in kk.imports[w] /\ ~KernelObjectExists(kk, o)
  <2>1. w \in Vats /\ o \in Objects
    BY <1>4 DEF KernelState
  <2>2. o # n
    BY <1>6, <1>7, <2>1
  <2> QED
    BY <1>3, <1>6, <1>12, <2>1, <2>2 DEF KernelObjectExists
<1>13. Follows(kk, kl, {n})
  <2>1. VatsFollow(kk, kl)
    BY <1>3, <1>6 DEF VatsFollow
  <2> QED
    BY <1>6, <1>11, <1>12, <2>1 DEF Follows
<1>14. \A p \in Objects \ {n} : Ready(kk, p) => Ready(kl, p)
  BY <1>3, <1>6 DEF Ready, Flagged, KernelObjectExists
<1> QED
  BY <1>3, <1>4, <1>6, <1>7, <1>10, <1>13, <1>14 DEF KeepsBut

LEMMA NewImportCounts ==
  ASSUME NEW kk \in KernelState, CountsInv(kk), NEW v \in Vats, NEW o \in Objects,
         o \notin kk.imports[v], kk.owner[o] # v, Ready(kk, o),
         NEW kl, kl = NewImport(kk, v, o)
  PROVE  /\ KeepsCounts(kk, kl) /\ o \in kl.imports[v]
         /\ \A p \in Objects : Ready(kk, p) => Ready(kl, p)
<1> DEFINE counted == SetObjectRefCounts(kk, {o}, 0, 1)
<1>1. ASSUME NEW p \in Objects
      PROVE  /\ Exact(kk, p) /\ (Reaches(kk, p) > 0 => Flagged(kk, p)) /\ Listed(kk, p)
             /\ Reaches(kk, p) \in Nat /\ Recognizes(kk, p) \in Nat
             /\ Reaches(kk, p) <= Recognizes(kk, p)
  BY ReferencesType DEF CountsInv
<1>2. /\ kk.refCount[o].reachable = Reaches(kk, o)
      /\ kk.refCount[o].recognizable = Recognizes(kk, o)
  BY <1>1 DEF Ready, Exact
<1>3. MayCount(kk, {o}, 0, 1)
  BY <1>1, <1>2 DEF MayCount
<1>4. Recounted(kk, counted, {o}, 0, 1)
  BY <1>3, SetObjectRefCountsEffect
<1>5. kl = [counted EXCEPT !.imports[v] = @ \cup {o}]
  BY DEF NewImport
<1> HIDE DEF counted
<1>6. kl \in KernelState
  BY NewEntriesType
<1>7. /\ kl.imports = [kk.imports EXCEPT ![v] = @ \cup {o}]
      /\ kl.reach = kk.reach /\ kl.owner = kk.owner /\ kl.maybeFree = kk.maybeFree
      /\ kl.refCount = counted.refCount
      /\ OnlyCList(kk, kl, v)
  BY <1>4, <1>5 DEF Recounted, Rest, SameTable, KernelState, OnlyCList, SameQueues
<1>8. /\ kl.imports[v] = kk.imports[v] \cup {o}
      /\ \A w \in Vats \ {v} : kl.imports[w] = kk.imports[w]
  BY <1>7 DEF KernelState
<1>9. /\ Counted(kk, kl, o, 0, 1)
      /\ \A p \in Objects \ {o} : kl.refCount[p] = kk.refCount[p]
  BY <1>4, <1>7 DEF Recounted, Counted, KernelObjectExists
<1>10. KernelObjectExists(kl, o)
  BY <1>9 DEF Counted
<1>11. Alike(kk, kl)
  <2>1. \A w \in Vats : \A p \in kl.imports[w] : p \in kk.imports[w] \/ KernelObjectExists(kl, p)
    BY <1>8, <1>10
  <2> QED
    BY <1>4, <1>5, <2>1 DEF Recounted, Rest, SameTable, KernelState, Alike
<1>12. o \notin kk.reach[v]
  BY <1>1 DEF Listed
<1>13. ASSUME NEW p \in Objects
       PROVE  ObjectKeepsCounts(kk, kl, p)
  <2>1. Shifted(kk, kl, v, p)
    BY <1>6, <1>7, OneCList
  <2>2. /\ ReachBit(kl, v, p) = ReachBit(kk, v, p) /\ ReachBit(kk, v, p) \in {0, 1}
        /\ p = o => RecogBit(kk, v, p) = 0 /\ RecogBit(kl, v, p) = 1
        /\ p # o => RecogBit(kl, v, p) = RecogBit(kk, v, p)
        /\ RecogBit(kk, v, p) \in {0, 1}
    BY <1>7, <1>8, <1>12 DEF ReachBit, RecogBit
  <2>3. /\ Reaches(kl, p) = Reaches(kk, p)
        /\ Recognizes(kl, p) = IF p = o THEN Recognizes(kk, p) + 1 ELSE Recognizes(kk, p)
    BY <1>1, <2>1, <2>2 DEF Shifted
  <2>4. Reaches(kl, p) > 0 => Flagged(kl, p)
    BY <1>1, <1>7, <2>3 DEF Flagged
  <2>5. Listed(kl, p)
    BY <1>1, <1>7, <1>8 DEF Listed
  <2>6. CASE p = o
    <3>1. /\ KernelObjectExists(kl, p)
          /\ kl.refCount[p].reachable = kk.refCount[p].reachable + 0
          /\ kl.refCount[p].recognizable = kk.refCount[p].recognizable + 1
      BY <1>9, <2>6 DEF Counted
    <3>2. KernelObjectExists(kl, p) = KernelObjectExists(kk, p)
      BY <1>6, <1>10, <2>6 DEF Ready, KernelObjectExists, KernelState, RefCount
    <3>3. Exact(kl, p)
      BY <1>1, <1>2, <2>3, <2>6, <3>1 DEF Exact
    <3>4. Recognizes(kl, p) # 0
      BY <1>1, <2>3, <2>6
    <3> QED
      BY <1>7, <2>3, <2>4, <2>5, <3>2, <3>3, <3>4 DEF ObjectKeepsCounts, ObjectCounts, Unheld
  <2>7. CASE p # o
    <3>1. kl.refCount[p] = kk.refCount[p]
      BY <1>9, <2>7
    <3> QED
      BY <1>1, <1>7, <2>3, <2>4, <2>5, <2>7, <3>1
      DEF ObjectKeepsCounts, ObjectCounts, Exact, Unheld, KernelObjectExists
  <2> QED
    BY <2>6, <2>7
<1>14. \A p \in Objects : Ready(kk, p) => Ready(kl, p)
  BY <1>7, <1>13 DEF Ready, Flagged, ObjectKeepsCounts, ObjectCounts
<1> QED
  BY <1>6, <1>8, <1>11, <1>13, <1>14, AlikeKeepsCounts

\* What a vat passes on has no reference yet, but is ready for one.
LEMMA MapVatSlotCounts ==
  ASSUME NEW kk \in KernelState, CountsInv(kk), TableInv(kk), NEW v \in Vats, v = crank.vat,
         NEW o \in Objects \cup {NoObject},
         o \in MayMention(kk, v) \cup {NoObject, kk.nextKoid},
         NEW kl, kl = MapVatSlotToKernelSlot(kk, v, o)
  PROVE  /\ KeepsBut(kk, kl, {o})
         /\ o # NoObject => Ready(kl, o)
         /\ \A p \in Objects \ {kk.nextKoid} : Ready(kk, p) => Ready(kl, p)
<1>1. CASE o = NoObject
  <2>1. kl = kk
    BY <1>1 DEF MapVatSlotToKernelSlot
  <2> QED
    BY <1>1, <2>1, KeepsCountsReflexive DEF KeepsCounts, KeepsBut, Follows
<1>2. CASE o # NoObject /\ o = kk.nextKoid
  <2> DEFINE entered == NewExport(kk, v)
  <2>1. kl = SetReachableFlag(entered, v, o) /\ o \in Objects
    BY <1>2 DEF MapVatSlotToKernelSlot
  <2>2. /\ KeepsBut(kk, entered, {o}) /\ entered.owner[o] = v /\ o \notin entered.imports[v]
        /\ \A p \in Objects \ {o} : Ready(kk, p) => Ready(entered, p)
    BY <1>2, <2>1, NewExportCounts
  <2> HIDE DEF entered
  <2>3. entered \in KernelState /\ CountsInv(entered)
    BY <2>2 DEF KeepsBut
  <2>4. /\ KeepsBut(entered, kl, {o}) /\ Rest(entered, kl)
        /\ kl.reach = [entered.reach EXCEPT ![v] = @ \cup {o}]
        /\ \A p \in Objects : Ready(entered, p) => Ready(kl, p)
        /\ KernelObjectExists(kl, o) = KernelObjectExists(entered, o)
    <3>1. o \in entered.imports[v] \/ entered.owner[o] = v
      BY <2>2
    <3>2. o \in entered.imports[v] => Ready(entered, o)
      BY <2>2
    <3>3. entered \in KernelState /\ o \in Objects /\ kl = SetReachableFlag(entered, v, o)
      BY <2>1, <2>3
    <3> QED
      BY <2>3, <3>1, <3>2, <3>3, SetReachableFlagCounts
  <2>5. KeepsBut(kk, kl, {o})
    BY <2>2, <2>4, KeepsButTransitive
  <2>6. o \in kl.reach[kl.owner[o]]
    BY <2>2, <2>3, <2>4 DEF Rest, SameTable, KernelState
  <2>7. KernelObjectExists(kl, o)
    BY <2>1, <2>2, <2>3, <2>4, ConstantsType DEF CountsInv
  <2> QED
    BY <1>2, <2>2, <2>4, <2>5, <2>6, <2>7 DEF Ready, Flagged
<1>3. CASE o # NoObject /\ o # kk.nextKoid /\ o \in kk.exports[v]
  <2>1. kl = SetReachableFlag(kk, v, o) /\ o \in Objects
    BY <1>3 DEF MapVatSlotToKernelSlot
  <2>2. kk.owner[o] = v /\ o \notin kk.imports[v]
    BY <1>3, <2>1 DEF TableInv, OwnersMatch, ImportsAreForeign
  <2>6. /\ o \in kk.imports[v] \/ kk.owner[o] = v
        /\ o \in kk.imports[v] => Ready(kk, o)
    BY <2>2
  <2>3. /\ KeepsBut(kk, kl, {o}) /\ Rest(kk, kl)
        /\ kl.reach = [kk.reach EXCEPT ![v] = @ \cup {o}]
        /\ \A p \in Objects : Ready(kk, p) => Ready(kl, p)
        /\ KernelObjectExists(kl, o) = KernelObjectExists(kk, o)
    BY ONLY <2>1, <2>6, CountsInv(kk), kk \in KernelState, v \in Vats, SetReachableFlagCounts
  <2>4. o \in kl.reach[kl.owner[o]]
    BY <2>2, <2>3 DEF Rest, SameTable, KernelState
  <2>5. KernelObjectExists(kl, o)
    BY <2>1, <2>2, <2>3, ConstantsType DEF CountsInv
  <2> QED
    BY <2>3, <2>4, <2>5 DEF Ready, Flagged
<1>4. CASE o # NoObject /\ o # kk.nextKoid /\ o \notin kk.exports[v]
  <2>1. kl = kk /\ o \in Objects /\ o \in kk.imports[v] \cap kk.reach[v]
    BY <1>4 DEF MapVatSlotToKernelSlot, MayMention
  <2>2. v \in Reachers(kk, o)
    BY <2>1 DEF Reachers
  <2>3. Reaches(kk, o) # 0 /\ Reaches(kk, o) \in Nat
    BY <2>1, <2>2, ReferencesType
  <2>4. Ready(kk, o)
    BY <2>1, <2>3 DEF CountsInv, Exact, Ready
  <2>5. KeepsBut(kk, kl, {o})
    BY <2>1, KeepsCountsReflexive DEF KeepsCounts, KeepsBut, Follows
  <2> QED
    BY <2>1, <2>4, <2>5
<1> QED
  BY <1>1, <1>2, <1>3, <1>4

LEMMA MapKernelSlotCounts ==
  ASSUME NEW kk \in KernelState, CountsInv(kk), TableInv(kk), NEW v \in Vats,
         NEW o \in Objects \cup {NoObject}, o # NoObject => Ready(kk, o),
         NEW kl, kl = MapKernelSlotToVatSlot(kk, v, o)
  PROVE  /\ KeepsCounts(kk, kl)
         /\ \A p \in Objects : Ready(kk, p) => Ready(kl, p)
<1>1. CASE o = NoObject
  BY <1>1, KeepsCountsReflexive DEF MapKernelSlotToVatSlot
<1>2. CASE o # NoObject /\ o \in kk.exports[v]
  <2>1. kk.owner[o] = v
    BY <1>2 DEF TableInv, OwnersMatch
  <2>2. o \in kk.reach[v]
    BY <1>2, <2>1, ConstantsType DEF Ready, Flagged
  <2>3. kl = [kk EXCEPT !.failed = @ \/ o \notin kk.reach[v]]
    BY <1>2 DEF MapKernelSlotToVatSlot, UnreachableExport
  <2>4. kk.failed \/ o \notin kk.reach[v] <=> kk.failed
    BY <2>2
  <2>5. kk.failed \in BOOLEAN
    BY DEF KernelState
  <2>6. (kk.failed \/ o \notin kk.reach[v]) = kk.failed
    BY <2>4, <2>5
  <2>7. kl = [kk EXCEPT !.failed = kk.failed]
    BY <2>3, <2>6
  <2>8. kl = kk
    BY <2>7 DEF KernelState
  <2> QED
    BY <2>8, KeepsCountsReflexive
<1>3. CASE o # NoObject /\ o \notin kk.exports[v] /\ o \in kk.imports[v]
  BY <1>3, SetReachableFlagCounts DEF MapKernelSlotToVatSlot
<1>4. CASE o # NoObject /\ o \notin kk.exports[v] /\ o \notin kk.imports[v]
  <2> DEFINE entered == NewImport(kk, v, o)
  <2>1. kl = SetReachableFlag(entered, v, o) /\ o \in Objects
    BY <1>4 DEF MapKernelSlotToVatSlot
  <2>2. kk.owner[o] # v
    BY <1>4, <2>1 DEF TableInv, OwnersMatch
  <2>3. /\ KeepsCounts(kk, entered) /\ o \in entered.imports[v]
        /\ \A p \in Objects : Ready(kk, p) => Ready(entered, p)
    BY <1>4, <2>1, <2>2, NewImportCounts
  <2> HIDE DEF entered
  <2>4. entered \in KernelState /\ CountsInv(entered)
    BY <2>3 DEF KeepsCounts, KeepsBut
  <2>5. /\ KeepsCounts(entered, kl)
        /\ \A p \in Objects : Ready(entered, p) => Ready(kl, p)
    BY <1>4, <2>1, <2>3, <2>4, SetReachableFlagCounts
  <2> QED
    BY <2>3, <2>5, KeepsCountsTransitive
<1> QED
  BY <1>1, <1>2, <1>3, <1>4

-----------------------------------------------------------------------------
\* Sending, and taking what was sent off its queue.

\* A message holds n more references to o.
HolderAdded(kk, kl, m) ==
  \A o \in Objects : QueueHolders(kl, o) = QueueHolders(kk, o) + Names(m, o)

LEMMA IncrementEffect ==
  ASSUME NEW kk \in KernelState, NEW o \in Objects \cup {NoObject},
         o # NoObject => kk.refCount[o].reachable <= kk.refCount[o].recognizable,
         NEW kl, kl = IncrementRefCount(kk, o)
  PROVE  /\ kl \in KernelState /\ Rest(kk, kl)
         /\ kl.reach = kk.reach /\ kl.maybeFree = kk.maybeFree
         /\ o # NoObject => Counted(kk, kl, o, 1, 1)
         /\ \A p \in Objects : p # o => kl.refCount[p] = kk.refCount[p]
<1>1. CASE o = NoObject
  BY <1>1 DEF IncrementRefCount, Rest, SameTable
<1>2. CASE o # NoObject
  <2>1. o \in Objects /\ kk.refCount[o].reachable \in Nat /\ kk.refCount[o].recognizable \in Nat
    BY <1>2 DEF KernelState, RefCount
  <2>2. MayCount(kk, {o}, 1, 1)
    BY <1>2, <2>1 DEF MayCount
  <2>3. Recounted(kk, kl, {o}, 1, 1)
    BY <1>2, <2>1, <2>2, SetObjectRefCountsEffect DEF IncrementRefCount
  <2> QED
    BY <2>3 DEF Recounted
<1> QED
  BY <1>1, <1>2

LEMMA DoSendCounts ==
  ASSUME NEW kk \in KernelState, CountsInv(kk), NEW m \in Message,
         Ready(kk, m.target), m.arg # NoObject => Ready(kk, m.arg),
         NEW kl, kl = DoSend(kk, m)
  PROVE  KeepsCounts(kk, kl)
<1> DEFINE t == m.target
           a == m.arg
           first == IncrementRefCount(kk, t)
           counted == IncrementRefCount(first, a)
<1>1. t \in Objects /\ a \in Objects \cup {NoObject} /\ t # NoObject
  BY ConstantsType DEF Message
<1>2. kl = [counted EXCEPT !.acceptanceQueue = Append(@, m)]
  BY DEF DoSend
<1>3. kl \in KernelState
  BY DoSendType
<1>4. ASSUME NEW o \in Objects
      PROVE  /\ Exact(kk, o) /\ (Reaches(kk, o) > 0 => Flagged(kk, o)) /\ Listed(kk, o)
             /\ Reaches(kk, o) \in Nat /\ Recognizes(kk, o) \in Nat
             /\ Reaches(kk, o) <= Recognizes(kk, o)
             /\ Names(m, o) \in Nat
             /\ Names(m, o) = (IF o = t THEN 1 ELSE 0) + (IF o = a THEN 1 ELSE 0)
  BY ReferencesType, NamesCounts DEF CountsInv, Names
<1>5. \A o \in Objects : Ready(kk, o) => kk.refCount[o].reachable <= kk.refCount[o].recognizable
  BY <1>4 DEF Ready, Exact
<1>6. Ready(kk, t) /\ (a # NoObject => Ready(kk, a))
  OBVIOUS
<1> HIDE DEF t, a, first, counted
<1>7. /\ first \in KernelState /\ Rest(kk, first)
      /\ first.reach = kk.reach /\ first.maybeFree = kk.maybeFree
      /\ Counted(kk, first, t, 1, 1)
      /\ \A p \in Objects : p # t => first.refCount[p] = kk.refCount[p]
  BY <1>1, <1>5, <1>6, IncrementEffect DEF first
<1>8. a # NoObject => first.refCount[a].reachable <= first.refCount[a].recognizable
  <2> SUFFICES ASSUME a # NoObject
               PROVE  first.refCount[a].reachable <= first.refCount[a].recognizable
    OBVIOUS
  <2>1. a \in Objects /\ kk.refCount[a].reachable <= kk.refCount[a].recognizable
        /\ kk.refCount[a].reachable \in Nat /\ kk.refCount[a].recognizable \in Nat
    BY <1>1, <1>5, <1>6 DEF KernelState, RefCount
  <2> QED
    BY <1>7, <2>1 DEF Counted
<1>9. /\ counted \in KernelState /\ Rest(first, counted)
      /\ counted.reach = first.reach /\ counted.maybeFree = first.maybeFree
      /\ a # NoObject => Counted(first, counted, a, 1, 1)
      /\ \A p \in Objects : p # a => counted.refCount[p] = first.refCount[p]
  BY <1>1, <1>7, <1>8, IncrementEffect DEF counted
<1>10. /\ kl.owner = kk.owner /\ kl.imports = kk.imports /\ kl.reach = kk.reach
       /\ kl.maybeFree = kk.maybeFree /\ kl.refCount = counted.refCount
       /\ kl.runQueue = kk.runQueue /\ kl.acceptanceQueue = Append(kk.acceptanceQueue, m)
       /\ Alike(kk, kl)
  BY <1>2, <1>7, <1>9 DEF Rest, SameTable, Alike, KernelState
<1>11. ASSUME NEW o \in Objects, o = t \/ o = a
       PROVE  /\ Ready(kk, o) /\ Names(m, o) > 0
              /\ KernelObjectExists(kl, o)
              /\ kl.refCount[o].reachable = kk.refCount[o].reachable + Names(m, o)
              /\ kl.refCount[o].recognizable = kk.refCount[o].recognizable + Names(m, o)
  <2>1. /\ Ready(kk, o) /\ o # NoObject
        /\ kk.refCount[o].reachable \in Nat /\ kk.refCount[o].recognizable \in Nat
    BY <1>6, <1>11, ConstantsType DEF KernelState, RefCount
  <2>2. CASE o = t /\ o # a
    <3>1. Names(m, o) = 1 /\ kl.refCount[o] = first.refCount[o]
      BY <1>4, <1>9, <1>10, <2>2
    <3>2. Counted(kk, first, o, 1, 1)
      BY <1>7, <2>2
    <3> QED
      BY <2>1, <3>1, <3>2 DEF Counted, KernelObjectExists
  <2>3. CASE o # t /\ o = a
    <3>1. /\ Names(m, o) = 1 /\ first.refCount[o] = kk.refCount[o]
          /\ kl.refCount[o] = counted.refCount[o]
      BY <1>4, <1>7, <1>10, <2>3
    <3>2. Counted(first, counted, o, 1, 1)
      BY <1>9, <2>1, <2>3
    <3> QED
      BY <2>1, <3>1, <3>2 DEF Counted, KernelObjectExists
  <2>4. CASE o = t /\ o = a
    <3>1. Names(m, o) = 2
      BY <1>4, <2>4
    <3>2. /\ first.refCount[o].reachable = kk.refCount[o].reachable + 1
          /\ first.refCount[o].recognizable = kk.refCount[o].recognizable + 1
      BY <1>7, <2>4 DEF Counted
    <3>3. /\ KernelObjectExists(counted, o)
          /\ counted.refCount[o].reachable = first.refCount[o].reachable + 1
          /\ counted.refCount[o].recognizable = first.refCount[o].recognizable + 1
      BY <1>9, <2>1, <2>4 DEF Counted
    <3> QED
      BY <1>10, <2>1, <3>1, <3>2, <3>3 DEF KernelObjectExists
  <2> QED
    BY <1>11, <2>2, <2>3, <2>4
<1>12. ASSUME NEW o \in Objects, o # t, o # a
       PROVE  Names(m, o) = 0 /\ kl.refCount[o] = kk.refCount[o]
  BY <1>4, <1>7, <1>9, <1>10, <1>12
<1>13. ASSUME NEW o \in Objects
       PROVE  ObjectKeepsCounts(kk, kl, o)
  <2>1. QueueHolders(kl, o) = QueueHolders(kk, o) + Names(m, o)
    <3>1. /\ kk.acceptanceQueue \in Seq(Message) /\ kk.runQueue \in Seq(Message)
      BY DEF KernelState
    <3>2. /\ Occurrences(kl.acceptanceQueue, o) = Occurrences(kk.acceptanceQueue, o) + Names(m, o)
          /\ Occurrences(kk.acceptanceQueue, o) \in Nat /\ Occurrences(kk.runQueue, o) \in Nat
          /\ Occurrences(kl.runQueue, o) = Occurrences(kk.runQueue, o)
      BY <1>10, <3>1, OccurrencesAppend, OccurrencesAreCounts
    <3> QED
      BY <1>4, <3>2 DEF QueueHolders
  <2>2. /\ Reaches(kl, o) = Reaches(kk, o) + Names(m, o)
        /\ Recognizes(kl, o) = Recognizes(kk, o) + Names(m, o)
    BY <1>3, <1>4, <1>10, <2>1, OneMessage
  <2>3. Listed(kl, o)
    BY <1>4, <1>10 DEF Listed
  <2>4. CASE o = t \/ o = a
    <3>1. Exact(kl, o) /\ Flagged(kl, o)
      BY <1>4, <1>10, <1>11, <2>2, <2>4 DEF Ready, Exact, Flagged
    <3>2. Reaches(kl, o) > 0
      BY <1>4, <1>11, <2>2, <2>4
    <3>3. KernelObjectExists(kl, o) = KernelObjectExists(kk, o)
      BY <1>3, <1>11, <2>4 DEF Ready, KernelObjectExists, KernelState, RefCount
    <3> QED
      BY <2>3, <3>1, <3>2, <3>3 DEF ObjectKeepsCounts, ObjectCounts, Unheld
  <2>5. CASE o # t /\ o # a
    <3>1. /\ kl.refCount[o] = kk.refCount[o]
          /\ Reaches(kl, o) = Reaches(kk, o) /\ Recognizes(kl, o) = Recognizes(kk, o)
      BY <1>4, <1>12, <2>2, <2>5
    <3> QED
      BY <1>4, <1>10, <2>3, <3>1
      DEF ObjectKeepsCounts, ObjectCounts, Exact, Flagged, Unheld, KernelObjectExists
  <2> QED
    BY <2>4, <2>5
<1> QED
  BY <1>3, <1>10, <1>13, AlikeKeepsCounts

\* Only the queues are not the same.
Requeued(kk, kl) ==
  /\ kl \in KernelState
  /\ kl.refCount = kk.refCount /\ kl.reach = kk.reach /\ kl.imports = kk.imports
  /\ kl.maybeFree = kk.maybeFree /\ Alike(kk, kl)

LEMMA RequeuedCounts ==
  ASSUME NEW kk \in KernelState, CountsInv(kk), NEW kl, Requeued(kk, kl),
         \A o \in Objects : QueueHolders(kl, o) = QueueHolders(kk, o)
  PROVE  KeepsCounts(kk, kl)
<1>1. kl \in KernelState /\ Alike(kk, kl) /\ kl.owner = kk.owner
  BY DEF Requeued, Alike
<1>2. ASSUME NEW o \in Objects
      PROVE  ObjectKeepsCounts(kk, kl, o)
  <2>1. Reaches(kl, o) = Reaches(kk, o) /\ Recognizes(kl, o) = Recognizes(kk, o)
    BY DEF Requeued, Reaches, Recognizes, Reachers, Recognizers
  <2>2. Exact(kk, o) /\ Listed(kk, o) /\ (Reaches(kk, o) > 0 => Flagged(kk, o))
    BY DEF CountsInv
  <2> QED
    BY <1>1, <2>1, <2>2
    DEF Requeued, ObjectKeepsCounts, ObjectCounts, Exact, Listed, Flagged, Unheld,
        KernelObjectExists
<1> QED
  BY <1>1, <1>2, AlikeKeepsCounts

LEMMA DecrementEffect ==
  ASSUME NEW kk \in KernelState, NEW o \in Objects,
         kk.refCount[o].reachable >= 1,
         kk.refCount[o].recognizable >= kk.refCount[o].reachable,
         KernelObjectExists(kk, o),
         NEW kl, kl = DecrementRefCount(kk, o)
  PROVE  /\ kl \in KernelState /\ Rest(kk, kl) /\ kl.reach = kk.reach
         /\ Counted(kk, kl, o, -1, -1)
         /\ \A p \in Objects : p # o => kl.refCount[p] = kk.refCount[p]
         /\ \A p \in Objects : p \in kl.maybeFree <=>
              \/ p \in kk.maybeFree
              \/ p = o /\ (kl.refCount[o].reachable = 0 \/ kl.refCount[o].recognizable = 0)
<1>1. kk.refCount[o].reachable \in Nat /\ kk.refCount[o].recognizable \in Nat
  BY DEF KernelState, RefCount
<1>2. ASSUME NEW p \in {o}, KernelObjectExists(kk, p)
      PROVE  /\ kk.refCount[p].reachable >= 1
             /\ kk.refCount[p].recognizable - 1 >= kk.refCount[p].reachable - 1
  BY <1>1
<1>3. kl = DecrementRefCounts(kk, {o}, 1)
  BY ConstantsType DEF DecrementRefCount
<1>4. Released(kk, kl, {o}, 1) /\ kl.reach = kk.reach
  BY <1>2, <1>3, DecrementRefCountsEffect
<1> QED
  BY <1>4 DEF Released

\* What a queued message names is ready.
LEMMA QueuedIsReady ==
  ASSUME NEW kk \in KernelState, CountsInv(kk), NEW taken \in KernelState,
         NEW m \in Message, HolderAdded(taken, kk, m)
  PROVE  /\ Ready(kk, m.target) /\ (m.arg # NoObject => Ready(kk, m.arg))
         /\ \A o \in Objects : Reaches(kk, o) >= Names(m, o)
<1>1. ASSUME NEW o \in Objects
      PROVE  /\ Reaches(kk, o) >= Names(m, o) /\ Names(m, o) \in Nat
             /\ Names(m, o) > 0 => Ready(kk, o)
  <2>1. /\ QueueHolders(kk, o) = QueueHolders(taken, o) + Names(m, o)
        /\ QueueHolders(taken, o) \in Nat /\ Names(m, o) \in Nat
        /\ Reaches(kk, o) \in Nat /\ QueueHolders(kk, o) <= Reaches(kk, o)
        /\ QueueHolders(kk, o) \in Nat
    BY ReferencesType, NamesCounts DEF HolderAdded
  <2>2. Exact(kk, o) /\ (Reaches(kk, o) > 0 => Flagged(kk, o))
    BY DEF CountsInv
  <2> QED
    BY <2>1, <2>2 DEF Ready, Exact
<1>2. m.target \in Objects /\ Names(m, m.target) > 0
  BY DEF Message, Names
<1>3. m.arg # NoObject => m.arg \in Objects /\ Names(m, m.arg) > 0
  BY DEF Message, Names
<1> QED
  BY <1>1, <1>2, <1>3

LEMMA ReleasedSendCounts ==
  ASSUME NEW kk \in KernelState, CountsInv(kk), NEW taken, Requeued(kk, taken),
         NEW m \in Message, HolderAdded(taken, kk, m),
         NEW kl, kl = DecrementSendEventRefCount(taken, m)
  PROVE  /\ KeepsCounts(kk, kl)
         /\ \A o \in Objects : Ready(kk, o) => Ready(kl, o)
<1> DEFINE t == m.target
           a == m.arg
           first == DecrementRefCount(taken, t)
<1>1. t \in Objects /\ a \in Objects \cup {NoObject} /\ t # NoObject
  BY ConstantsType DEF Message
<1>2. taken \in KernelState
  BY DEF Requeued
<1>3. ASSUME NEW o \in Objects
      PROVE  /\ Exact(kk, o) /\ (Reaches(kk, o) > 0 => Flagged(kk, o)) /\ Listed(kk, o)
             /\ Reaches(kk, o) \in Nat /\ Recognizes(kk, o) \in Nat
             /\ Reaches(kk, o) <= Recognizes(kk, o)
             /\ Names(m, o) \in Nat /\ Reaches(kk, o) >= Names(m, o)
             /\ Names(m, o) = (IF o = t THEN 1 ELSE 0) + (IF o = a THEN 1 ELSE 0)
  BY <1>2, ReferencesType, NamesCounts, QueuedIsReady DEF CountsInv, Names
<1>4. kl = DecrementRefCount(first, a)
  BY DEF DecrementSendEventRefCount
<1>5. taken.refCount = kk.refCount /\ taken.maybeFree = kk.maybeFree
      /\ taken.reach = kk.reach /\ taken.imports = kk.imports /\ Alike(kk, taken)
  BY DEF Requeued
<1> HIDE DEF t, a, first
<1>6. ASSUME NEW o \in Objects, o = t \/ o = a
      PROVE  /\ KernelObjectExists(taken, o) /\ KernelObjectExists(kk, o)
             /\ taken.refCount[o].reachable = Reaches(kk, o)
             /\ taken.refCount[o].recognizable = Recognizes(kk, o)
             /\ Flagged(kk, o)
  BY <1>3, <1>5, <1>6 DEF Exact, KernelObjectExists
<1>7. /\ first \in KernelState /\ Rest(taken, first) /\ first.reach = taken.reach
      /\ Counted(taken, first, t, -1, -1)
      /\ \A p \in Objects : p # t => first.refCount[p] = taken.refCount[p]
      /\ \A p \in Objects : p \in first.maybeFree <=>
           \/ p \in taken.maybeFree
           \/ p = t /\ (first.refCount[t].reachable = 0 \/ first.refCount[t].recognizable = 0)
  <2>1. /\ KernelObjectExists(taken, t) /\ taken.refCount[t].reachable >= 1
        /\ taken.refCount[t].recognizable >= taken.refCount[t].reachable
    BY <1>1, <1>3, <1>6
  <2> QED
    BY <1>1, <1>2, <2>1, DecrementEffect DEF first
<1>8. ASSUME a # NoObject
      PROVE  /\ kl \in KernelState /\ Rest(first, kl) /\ kl.reach = first.reach
             /\ Counted(first, kl, a, -1, -1)
             /\ \A p \in Objects : p # a => kl.refCount[p] = first.refCount[p]
             /\ \A p \in Objects : p \in kl.maybeFree <=>
                  \/ p \in first.maybeFree
                  \/ p = a /\ (kl.refCount[a].reachable = 0 \/ kl.refCount[a].recognizable = 0)
  <2>0. a \in Objects
    BY <1>1, <1>8
  <2>1. /\ KernelObjectExists(taken, a)
        /\ taken.refCount[a].reachable = Reaches(kk, a)
        /\ taken.refCount[a].recognizable = Recognizes(kk, a)
    BY <1>6, <2>0
  <2>2. CASE a = t
    <3>1. Names(m, a) = 2
      BY <1>3, <2>0, <2>2
    <3>2. /\ KernelObjectExists(first, a)
          /\ first.refCount[a].reachable = Reaches(kk, a) - 1
          /\ first.refCount[a].recognizable = Recognizes(kk, a) - 1
      BY <1>3, <1>7, <2>0, <2>1, <2>2 DEF Counted
    <3>3. first.refCount[a].reachable >= 1
          /\ first.refCount[a].recognizable >= first.refCount[a].reachable
      BY <1>3, <2>0, <3>1, <3>2
    <3> QED
      BY <1>4, <1>7, <2>0, <3>2, <3>3, DecrementEffect
  <2>3. CASE a # t
    <3>1. Names(m, a) = 1
      BY <1>3, <2>0, <2>3
    <3>2. /\ KernelObjectExists(first, a)
          /\ first.refCount[a].reachable = Reaches(kk, a)
          /\ first.refCount[a].recognizable = Recognizes(kk, a)
      BY <1>7, <2>0, <2>1, <2>3 DEF KernelObjectExists
    <3>3. first.refCount[a].reachable >= 1
          /\ first.refCount[a].recognizable >= first.refCount[a].reachable
      BY <1>3, <2>0, <3>1, <3>2
    <3> QED
      BY <1>4, <1>7, <2>0, <3>2, <3>3, DecrementEffect
  <2> QED
    BY <2>2, <2>3
<1>9. a = NoObject => kl = first
  BY <1>4 DEF DecrementRefCount
<1>10. /\ kl \in KernelState /\ Rest(taken, kl) /\ kl.reach = kk.reach
  BY <1>5, <1>7, <1>8, <1>9 DEF Rest, SameTable
<1>11. kl.owner = kk.owner /\ kl.imports = kk.imports /\ Alike(kk, kl)
  BY <1>5, <1>10 DEF Rest, SameTable, Alike
<1>12. ASSUME NEW o \in Objects, o = t \/ o = a
       PROVE  /\ KernelObjectExists(kl, o)
              /\ kl.refCount[o].reachable = Reaches(kk, o) - Names(m, o)
              /\ kl.refCount[o].recognizable = Recognizes(kk, o) - Names(m, o)
              /\ kl.refCount[o].reachable = 0 => o \in kl.maybeFree
  <2>1. /\ KernelObjectExists(taken, o) /\ o # NoObject
        /\ taken.refCount[o].reachable = Reaches(kk, o)
        /\ taken.refCount[o].recognizable = Recognizes(kk, o)
    BY <1>6, <1>12, ConstantsType
  <2>2. CASE o = t /\ o # a
    <3>1. Names(m, o) = 1
      BY <1>3, <2>2
    <3>2. /\ KernelObjectExists(first, o)
          /\ first.refCount[o].reachable = Reaches(kk, o) + (-1)
          /\ first.refCount[o].recognizable = Recognizes(kk, o) + (-1)
          /\ first.refCount[o].reachable = 0 => o \in first.maybeFree
      BY <1>7, <2>1, <2>2 DEF Counted
    <3>3. kl.refCount[o] = first.refCount[o] /\ (o \in first.maybeFree => o \in kl.maybeFree)
      BY <1>8, <1>9, <2>2
    <3> QED
      BY <1>3, <3>1, <3>2, <3>3 DEF KernelObjectExists
  <2>3. CASE o # t /\ o = a
    <3>1. Names(m, o) = 1
      BY <1>3, <2>3
    <3>2. first.refCount[o] = taken.refCount[o]
      BY <1>7, <2>3
    <3>3. /\ KernelObjectExists(kl, o)
          /\ kl.refCount[o].reachable = first.refCount[o].reachable + (-1)
          /\ kl.refCount[o].recognizable = first.refCount[o].recognizable + (-1)
          /\ kl.refCount[o].reachable = 0 => o \in kl.maybeFree
      BY <1>8, <2>1, <2>3 DEF Counted
    <3> QED
      BY <1>3, <2>1, <3>1, <3>2, <3>3
  <2>4. CASE o = t /\ o = a
    <3>1. Names(m, o) = 2
      BY <1>3, <2>4
    <3>2. /\ first.refCount[o].reachable = Reaches(kk, o) + (-1)
          /\ first.refCount[o].recognizable = Recognizes(kk, o) + (-1)
      BY <1>7, <2>1, <2>4 DEF Counted
    <3>3. /\ KernelObjectExists(kl, o)
          /\ kl.refCount[o].reachable = first.refCount[o].reachable + (-1)
          /\ kl.refCount[o].recognizable = first.refCount[o].recognizable + (-1)
          /\ kl.refCount[o].reachable = 0 => o \in kl.maybeFree
      BY <1>8, <2>1, <2>4 DEF Counted
    <3> QED
      BY <1>3, <3>1, <3>2, <3>3
  <2> QED
    BY <1>12, <2>2, <2>3, <2>4
<1>13. ASSUME NEW o \in Objects, o # t, o # a
       PROVE  /\ Names(m, o) = 0 /\ kl.refCount[o] = kk.refCount[o]
              /\ o \in kl.maybeFree <=> o \in kk.maybeFree
  <2>1. a = NoObject \/ a # NoObject
    OBVIOUS
  <2> QED
    BY <1>3, <1>5, <1>7, <1>8, <1>9, <1>13, <2>1
<1>14. ASSUME NEW o \in Objects
       PROVE  /\ ObjectKeepsCounts(kk, kl, o)
              /\ KernelObjectExists(kl, o) = KernelObjectExists(kk, o)
  <2>1. /\ Reaches(kl, o) = Reaches(kk, o) - Names(m, o)
        /\ Recognizes(kl, o) = Recognizes(kk, o) - Names(m, o)
    <3>1. kl.acceptanceQueue = taken.acceptanceQueue /\ kl.runQueue = taken.runQueue
      BY <1>10 DEF Rest, SameTable
    <3>2. /\ QueueHolders(kl, o) = QueueHolders(taken, o)
          /\ QueueHolders(taken, o) \in Nat /\ QueueHolders(kk, o) \in Nat
          /\ QueueHolders(kk, o) = QueueHolders(taken, o) + Names(m, o)
      BY <1>2, <3>1, ReferencesType DEF QueueHolders, HolderAdded
    <3> DEFINE n == - Names(m, o)
    <3>3. QueueHolders(kl, o) = QueueHolders(kk, o) + n /\ n \in Int
      BY <1>3, <3>2
    <3>4. kl.imports = kk.imports /\ kl.reach = kk.reach
      BY <1>10, <1>11
    <3> HIDE DEF n
    <3>5. Reaches(kl, o) = Reaches(kk, o) + n /\ Recognizes(kl, o) = Recognizes(kk, o) + n
      BY <1>10, <3>3, <3>4, OneMessage
    <3> QED
      BY <1>3, <3>5 DEF n
  <2>2. Listed(kl, o)
    BY <1>3, <1>10, <1>11 DEF Listed
  <2>3. CASE o = t \/ o = a
    <3>1. Exact(kl, o) /\ Flagged(kl, o)
      BY <1>6, <1>10, <1>11, <1>12, <2>1, <2>3 DEF Exact, Flagged
    <3>2. KernelObjectExists(kl, o) = KernelObjectExists(kk, o)
      BY <1>6, <1>10, <1>12, <2>3 DEF KernelObjectExists, KernelState, RefCount
    <3>3. ~Unheld(kl, o)
      BY <1>12, <2>1, <2>3 DEF Unheld
    <3> QED
      BY <2>2, <3>1, <3>2, <3>3 DEF ObjectKeepsCounts, ObjectCounts
  <2>4. CASE o # t /\ o # a
    <3>1. /\ kl.refCount[o] = kk.refCount[o] /\ (o \in kl.maybeFree <=> o \in kk.maybeFree)
          /\ Reaches(kl, o) = Reaches(kk, o) /\ Recognizes(kl, o) = Recognizes(kk, o)
      BY <1>3, <1>13, <2>1, <2>4
    <3> QED
      BY <1>3, <1>10, <1>11, <2>2, <3>1
      DEF ObjectKeepsCounts, ObjectCounts, Exact, Flagged, Unheld, KernelObjectExists
  <2> QED
    BY <2>3, <2>4 DEF ObjectKeepsCounts, ObjectCounts
<1>15. \A o \in Objects : Ready(kk, o) => Ready(kl, o)
  BY <1>10, <1>11, <1>14 DEF Ready, Flagged
<1> QED
  BY <1>10, <1>11, <1>14, <1>15, AlikeKeepsCounts

-----------------------------------------------------------------------------
\* Deleting objects that nobody reaches.

\* The objects of S have no owner and are no more; flags and c-lists stay.
ObjectsDeleted(kk, kl, S) ==
  /\ kl \in KernelState
  /\ kl.owner = [o \in Objects |-> IF o \in S THEN NoVat ELSE kk.owner[o]]
  /\ \A o \in S : ~KernelObjectExists(kl, o)
  /\ \A o \in Objects \ S : kl.refCount[o] = kk.refCount[o]
  /\ kl.imports = kk.imports /\ kl.exports = kk.exports /\ kl.reach = kk.reach
  /\ SameQueues(kk, kl) /\ kl.maybeFree = kk.maybeFree
  /\ kl.liveIDs = kk.liveIDs /\ kl.initialized = kk.initialized
  /\ kl.terminated = kk.terminated /\ kl.terminatedVats = kk.terminatedVats
  /\ kk.gcActions \subseteq kl.gcActions
  /\ kk.liveIDs \subseteq kk.initialized => kl.failed = kk.failed

LEMMA DeleteKernelObjectsEffect ==
  ASSUME NEW kk \in KernelState, NEW S \in SUBSET Objects,
         NEW kl, kl = DeleteKernelObjects(kk, S)
  PROVE  ObjectsDeleted(kk, kl, S)
<1> DEFINE ow == [o \in Objects |-> IF o \in S THEN NoVat ELSE kk.owner[o]]
           rc == [o \in Objects |->
                    IF o \in S
                    THEN [exists |-> FALSE, reachable |-> 0, recognizable |-> 0]
                    ELSE kk.refCount[o]]
<1>1. kl = [kk EXCEPT !.owner = ow, !.refCount = rc, !.kernelObjects = @ - Cardinality(S)]
  BY DEF DeleteKernelObjects
<1>2. kl \in KernelState
  BY DeleteKernelObjectsType
<1>3. /\ \A o \in S : rc[o] = [exists |-> FALSE, reachable |-> 0, recognizable |-> 0]
      /\ \A o \in Objects \ S : rc[o] = kk.refCount[o]
  OBVIOUS
<1> HIDE DEF ow, rc
<1>4. /\ kl.owner = ow /\ kl.refCount = rc
      /\ kl.imports = kk.imports /\ kl.exports = kk.exports /\ kl.reach = kk.reach
      /\ SameQueues(kk, kl) /\ kl.maybeFree = kk.maybeFree
      /\ kl.liveIDs = kk.liveIDs /\ kl.initialized = kk.initialized
      /\ kl.terminated = kk.terminated /\ kl.terminatedVats = kk.terminatedVats
      /\ kl.gcActions = kk.gcActions /\ kl.failed = kk.failed
  BY <1>1 DEF KernelState, SameQueues
<1>5. ASSUME NEW o \in S
      PROVE  ~KernelObjectExists(kl, o)
  <2>1. kl.refCount[o] = [exists |-> FALSE, reachable |-> 0, recognizable |-> 0]
    BY <1>3, <1>4
  <2>2. ~kl.refCount[o].exists
    BY ONLY <2>1
  <2> QED
    BY <2>2 DEF KernelObjectExists
<1> QED
  BY <1>2, <1>3, <1>4, <1>5 DEF ObjectsDeleted, ow

\* Every live vat that imports a member of S is told.
ImportersTold(kk, kl, S) ==
  \A o \in S : \A w \in kk.liveIDs :
    o \in kk.imports[w] => [vat |-> w, type |-> "retireImport", kref |-> o] \in kl.gcActions

LEMMA RetireKernelObjectsEffect ==
  ASSUME NEW kk \in KernelState, NEW S \in SUBSET Objects,
         NEW kl, kl = RetireKernelObjects(kk, S)
  PROVE  ObjectsDeleted(kk, kl, S) /\ ImportersTold(kk, kl, S)
<1> DEFINE actions == UNION {{[vat |-> v, type |-> "retireImport", kref |-> o] :
                                v \in GetImporters(kk, o)} : o \in S}
           scanned == \A v \in kk.liveIDs : ProvidesVatKeeper(kk, v)
           deleted == DeleteKernelObjects(kk, S)
<1>1. kl \in KernelState
  BY RetireKernelObjectsType
<1>2. CASE S = {}
  <2>1. kl = kk
    BY <1>2 DEF RetireKernelObjects
  <2>2. kk.owner = [o \in Objects |-> kk.owner[o]]
    BY DEF KernelState
  <2> QED
    BY <1>2, <2>1, <2>2 DEF ObjectsDeleted, ImportersTold, SameQueues
<1>3. CASE S # {}
  <2>1. ObjectsDeleted(kk, deleted, S)
    BY DeleteKernelObjectsEffect
  <2>2. \A o \in S : \A w \in kk.liveIDs : o \in kk.imports[w] =>
          [vat |-> w, type |-> "retireImport", kref |-> o] \in actions
    BY DEF GetImporters
  <2>3. kl = [deleted EXCEPT !.gcActions = @ \cup actions, !.failed = @ \/ ~scanned]
    BY <1>3 DEF RetireKernelObjects
  <2>4. kk.liveIDs \subseteq kk.initialized => scanned
    BY DEF ProvidesVatKeeper
  <2> HIDE DEF deleted, actions, scanned
  <2>5. deleted \in KernelState
    BY <2>1 DEF ObjectsDeleted
  <2>6. /\ kl.owner = deleted.owner /\ kl.refCount = deleted.refCount
        /\ kl.imports = deleted.imports /\ kl.exports = deleted.exports
        /\ kl.reach = deleted.reach /\ SameQueues(deleted, kl)
        /\ kl.maybeFree = deleted.maybeFree
        /\ kl.liveIDs = deleted.liveIDs /\ kl.initialized = deleted.initialized
        /\ kl.terminated = deleted.terminated /\ kl.terminatedVats = deleted.terminatedVats
        /\ kl.gcActions = deleted.gcActions \cup actions
        /\ kl.failed = (deleted.failed \/ ~scanned)
    BY <2>3, <2>5 DEF KernelState, SameQueues
  <2>7. kk.liveIDs \subseteq kk.initialized => kl.failed = kk.failed
    <3> SUFFICES ASSUME kk.liveIDs \subseteq kk.initialized
                 PROVE  kl.failed = kk.failed
      OBVIOUS
    <3>1. scanned /\ deleted.failed = kk.failed /\ kk.failed \in BOOLEAN
      BY <2>1, <2>4 DEF ObjectsDeleted, KernelState
    <3> QED
      BY <2>6, <3>1
  <2>8. ObjectsDeleted(kk, kl, S)
    BY <1>1, <2>1, <2>6, <2>7 DEF ObjectsDeleted, SameQueues, KernelObjectExists
  <2>9. ImportersTold(kk, kl, S)
    BY <2>2, <2>6 DEF ImportersTold
  <2> QED
    BY <2>8, <2>9
<1> QED
  BY <1>2, <1>3

\* The objects of S are no more, and their owners' flags are gone.
Deletes(kk, kl, S) ==
  /\ kl \in KernelState
  /\ kl.owner = [o \in Objects |-> IF o \in S THEN NoVat ELSE kk.owner[o]]
  /\ \A o \in S : ~KernelObjectExists(kl, o)
  /\ \A o \in Objects \ S : kl.refCount[o] = kk.refCount[o]
  /\ kl.imports = kk.imports /\ SameQueues(kk, kl)
  /\ \A w \in Vats, o \in Objects :
       o \in kl.reach[w] <=> o \in kk.reach[w] /\ ~(o \in S /\ kk.owner[o] = w)

LEMMA DeletesCounts ==
  ASSUME NEW kk \in KernelState, CountsInv(kk), NEW S \in SUBSET Objects,
         NEW kl, Deletes(kk, kl, S),
         \A o \in S : Reaches(kk, o) = 0
  PROVE  /\ CountsInv(kl)
         /\ \A o \in Objects : Reaches(kl, o) = Reaches(kk, o)
                               /\ Recognizes(kl, o) = Recognizes(kk, o)
<1>1. kl \in KernelState /\ kl.imports = kk.imports /\ SameQueues(kk, kl)
  BY DEF Deletes
<1>2. ASSUME NEW o \in Objects
      PROVE  Reaches(kl, o) = Reaches(kk, o) /\ Recognizes(kl, o) = Recognizes(kk, o)
  <2>1. Recognizers(kl, o) = Recognizers(kk, o) /\ QueueHolders(kl, o) = QueueHolders(kk, o)
    BY <1>1 DEF Recognizers, QueueHolders, SameQueues
  <2>2. Reachers(kl, o) \subseteq Reachers(kk, o)
    BY <1>1 DEF Reachers, Deletes
  <2>3. Reachers(kk, o) \subseteq Reachers(kl, o)
    <3>1. CASE o \in S
      <4>1. Reachers(kk, o) = {}
        BY <3>1, ReferencesType
      <4> QED
        BY <4>1
    <3>2. CASE o \notin S
      BY <1>1, <3>2 DEF Reachers, Deletes
    <3> QED
      BY <3>1, <3>2
  <2>4. Reachers(kl, o) = Reachers(kk, o)
    BY <2>2, <2>3
  <2> QED
    BY <2>1, <2>4 DEF Reaches, Recognizes
<1>3. ASSUME NEW o \in Objects
      PROVE  /\ Exact(kl, o) /\ (Reaches(kl, o) > 0 => Flagged(kl, o))
             /\ kl.owner[o] # NoVat => KernelObjectExists(kl, o)
             /\ Listed(kl, o)
  <2>1. /\ Exact(kk, o) /\ (Reaches(kk, o) > 0 => Flagged(kk, o))
        /\ kk.owner[o] # NoVat => KernelObjectExists(kk, o)
        /\ Listed(kk, o) /\ kk.owner[o] \in Vats \cup {NoVat}
    BY DEF CountsInv, KernelState
  <2>2. CASE o \in S
    <3>1. Reaches(kl, o) = 0 /\ ~KernelObjectExists(kl, o) /\ kl.owner[o] = NoVat
      BY <1>2, <2>2 DEF Deletes
    <3>2. Listed(kl, o)
      BY <1>1, <2>1, <2>2 DEF Listed, Deletes
    <3> QED
      BY <3>1, <3>2 DEF Exact
  <2>3. CASE o \notin S
    <3>1. /\ kl.refCount[o] = kk.refCount[o] /\ kl.owner[o] = kk.owner[o]
          /\ Reaches(kl, o) = Reaches(kk, o) /\ Recognizes(kl, o) = Recognizes(kk, o)
          /\ \A w \in Vats : o \in kl.reach[w] <=> o \in kk.reach[w]
      BY <1>2, <2>3 DEF Deletes
    <3> QED
      BY <1>1, <2>1, <3>1 DEF Exact, Flagged, Listed, KernelObjectExists
  <2> QED
    BY <2>2, <2>3
<1>4. CountsInv(kl)
  BY <1>3 DEF CountsInv
<1> QED
  BY <1>2, <1>4

LEMMA DeletesKeepsCounts ==
  ASSUME NEW kk \in KernelState, CountsInv(kk), NEW S \in SUBSET Objects,
         NEW kl, Deletes(kk, kl, S), ImportersTold(kk, kl, S),
         \A o \in S : Reaches(kk, o) = 0,
         kl.maybeFree = kk.maybeFree, kl.liveIDs = kk.liveIDs,
         kl.initialized = kk.initialized,
         kl.terminated = kk.terminated, kl.terminatedVats = kk.terminatedVats,
         kk.gcActions \subseteq kl.gcActions,
         kk.liveIDs \subseteq kk.initialized => kl.failed = kk.failed
  PROVE  KeepsCounts(kk, kl)
<1>0. kl \in KernelState
  BY DEF Deletes
<1>1. /\ CountsInv(kl) /\ kl \in KernelState
      /\ \A o \in Objects : Reaches(kl, o) = Reaches(kk, o)
                            /\ Recognizes(kl, o) = Recognizes(kk, o)
  BY <1>0, DeletesCounts
<1>2. ASSUME NEW o \in Objects
      PROVE  ObjectFollows(kk, kl, o)
  <2>1. CASE o \in S
    BY <2>1 DEF ObjectFollows, Unheld, Deletes
  <2>2. CASE o \notin S
    <3>1. /\ kl.refCount[o] = kk.refCount[o] /\ kl.owner[o] = kk.owner[o]
          /\ kk.owner[o] \in Vats \cup {NoVat}
          /\ \A w \in Vats : o \in kl.reach[w] <=> o \in kk.reach[w]
      BY <2>2 DEF Deletes, KernelState
    <3> QED
      BY <1>1, <3>1 DEF ObjectFollows, Unheld, KernelObjectExists
  <2> QED
    BY <2>1, <2>2
<1>3. ASSUME NEW w \in kl.liveIDs, NEW o \in kl.imports[w], ~KernelObjectExists(kl, o)
      PROVE  \/ o \in kk.imports[w] /\ ~KernelObjectExists(kk, o)
             \/ [vat |-> w, type |-> "retireImport", kref |-> o] \in kl.gcActions
  <2>1. w \in Vats /\ o \in Objects /\ o \in kk.imports[w]
    BY <1>1 DEF KernelState, Deletes
  <2>2. CASE o \in S
    BY <2>1, <2>2 DEF ImportersTold
  <2>3. CASE o \notin S
    BY <1>3, <2>1, <2>3 DEF Deletes, KernelObjectExists
  <2> QED
    BY <2>2, <2>3
<1>4. VatsFollow(kk, kl)
  BY DEF VatsFollow, Deletes
<1> QED
  BY <1>1, <1>2, <1>3, <1>4 DEF KeepsCounts, KeepsBut, Follows

\* Deleting c-list entries that are no imports only takes flags off.
LEMMA DeleteExportsEffect ==
  ASSUME NEW kk \in KernelState, NEW v \in Vats, NEW S \in SUBSET Objects,
         \A o \in S : o \notin kk.imports[v],
         NEW kl, kl = DeleteCListEntries(kk, v, S)
  PROVE  /\ kl \in KernelState /\ kl.refCount = kk.refCount /\ kl.imports = kk.imports
         /\ kl.reach = [kk.reach EXCEPT ![v] = @ \ S]
         /\ kl.owner = kk.owner /\ SameQueues(kk, kl) /\ kl.maybeFree = kk.maybeFree
         /\ kl.gcActions = kk.gcActions
         /\ kl.liveIDs = kk.liveIDs /\ kl.initialized = kk.initialized
         /\ kl.terminated = kk.terminated /\ kl.terminatedVats = kk.terminatedVats
         /\ kl.failed = kk.failed
<1> DEFINE flagged == [kk EXCEPT !.reach[v] = @ \ S]
           cleared == ClearReachableFlags(kk, v, S)
           decremented == DecrementRefCounts(cleared, S \cap kk.imports[v], 0)
           counted == {o \in S \cap kk.imports[v] \cap kk.reach[v] : KernelObjectExists(kk, o)}
           zero == {o \in counted :
                      SetObjectRefCounts(flagged, counted, -1, 0).refCount[o].reachable = 0}
<1>1. counted = {} /\ S \cap kk.imports[v] = {} /\ zero = {}
  OBVIOUS
<1>2. ASSUME NEW km \in KernelState, NEW d \in Int, NEW e \in Int
      PROVE  SetObjectRefCounts(km, {}, d, e) = km
  <2>1. km.refCount = [o \in Objects |-> km.refCount[o]]
    BY DEF KernelState
  <2>2. SetObjectRefCounts(km, {}, d, e) = [km EXCEPT !.refCount = km.refCount]
    BY <2>1 DEF SetObjectRefCounts
  <2>3. [km EXCEPT !.refCount = km.refCount] = km
    BY DEF KernelState
  <2> QED
    BY <2>2, <2>3
<1>3. ASSUME NEW km \in KernelState
      PROVE  [km EXCEPT !.maybeFree = @ \cup {}] = km
  BY DEF KernelState
<1>4. flagged \in KernelState
  BY DEF KernelState
<1>5. cleared = flagged
  <2>1. cleared = [SetObjectRefCounts(flagged, {}, -1, 0) EXCEPT !.maybeFree = @ \cup {}]
    BY <1>1 DEF ClearReachableFlags
  <2> HIDE DEF flagged, cleared
  <2>2. -1 \in Int /\ 0 \in Int
    OBVIOUS
  <2>3. SetObjectRefCounts(flagged, {}, -1, 0) = flagged
    BY <1>2, <1>4, <2>2
  <2> QED
    BY <1>3, <1>4, <2>1, <2>3
<1>6. decremented = flagged
  <2> HIDE DEF flagged, cleared
  <2>1. DecrementRefCounts(flagged, {}, 0) =
          [SetObjectRefCounts(flagged, {}, -0, -1) EXCEPT !.maybeFree = @ \cup {}]
    <3> DEFINE km == SetObjectRefCounts(flagged, {}, -0, -1)
    <3>1. {o \in {} : KernelObjectExists(flagged, o)} = {}
      OBVIOUS
    <3>2. {o \in {} : km.refCount[o].reachable = 0 \/ km.refCount[o].recognizable = 0} = {}
      OBVIOUS
    <3> QED
      BY <3>1, <3>2 DEF DecrementRefCounts
  <2>2. -1 \in Int /\ -0 \in Int
    OBVIOUS
  <2>3. SetObjectRefCounts(flagged, {}, -0, -1) = flagged
    BY <1>2, <1>4, <2>2
  <2> QED
    BY <1>1, <1>3, <1>4, <1>5, <2>1, <2>3
<1>7. kl = [flagged EXCEPT !.imports[v] = @ \ S, !.exports[v] = @ \ S]
  BY <1>6 DEF DeleteCListEntries
<1>8. kl \in KernelState
  BY DeleteCListEntriesType
<1>9. kk.imports[v] \ S = kk.imports[v]
  BY <1>1
<1>10. kl.imports = kk.imports
  BY <1>7, <1>9 DEF KernelState
<1>11. kl.imports = kk.imports /\ kl.reach = flagged.reach /\ kl.refCount = flagged.refCount
       /\ kl.owner = flagged.owner /\ SameQueues(flagged, kl)
       /\ kl.maybeFree = flagged.maybeFree /\ kl.gcActions = flagged.gcActions
       /\ kl.liveIDs = flagged.liveIDs /\ kl.initialized = flagged.initialized
       /\ kl.terminated = flagged.terminated
       /\ kl.terminatedVats = flagged.terminatedVats /\ kl.failed = flagged.failed
  <2> DEFINE im == [flagged.imports EXCEPT ![v] = @ \ S]
             ex == [flagged.exports EXCEPT ![v] = @ \ S]
  <2>1. kl = [flagged EXCEPT !.imports = im, !.exports = ex]
    BY <1>4, <1>7 DEF KernelState
  <2> HIDE DEF im, ex, flagged
  <2> QED
    BY <1>4, <1>10, <2>1 DEF KernelState, SameQueues
<1>12. flagged.reach = [kk.reach EXCEPT ![v] = @ \ S] /\ flagged.refCount = kk.refCount
       /\ flagged.owner = kk.owner /\ SameQueues(kk, flagged)
       /\ flagged.maybeFree = kk.maybeFree /\ flagged.gcActions = kk.gcActions
       /\ flagged.liveIDs = kk.liveIDs /\ flagged.initialized = kk.initialized
       /\ flagged.terminated = kk.terminated
       /\ flagged.terminatedVats = kk.terminatedVats /\ flagged.failed = kk.failed
  <2> DEFINE re == [kk.reach EXCEPT ![v] = @ \ S]
  <2>1. flagged = [kk EXCEPT !.reach = re]
    BY DEF KernelState
  <2> HIDE DEF flagged
  <2> QED
    BY <2>1 DEF KernelState, SameQueues
<1> HIDE DEF flagged
<1> QED
  BY <1>8, <1>11, <1>12 DEF SameQueues

LEMMA OrphanKernelObjectsCounts ==
  ASSUME NEW kk \in KernelState, CountsInv(kk), TableInv(kk), NEW v \in Vats,
         NEW S \in SUBSET Objects, \A o \in S : kk.owner[o] = v,
         NEW kl, kl = OrphanKernelObjects(kk, S, v)
  PROVE  KeepsCounts(kk, kl)
<1>1. kl = [kk EXCEPT !.owner = [o \in Objects |-> IF o \in S THEN NoVat ELSE kk.owner[o]],
                      !.exports[v] = @ \ S,
                      !.reach[v] = @ \ S,
                      !.maybeFree = @ \cup S]
  BY DEF OrphanKernelObjects
<1>2. kl \in KernelState
  BY OrphanKernelObjectsType
<1>3. /\ kl.owner = [o \in Objects |-> IF o \in S THEN NoVat ELSE kk.owner[o]]
      /\ kl.reach = [kk.reach EXCEPT ![v] = @ \ S]
      /\ kl.imports = kk.imports /\ kl.refCount = kk.refCount
      /\ kl.maybeFree = kk.maybeFree \cup S /\ kl.gcActions = kk.gcActions
      /\ kl.liveIDs = kk.liveIDs /\ kl.initialized = kk.initialized
      /\ kl.terminated = kk.terminated /\ kl.terminatedVats = kk.terminatedVats
      /\ kl.failed = kk.failed /\ SameQueues(kk, kl)
  BY <1>1 DEF KernelState, SameQueues
<1>4. /\ kl.reach[v] = kk.reach[v] \ S
      /\ \A w \in Vats \ {v} : kl.reach[w] = kk.reach[w]
  BY <1>3 DEF KernelState
<1>5. \A o \in S : o \notin kk.imports[v]
  BY DEF TableInv, ImportsAreForeign
<1>6. ASSUME NEW o \in Objects
      PROVE  Reaches(kl, o) = Reaches(kk, o) /\ Recognizes(kl, o) = Recognizes(kk, o)
  <2>1. Reachers(kl, o) = Reachers(kk, o)
    BY <1>3, <1>4, <1>5 DEF Reachers
  <2>2. Recognizers(kl, o) = Recognizers(kk, o) /\ QueueHolders(kl, o) = QueueHolders(kk, o)
    BY <1>3 DEF Recognizers, QueueHolders, SameQueues
  <2> QED
    BY <2>1, <2>2 DEF Reaches, Recognizes
<1>7. ASSUME NEW o \in Objects
      PROVE  /\ Exact(kl, o) /\ (Reaches(kl, o) > 0 => Flagged(kl, o))
             /\ kl.owner[o] # NoVat => KernelObjectExists(kl, o)
             /\ Listed(kl, o)
             /\ ObjectFollows(kk, kl, o)
  <2>1. /\ Exact(kk, o) /\ (Reaches(kk, o) > 0 => Flagged(kk, o))
        /\ kk.owner[o] # NoVat => KernelObjectExists(kk, o)
        /\ Listed(kk, o) /\ kk.owner[o] \in Vats \cup {NoVat}
    BY DEF CountsInv, KernelState
  <2>2. Exact(kl, o)
    BY <1>3, <1>6, <2>1 DEF Exact, KernelObjectExists
  <2>3. CASE o \in S
    <3>1. kl.owner[o] = NoVat /\ o \in kl.maybeFree
      BY <1>3, <2>3
    <3>2. Listed(kl, o)
      BY <1>3, <1>4, <2>1, <2>3 DEF Listed
    <3> QED
      BY <2>2, <3>1, <3>2 DEF Flagged, ObjectFollows, Unheld
  <2>4. CASE o \notin S
    <3>1. kl.owner[o] = kk.owner[o] /\ (o \in kl.maybeFree <=> o \in kk.maybeFree)
          /\ \A w \in Vats : o \in kl.reach[w] <=> o \in kk.reach[w]
      BY <1>3, <1>4, <2>4
    <3> QED
      BY <1>3, <1>6, <2>1, <2>2, <3>1
      DEF Flagged, Listed, ObjectFollows, Unheld, KernelObjectExists
  <2> QED
    BY <2>3, <2>4
<1>8. CountsInv(kl)
  BY <1>7 DEF CountsInv
<1>9. Follows(kk, kl, {})
  <2>1. VatsFollow(kk, kl)
    BY <1>3 DEF VatsFollow
  <2> QED
    BY <1>3, <1>7, <2>1 DEF Follows, KernelObjectExists
<1> QED
  BY <1>2, <1>8, <1>9 DEF KeepsCounts, KeepsBut

\* A state that differs in its lists of vats and in its actions.
SameCounts(kk, kl) ==
  /\ kl.owner = kk.owner /\ kl.refCount = kk.refCount
  /\ kl.imports = kk.imports /\ kl.reach = kk.reach /\ SameQueues(kk, kl)

LEMMA SameCountsInv ==
  ASSUME NEW kk, NEW kl, CountsInv(kk), SameCounts(kk, kl)
  PROVE  CountsInv(kl)
<1>1. \A o : Reaches(kl, o) = Reaches(kk, o) /\ Recognizes(kl, o) = Recognizes(kk, o)
  BY SameReferences DEF SameCounts
<1> QED
  BY <1>1 DEF SameCounts, CountsInv, Exact, Flagged, Listed, KernelObjectExists

LEMMA MarkVatCounts ==
  ASSUME NEW kk \in KernelState, CountsInv(kk), NEW v \in Vats, NEW cached \in BOOLEAN,
         NEW kl, kl = MarkVatAsTerminated(kk, v, cached)
  PROVE  KeepsCounts(kk, kl) /\ SameCounts(kk, kl)
<1>1. CASE ~VatIsAlive(kk, v)
  <2>1. kl = kk
    BY <1>1 DEF MarkVatAsTerminated
  <2> QED
    BY <2>1, KeepsCountsReflexive DEF SameCounts, SameQueues
<1>2. CASE VatIsAlive(kk, v)
  <2> DEFINE keepers == IF cached THEN kk.vatKeepers \cup {v} ELSE kk.vatKeepers \ {v}
             ended == Append(kk.terminatedVats, v)
  <2>1. kl = [kk EXCEPT !.liveIDs = @ \ {v}, !.terminatedVats = ended,
                        !.terminated = ended, !.vatKeepers = keepers]
    BY <1>2 DEF MarkVatAsTerminated, KernelState
  <2>2. kl \in KernelState
    BY MarkVatAsTerminatedType
  <2>3. Elements(kk.terminatedVats) \cup {v} \subseteq Elements(ended)
    <3>1. kk.terminatedVats \in Seq(Vats)
      BY DEF KernelState
    <3>2. /\ Len(ended) = Len(kk.terminatedVats) + 1 /\ Len(kk.terminatedVats) \in Nat
          /\ \A i \in 1..Len(kk.terminatedVats) : ended[i] = kk.terminatedVats[i]
          /\ ended[Len(kk.terminatedVats) + 1] = v
      BY <3>1, AppendProperties
    <3> HIDE DEF ended
    <3> QED
      BY <3>2 DEF Elements
  <2> HIDE DEF keepers, ended
  <2>4. SameCounts(kk, kl) /\ kl.maybeFree = kk.maybeFree /\ kl.gcActions = kk.gcActions
        /\ kl.liveIDs = kk.liveIDs \ {v} /\ kl.initialized = kk.initialized
        /\ kl.terminated = ended /\ kl.terminatedVats = ended /\ kl.failed = kk.failed
    BY <2>1 DEF KernelState, SameCounts, SameQueues
  <2>5. CountsInv(kl)
    BY <2>4, SameCountsInv
  <2>6. \A o : Reaches(kl, o) = Reaches(kk, o) /\ Recognizes(kl, o) = Recognizes(kk, o)
    BY <2>4, SameReferences DEF SameCounts
  <2>8. VatsFollow(kk, kl)
    BY <2>3, <2>4 DEF VatsFollow, SameCounts
  <2>7. Follows(kk, kl, {})
    BY <2>4, <2>6, <2>8 DEF Follows, SameCounts, ObjectFollows, Unheld, KernelObjectExists
  <2> QED
    BY <2>2, <2>4, <2>5, <2>7 DEF KeepsCounts, KeepsBut
<1> QED
  BY <1>1, <1>2

\* A root object is pinned.
LEMMA PinnedIsReady ==
  ASSUME NEW kk \in KernelState, CountsInv(kk), NEW v \in Vats
  PROVE  Ready(kk, v)
<1>1. v \in Objects
  BY ConstantsType
<1>2. /\ kk.acceptanceQueue \in Seq(Message) /\ kk.runQueue \in Seq(Message)
  BY DEF KernelState
<1>3. Occurrences(kk.acceptanceQueue, v) \in Nat /\ Occurrences(kk.runQueue, v) \in Nat
  BY <1>2, OccurrencesAreCounts
<1>4. QueueHolders(kk, v) > 0 /\ QueueHolders(kk, v) \in Nat
  BY <1>3 DEF QueueHolders
<1>5. Reaches(kk, v) > 0 /\ Reaches(kk, v) \in Nat
  BY <1>1, <1>4, ReferencesType
<1> QED
  BY <1>1, <1>5 DEF CountsInv, Exact, Ready

\* vatAdmin's root is one.
LEMMA AdminIsVat == AdminVat \in Vats
BY VatsAssumption DEF AdminVat, Vats

\* What vatAdmin is told must still be there.
LEMMA TerminateVatCounts ==
  ASSUME NEW kk \in KernelState, CountsInv(kk), NEW v \in Vats,
         NEW cached \in BOOLEAN, NEW info \in Objects \cup {NoObject},
         info # NoObject => Ready(kk, info),
         NEW kl, kl = TerminateVat(kk, v, cached, info)
  PROVE  KeepsCounts(kk, kl)
<1> DEFINE marked == MarkVatAsTerminated(kk, v, cached)
           m == [target |-> AdminVat, arg |-> info]
<1>1. /\ KeepsCounts(kk, marked) /\ SameCounts(kk, marked)
  BY MarkVatCounts
<1>2. m \in Message /\ m.target = AdminVat /\ m.arg = info
  BY NoticeType
<1>3. kl = DoSend(marked, m)
  BY DEF TerminateVat
<1> HIDE DEF marked, m
<1>4. marked \in KernelState /\ CountsInv(marked)
  BY <1>1 DEF KeepsCounts, KeepsBut
<1>5. Ready(kk, AdminVat)
  BY PinnedIsReady, AdminIsVat
<1>6. \A o : Ready(kk, o) => Ready(marked, o)
  BY <1>1 DEF SameCounts, Ready, Flagged, KernelObjectExists
<1>7. KeepsCounts(marked, kl)
  BY <1>2, <1>3, <1>4, <1>5, <1>6, DoSendCounts
<1> QED
  BY <1>1, <1>7, KeepsCountsTransitive

LEMMA ReportUpgradeCounts ==
  ASSUME NEW kk \in KernelState, CountsInv(kk),
         NEW kl, kl = ReportUpgrade(kk)
  PROVE  KeepsCounts(kk, kl)
<1> DEFINE m == [target |-> AdminVat, arg |-> NoObject]
<1>1. m \in Message /\ m.target = AdminVat /\ m.arg = NoObject
  BY NoticeType
<1>2. kl = DoSend(kk, m)
  BY DEF ReportUpgrade
<1> HIDE DEF m
<1>3. Ready(kk, AdminVat)
  BY PinnedIsReady, AdminIsVat
<1> QED
  BY <1>1, <1>2, <1>3, DoSendCounts

-----------------------------------------------------------------------------
\* The end of a crank.

\* What nobody reaches any more, and what of it has no live exporter.
Free(kk) == {o \in kk.maybeFree : kk.refCount[o].reachable = 0}
Orphans(kk) == {o \in Free(kk) : OwnerOfKernelObject(kk, o) = NoVat}

\* A live exporter is told of it, the importers of the others are.
Processed(kk, kl) ==
  /\ Deletes(kk, kl, Orphans(kk))
  /\ kl.maybeFree = {} /\ kk.gcActions \subseteq kl.gcActions
  /\ kl.liveIDs = kk.liveIDs /\ kl.initialized = kk.initialized
  /\ kl.terminated = kk.terminated /\ kl.terminatedVats = kk.terminatedVats
  /\ kk.liveIDs \subseteq kk.initialized => kl.failed = kk.failed
  /\ \A o \in Orphans(kk) : \A w \in kk.liveIDs :
       o \in kk.imports[w] /\ kk.refCount[o].recognizable > 0 =>
         [vat |-> w, type |-> "retireImport", kref |-> o] \in kl.gcActions
  /\ \A o \in Free(kk) \ Orphans(kk) :
       /\ kk.owner[o] # NoVat
       /\ o \in kk.reach[kk.owner[o]] =>
            [vat |-> kk.owner[o], type |-> "dropExport", kref |-> o] \in kl.gcActions
       /\ kk.refCount[o].recognizable = 0 =>
            [vat |-> kk.owner[o], type |-> "retireExport", kref |-> o] \in kl.gcActions

LEMMA ProcessRefcountsEffect ==
  ASSUME NEW kk \in KernelState, NEW kl, kl = ProcessRefcounts(kk)
  PROVE  Processed(kk, kl)
<1> DEFINE
     unreachable == {o \in kk.maybeFree : kk.refCount[o].reachable = 0}
     owned    == {o \in unreachable : OwnerOfKernelObject(kk, o) # NoVat}
     orphans  == unreachable \ owned
     recog(o) == kk.refCount[o].recognizable > 0
     act(t, o) == [vat |-> kk.owner[o], type |-> t, kref |-> o]
     drops    == {act("dropExport", o) : o \in {x \in owned : x \in kk.reach[kk.owner[x]]}}
     retires  == {act("retireExport", o) : o \in {x \in owned : ~recog(x)}}
     ownedBy(v) == {o \in orphans : kk.owner[o] = v}
     ow == [o \in Objects |-> IF o \in orphans THEN NoVat ELSE kk.owner[o]]
     ex == [v \in Vats |-> kk.exports[v] \ ownedBy(v)]
     re == [v \in Vats |-> kk.reach[v] \ ownedBy(v)]
     detached == [kk EXCEPT !.owner = ow, !.exports = ex, !.reach = re]
     kept     == {o \in orphans : recog(o)}
     gone     == {o \in orphans : ~recog(o)}
     retired  == RetireKernelObjects(detached, kept)
     deleted  == DeleteKernelObjects(retired, gone)
<1>1. /\ unreachable \in SUBSET Objects /\ orphans \in SUBSET Objects
      /\ kept \in SUBSET Objects /\ gone \in SUBSET Objects
      /\ \A o : o \in orphans <=> o \in kept \/ o \in gone
      /\ \A o \in orphans : kk.refCount[o].reachable = 0
      /\ \A o \in orphans : kk.refCount[o].recognizable > 0 => o \in kept
  BY DEF KernelState
<1>2. /\ ow \in [Objects -> Vats \cup {NoVat}]
      /\ ex \in [Vats -> SUBSET Objects] /\ re \in [Vats -> SUBSET Objects]
  BY DEF KernelState
<1>3. \A w \in Vats, o \in Objects :
        o \in re[w] <=> o \in kk.reach[w] /\ ~(o \in orphans /\ kk.owner[o] = w)
  OBVIOUS
<1>4. \A o \in Objects : ow[o] = IF o \in orphans THEN NoVat ELSE kk.owner[o]
  OBVIOUS
<1>15. Free(kk) = unreachable /\ Orphans(kk) = orphans /\ Free(kk) \ Orphans(kk) = owned
  BY DEF Free, Orphans
<1>16. ASSUME NEW o \in owned
       PROVE  /\ kk.owner[o] # NoVat
              /\ o \in kk.reach[kk.owner[o]] =>
                   [vat |-> kk.owner[o], type |-> "dropExport", kref |-> o] \in drops
              /\ kk.refCount[o].recognizable = 0 =>
                   [vat |-> kk.owner[o], type |-> "retireExport", kref |-> o] \in retires
  BY DEF OwnerOfKernelObject
<1> HIDE DEF ow, ex, re, kept, gone, orphans, owned, drops, retires
<1>5. /\ detached \in KernelState
      /\ detached.owner = ow /\ detached.reach = re
      /\ detached.refCount = kk.refCount /\ detached.imports = kk.imports
      /\ detached.gcActions = kk.gcActions
      /\ detached.liveIDs = kk.liveIDs /\ detached.initialized = kk.initialized
      /\ detached.terminated = kk.terminated /\ detached.terminatedVats = kk.terminatedVats
      /\ detached.failed = kk.failed
      /\ SameQueues(kk, detached)
  BY <1>2 DEF KernelState, SameQueues
<1> HIDE DEF detached
<1>6. ObjectsDeleted(detached, retired, kept) /\ ImportersTold(detached, retired, kept)
  BY <1>1, <1>5, RetireKernelObjectsEffect
<1> HIDE DEF retired
<1>7. retired \in KernelState
  BY <1>6 DEF ObjectsDeleted
<1>8. ObjectsDeleted(retired, deleted, gone)
  BY <1>1, <1>7, DeleteKernelObjectsEffect
<1> HIDE DEF deleted
<1>9. deleted \in KernelState
  BY <1>8 DEF ObjectsDeleted
<1>10. Deletes(kk, deleted, orphans)
  <2>1. deleted.owner = [o \in Objects |-> IF o \in orphans THEN NoVat ELSE kk.owner[o]]
    <3>1. \A o \in Objects : deleted.owner[o] = IF o \in orphans THEN NoVat ELSE kk.owner[o]
      BY <1>1, <1>4, <1>5, <1>6, <1>8 DEF ObjectsDeleted
    <3> QED
      BY <1>9, <3>1 DEF KernelState
  <2>2. \A o \in orphans : ~KernelObjectExists(deleted, o)
    <3> SUFFICES ASSUME NEW o \in orphans
                 PROVE  ~KernelObjectExists(deleted, o)
      OBVIOUS
    <3>1. CASE o \in gone
      BY <1>8, <3>1 DEF ObjectsDeleted
    <3>2. CASE o \notin gone
      BY <1>1, <1>6, <1>8, <3>2 DEF ObjectsDeleted, KernelObjectExists
    <3> QED
      BY <3>1, <3>2
  <2>3. \A o \in Objects \ orphans : deleted.refCount[o] = kk.refCount[o]
    BY <1>1, <1>5, <1>6, <1>8 DEF ObjectsDeleted
  <2>4. deleted.imports = kk.imports /\ deleted.reach = re /\ SameQueues(kk, deleted)
    BY <1>5, <1>6, <1>8 DEF ObjectsDeleted, SameQueues
  <2> QED
    BY <1>3, <1>9, <2>1, <2>2, <2>3, <2>4 DEF Deletes
<1>11. /\ detached.gcActions \subseteq retired.gcActions
       /\ retired.gcActions \subseteq deleted.gcActions
       /\ deleted.liveIDs = kk.liveIDs /\ deleted.initialized = kk.initialized
       /\ deleted.terminated = kk.terminated /\ deleted.terminatedVats = kk.terminatedVats
       /\ kk.liveIDs \subseteq kk.initialized => deleted.failed = kk.failed
  BY <1>5, <1>6, <1>8 DEF ObjectsDeleted
<1>12. ASSUME NEW o \in orphans, NEW w \in kk.liveIDs, o \in kk.imports[w],
              kk.refCount[o].recognizable > 0
       PROVE  [vat |-> w, type |-> "retireImport", kref |-> o] \in deleted.gcActions
  BY <1>1, <1>5, <1>6, <1>11, <1>12 DEF ImportersTold
<1> DEFINE actions == deleted.gcActions \cup drops \cup retires
<1>13. kl = [deleted EXCEPT !.gcActions = actions, !.maybeFree = {}]
  BY <1>9 DEF ProcessRefcounts, deleted, retired, detached, ow, ex, re, kept, gone,
     orphans, owned, drops, retires, KernelState
<1>14. kl \in KernelState
  BY ProcessRefcountsType
<1> HIDE DEF actions
<1>17. /\ kl.owner = deleted.owner /\ kl.refCount = deleted.refCount
       /\ kl.imports = deleted.imports /\ kl.reach = deleted.reach /\ SameQueues(deleted, kl)
       /\ kl.maybeFree = {} /\ kl.gcActions = actions
       /\ kl.liveIDs = deleted.liveIDs /\ kl.initialized = deleted.initialized
       /\ kl.terminated = deleted.terminated /\ kl.terminatedVats = deleted.terminatedVats
       /\ kl.failed = deleted.failed
  BY <1>9, <1>13 DEF KernelState, SameQueues
<1>18. Deletes(kk, kl, orphans)
  BY <1>10, <1>14, <1>17 DEF Deletes, SameQueues, KernelObjectExists
<1>19. /\ deleted.gcActions \subseteq kl.gcActions
       /\ drops \subseteq kl.gcActions /\ retires \subseteq kl.gcActions
  BY <1>17 DEF actions
<1> QED
  BY <1>5, <1>11, <1>12, <1>15, <1>16, <1>17, <1>18, <1>19 DEF Processed

LEMMA ProcessRefcountsCounts ==
  ASSUME NEW kk \in KernelState, CountsInv(kk)
  PROVE  CountsInv(ProcessRefcounts(kk))
<1>1. \A o \in Orphans(kk) : o \in Objects /\ kk.refCount[o].reachable = 0
  BY DEF Orphans, Free, KernelState
<1>2. \A o \in Orphans(kk) : Reaches(kk, o) = 0
  BY <1>1 DEF CountsInv, Exact
<1>3. Deletes(kk, ProcessRefcounts(kk), Orphans(kk))
  BY ProcessRefcountsEffect DEF Processed
<1>4. Orphans(kk) \in SUBSET Objects
  BY <1>1
<1> QED
  BY <1>2, <1>3, <1>4, DeletesCounts

LEMMA FinishCrankCounts ==
  ASSUME NEW kk \in KernelState, CountsInv(kk), FinishCrank(kk)
  PROVE  CountsInv(k') /\ CountsInv(saved')
BY ProcessRefcountsCounts DEF FinishCrank

-----------------------------------------------------------------------------
\* The actions.

LEMMA HoldersFacts ==
  ASSUME HoldersInv
  PROVE  /\ k \in KernelState /\ TableInv(k) /\ CountsInv(k)
         /\ saved \in KernelState /\ TableInv(saved) /\ CountsInv(saved)
         /\ TypeOK
BY DEF HoldersInv, OwnerInv, TypeOK

LEMMA HostStepKeeps ==
  ASSUME HoldersInv, HostStep
  PROVE  \/ KeepsCounts(k, k') /\ (saved' = k' \/ saved' = k)
         \/ Restart /\ SameCounts(k, k') /\ saved' = k'
<1>1. k \in KernelState /\ TableInv(k) /\ CountsInv(k) /\ KeepsCounts(k, k)
  BY HoldersFacts, KeepsCountsReflexive
<1>2. ASSUME NEW v \in Vats, QueueToVatRoot(v)
      PROVE  KeepsCounts(k, k') /\ saved' = k'
  <2> DEFINE m == [target |-> v, arg |-> NoObject]
  <2>1. m \in Message /\ m.target = v /\ m.arg = NoObject
    BY ConstantsType DEF Message
  <2>2. k' = DoSend(k, m) /\ saved' = k'
    BY <1>2 DEF QueueToVatRoot
  <2> HIDE DEF m
  <2>3. Ready(k, v)
    BY <1>1, PinnedIsReady
  <2> DEFINE kl == DoSend(k, m)
  <2>4. KeepsCounts(k, kl)
    <3> HIDE DEF kl
    <3>1. kl = DoSend(k, m)
      BY DEF kl
    <3> QED
      BY <1>1, <2>1, <2>3, <3>1, DoSendCounts
  <2> QED
    BY <2>2, <2>4
<1>3. CASE Restart
  <2>1. SameCounts(k, k') /\ saved' = k'
    BY <1>1, <1>3 DEF Restart, KernelState, SameCounts, SameQueues
  <2> QED
    BY <1>3, <2>1
<1>4. ASSUME NEW v \in Vats, DeliverBringOutYourDead(v) \/ DeliverUpgradeVat(v)
      PROVE  k' = k /\ saved' = k
  BY <1>4 DEF DeliverBringOutYourDead, DeliverUpgradeVat, BeginDelivery
<1>5. ASSUME k' = k
      PROVE  KeepsCounts(k, k')
  BY <1>1, <1>5
<1> QED
  BY <1>2, <1>3, <1>4, <1>5 DEF HostStep

\* A message is taken off one of the queues.
LEMMA TakenOff ==
  ASSUME NEW kk \in KernelState, NEW kl \in KernelState, NEW m,
         \/ /\ kk.acceptanceQueue # <<>> /\ m = Head(kk.acceptanceQueue)
            /\ kl = [kk EXCEPT !.acceptanceQueue = Tail(@)]
         \/ /\ kk.runQueue # <<>> /\ m = Head(kk.runQueue)
            /\ kl = [kk EXCEPT !.runQueue = Tail(@)]
  PROVE  m \in Message /\ Requeued(kk, kl) /\ HolderAdded(kl, kk, m)
<1>1. kk.acceptanceQueue \in Seq(Message) /\ kk.runQueue \in Seq(Message)
  BY DEF KernelState
<1>2. m \in Message
  BY <1>1, HeadTailProperties
<1>3. Requeued(kk, kl)
  BY DEF Requeued, Alike, KernelState
<1>4. \/ /\ kk.acceptanceQueue # <<>> /\ m = Head(kk.acceptanceQueue)
         /\ kl.acceptanceQueue = Tail(kk.acceptanceQueue) /\ kl.runQueue = kk.runQueue
      \/ /\ kk.runQueue # <<>> /\ m = Head(kk.runQueue)
         /\ kl.runQueue = Tail(kk.runQueue) /\ kl.acceptanceQueue = kk.acceptanceQueue
  BY DEF KernelState
<1>5. ASSUME NEW o \in Objects
      PROVE  QueueHolders(kk, o) = QueueHolders(kl, o) + Names(m, o)
  <2>1. kl.acceptanceQueue \in Seq(Message) /\ kl.runQueue \in Seq(Message)
    BY DEF KernelState
  <2>2. /\ Occurrences(kk.acceptanceQueue, o) \in Nat /\ Occurrences(kk.runQueue, o) \in Nat
        /\ Occurrences(kl.acceptanceQueue, o) \in Nat /\ Occurrences(kl.runQueue, o) \in Nat
        /\ Names(m, o) \in Nat
    BY <1>1, <1>2, <2>1, OccurrencesAreCounts, NamesCounts
  <2>3. \/ /\ Occurrences(kk.acceptanceQueue, o) =
                Occurrences(kl.acceptanceQueue, o) + Names(m, o)
           /\ Occurrences(kk.runQueue, o) = Occurrences(kl.runQueue, o)
        \/ /\ Occurrences(kk.runQueue, o) = Occurrences(kl.runQueue, o) + Names(m, o)
           /\ Occurrences(kk.acceptanceQueue, o) = Occurrences(kl.acceptanceQueue, o)
    BY <1>1, <1>4, OccurrencesTail
  <2> QED
    BY <2>2, <2>3 DEF QueueHolders
<1> QED
  BY <1>2, <1>3, <1>5 DEF HolderAdded

LEMMA ProcessAcceptanceMessageKeeps ==
  ASSUME HoldersInv, ProcessAcceptanceMessage
  PROVE  \E kk : KeepsCounts(k, kk) /\ FinishCrank(kk)
<1> DEFINE m == Head(k.acceptanceQueue)
           taken == [k EXCEPT !.acceptanceQueue = Tail(@)]
           routed == [taken EXCEPT !.runQueue = Append(@, m)]
           splat == DecrementSendEventRefCount(taken, m)
<1>1. k \in KernelState /\ CountsInv(k)
      /\ k.acceptanceQueue # <<>> /\ k.acceptanceQueue \in Seq(Message)
  BY HoldersFacts DEF ProcessAcceptanceMessage, KernelState
<1>2. FinishCrank(routed) \/ FinishCrank(splat)
  BY DEF ProcessAcceptanceMessage
<1>3. taken \in KernelState
  BY <1>1, HeadTailProperties DEF KernelState
<1> HIDE DEF m
<1>4. m \in Message /\ Requeued(k, taken) /\ HolderAdded(taken, k, m)
  <2> HIDE DEF taken
  <2>1. taken = [k EXCEPT !.acceptanceQueue = Tail(@)] /\ m = Head(k.acceptanceQueue)
    BY DEF taken, m
  <2> QED
    BY <1>1, <1>3, <2>1, TakenOff
<1> HIDE DEF taken
<1>5. KeepsCounts(k, splat)
  BY <1>1, <1>4, ReleasedSendCounts
<1>6. KeepsCounts(k, routed)
  <2>1. taken.runQueue \in Seq(Message) /\ Append(taken.runQueue, m) \in Seq(Message)
    BY <1>3, <1>4, AppendProperties DEF KernelState
  <2>2. routed \in KernelState /\ routed.runQueue = Append(taken.runQueue, m)
        /\ routed.acceptanceQueue = taken.acceptanceQueue
        /\ Requeued(taken, routed)
    BY <1>3, <2>1 DEF KernelState, Requeued, Alike
  <2> HIDE DEF routed
  <2>3. Requeued(k, routed)
    BY <1>4, <2>2 DEF Requeued, Alike
  <2>4. ASSUME NEW o \in Objects
        PROVE  QueueHolders(routed, o) = QueueHolders(k, o)
    <3>1. Occurrences(routed.runQueue, o) = Occurrences(taken.runQueue, o) + Names(m, o)
      BY <1>4, <2>1, <2>2, OccurrencesAppend
    <3>2. /\ Occurrences(taken.runQueue, o) \in Nat
          /\ Occurrences(taken.acceptanceQueue, o) \in Nat
          /\ Names(m, o) \in Nat
      BY <1>3, <1>4, <2>1, OccurrencesAreCounts, NamesCounts DEF KernelState
    <3>3. QueueHolders(k, o) = QueueHolders(taken, o) + Names(m, o)
      BY <1>4 DEF HolderAdded
    <3> QED
      BY <2>2, <3>1, <3>2, <3>3 DEF QueueHolders
  <2> QED
    BY <1>1, <2>3, <2>4, RequeuedCounts
<1> QED
  BY <1>2, <1>5, <1>6

LEMMA DeliverSendKeeps ==
  ASSUME HoldersInv, DeliverSend
  PROVE  \E kk : /\ KeepsCounts(k, kk)
                 /\ \/ FinishCrank(kk)
                    \/ \E v \in Vats, o \in Objects :
                         v = k.owner[o] /\ BeginDelivery(kk, "message", v)
<1> DEFINE m == Head(k.runQueue)
           v == OwnerOfKernelObject(k, m.target)
           taken == [k EXCEPT !.runQueue = Tail(@)]
           released == DecrementSendEventRefCount(taken, m)
           entered == MapKernelSlotToVatSlot(released, v, m.target)
           mapped == MapKernelSlotToVatSlot(entered, v, m.arg)
<1>1. k \in KernelState /\ CountsInv(k) /\ TableInv(k)
      /\ k.runQueue # <<>> /\ k.runQueue \in Seq(Message)
  BY HoldersFacts DEF DeliverSend, KernelState
<1>2. IF v = NoVat THEN FinishCrank(released) ELSE BeginDelivery(mapped, "message", v)
  BY DEF DeliverSend
<1>3. taken \in KernelState
  BY <1>1, HeadTailProperties DEF KernelState
<1>4. Shrinks(k, taken) /\ m \in Messages(k)
  BY <1>1, HeadTailProperties, QueueElements DEF KernelState, Shrinks, Messages
<1> HIDE DEF m
<1>5. m \in Message /\ Requeued(k, taken) /\ HolderAdded(taken, k, m)
  <2> HIDE DEF taken
  <2>1. taken = [k EXCEPT !.runQueue = Tail(@)] /\ m = Head(k.runQueue)
    BY DEF taken, m
  <2> QED
    BY <1>1, <1>3, <2>1, TakenOff
<1> HIDE DEF taken
<1>6. m.target \in Objects \cup {NoObject} /\ m.arg \in Objects \cup {NoObject}
      /\ m.target \in Objects
  BY <1>5 DEF Message
<1>7. v \in Vats \cup {NoVat} /\ (v # NoVat => v = k.owner[m.target])
  BY <1>1, <1>6 DEF OwnerOfKernelObject, KernelState
<1> HIDE DEF v
<1>8. Ready(k, m.target) /\ (m.arg # NoObject => Ready(k, m.arg))
  BY <1>1, <1>3, <1>5, QueuedIsReady
<1>9. released \in KernelState /\ SameTable(taken, released)
  BY <1>3, <1>5, DecrementSendEventType, DecrementSendEventKeepsTable
<1>10. KeepsCounts(k, released) /\ \A o \in Objects : Ready(k, o) => Ready(released, o)
  BY <1>1, <1>5, ReleasedSendCounts
<1> HIDE DEF released
<1>11. TableInv(released) /\ released.nextKoid = k.nextKoid
  BY <1>1, <1>4, <1>9, ShrinksInv, SameTableInv DEF Shrinks, SameTable
<1>12. m.target < k.nextKoid /\ m.arg < k.nextKoid
  BY <1>1, <1>4 DEF TableInv, MessagesAllocated
<1>13. ASSUME v # NoVat
       PROVE  KeepsCounts(k, mapped)
  <2>1. v \in Vats /\ CountsInv(released)
    BY <1>7, <1>10, <1>13 DEF KeepsCounts, KeepsBut
  <2>2. Ready(released, m.target) /\ (m.arg # NoObject => Ready(released, m.arg))
    BY <1>6, <1>8, <1>10
  <2>3. KeepsCounts(released, entered) /\ \A o \in Objects : Ready(released, o) => Ready(entered, o)
    BY <1>6, <1>9, <1>11, <2>1, <2>2, MapKernelSlotCounts
  <2>4. TableInv(entered) /\ entered.nextKoid = released.nextKoid
    BY <1>6, <1>9, <1>11, <1>12, <2>1, MapKernelSlotInv
  <2> HIDE DEF entered
  <2>5. entered \in KernelState /\ CountsInv(entered)
    BY <2>3 DEF KeepsCounts, KeepsBut
  <2>6. m.arg # NoObject => Ready(entered, m.arg)
    BY <1>6, <2>2, <2>3
  <2>7. KeepsCounts(entered, mapped)
    BY <1>6, <2>1, <2>4, <2>5, <2>6, MapKernelSlotCounts
  <2> HIDE DEF mapped
  <2> QED
    BY <1>10, <2>3, <2>7, KeepsCountsTransitive
<1> HIDE DEF mapped
<1> QED
  BY <1>2, <1>6, <1>7, <1>10, <1>13

\* The keys of a terminated vat are deleted once it owns nothing, and then
\* the vat is forgotten.
Forgets(kl, kk, v) ==
  /\ kk \in KernelState /\ SameCounts(kl, kk)
  /\ kk.maybeFree = kl.maybeFree /\ kk.gcActions = kl.gcActions
  /\ kk.liveIDs = kl.liveIDs /\ kk.failed = kl.failed
  /\ kk.initialized \subseteq kl.initialized /\ kl.initialized \ {v} \subseteq kk.initialized
  /\ kk.initialized = kl.initialized \/ \A o \in Objects : kl.owner[o] # v
  /\ \/ kk.terminatedVats = kl.terminatedVats /\ kk.terminated = kl.terminated
     \/ /\ kl.terminatedVats # <<>> /\ v = Head(kl.terminatedVats)
        /\ kk.terminatedVats = Tail(kl.terminatedVats) /\ kk.terminated = kk.terminatedVats
        /\ v \notin kk.initialized /\ \A o \in Objects : kl.owner[o] # v

LEMMA ForgetsItself ==
  ASSUME NEW kk \in KernelState, NEW v
  PROVE  Forgets(kk, kk, v)
BY DEF Forgets, SameCounts, SameQueues

LEMMA DeleteCListKeepsOwner ==
  ASSUME NEW kk \in KernelState, NEW v \in Vats, NEW S \in SUBSET Objects
  PROVE  DeleteCListEntries(kk, v, S).owner = kk.owner
<1> DEFINE kl == DeleteCListEntries(kk, v, S)
<1>1. /\ kl.owner = kk.owner /\ kl.gcActions = kk.gcActions
      /\ kl.nextKoid = kk.nextKoid
      /\ kl.acceptanceQueue = kk.acceptanceQueue /\ kl.runQueue = kk.runQueue
      /\ kl.imports = [kk.imports EXCEPT ![v] = @ \ S]
      /\ kl.exports = [kk.exports EXCEPT ![v] = @ \ S]
  BY DeleteCListTable
<1> HIDE DEF kl
<1>2. kl.owner = kk.owner
  BY <1>1
<1> QED
  BY <1>2 DEF kl

LEMMA DeleteCListExports ==
  ASSUME NEW kk \in KernelState, NEW v \in Vats, NEW S \in SUBSET Objects
  PROVE  DeleteCListEntries(kk, v, S).exports = [kk.exports EXCEPT ![v] = @ \ S]
<1> DEFINE kl == DeleteCListEntries(kk, v, S)
<1>1. /\ kl.owner = kk.owner /\ kl.gcActions = kk.gcActions
      /\ kl.nextKoid = kk.nextKoid
      /\ kl.acceptanceQueue = kk.acceptanceQueue /\ kl.runQueue = kk.runQueue
      /\ kl.imports = [kk.imports EXCEPT ![v] = @ \ S]
      /\ kl.exports = [kk.exports EXCEPT ![v] = @ \ S]
  BY DeleteCListTable
<1> HIDE DEF kl
<1>2. kl.exports = [kk.exports EXCEPT ![v] = @ \ S]
  BY <1>1
<1> QED
  BY <1>2 DEF kl

LEMMA DeleteCListImports ==
  ASSUME NEW kk \in KernelState, NEW v \in Vats, NEW S \in SUBSET Objects
  PROVE  DeleteCListEntries(kk, v, S).imports = [kk.imports EXCEPT ![v] = @ \ S]
<1> DEFINE kl == DeleteCListEntries(kk, v, S)
<1>1. /\ kl.owner = kk.owner /\ kl.gcActions = kk.gcActions
      /\ kl.nextKoid = kk.nextKoid
      /\ kl.acceptanceQueue = kk.acceptanceQueue /\ kl.runQueue = kk.runQueue
      /\ kl.imports = [kk.imports EXCEPT ![v] = @ \ S]
      /\ kl.exports = [kk.exports EXCEPT ![v] = @ \ S]
  BY DeleteCListTable
<1> HIDE DEF kl
<1>2. kl.imports = [kk.imports EXCEPT ![v] = @ \ S]
  BY <1>1
<1> QED
  BY <1>2 DEF kl

LEMMA CleanupTerminatedVatKeeps ==
  ASSUME HoldersInv, CleanupTerminatedVat
  PROVE  \E kl, kk : /\ KeepsCounts(k, kl)
                     /\ Forgets(kl, kk, Head(k.terminatedVats))
                     /\ FinishCrank(kk)
<1> DEFINE v == Head(k.terminatedVats)
           rest == Tail(k.terminatedVats)
           Orphan(kk, S) == OrphanKernelObjects(kk, S, v)
           Abandon(kk, S) == DeleteCListEntries(kk, v, S)
           DeleteKeys(kk) == [kk EXCEPT !.initialized = @ \ {v}]
           Forget(kk) == [kk EXCEPT !.terminatedVats = rest, !.terminated = rest]
<1>1. /\ k \in KernelState /\ TableInv(k) /\ CountsInv(k) /\ KeepsCounts(k, k)
      /\ v \in Vats /\ rest \in Seq(Vats)
  BY HoldersFacts, KeepsCountsReflexive, HeadTailProperties DEF CleanupTerminatedVat, KernelState
<1>2. \/ FinishCrank(Forget(DeleteKeys(Abandon(Orphan(k, k.exports[v]), k.imports[v]))))
      \/ \E o \in k.exports[v] : FinishCrank(Orphan(k, {o}))
      \/ \E o \in k.imports[v] : FinishCrank(Abandon(k, {o}))
      \/ /\ k.exports[v] = {}
         /\ \/ FinishCrank(DeleteKeys(k))
            \/ v \notin k.initialized /\ FinishCrank(Forget(k))
  BY DEF CleanupTerminatedVat
<1>3. rest = Tail(k.terminatedVats) /\ v = Head(k.terminatedVats) /\ k.terminatedVats # <<>>
  BY DEF CleanupTerminatedVat
<1> HIDE DEF v, rest
<1>4. k.exports[v] \in SUBSET Objects /\ k.imports[v] \in SUBSET Objects
  BY <1>1 DEF KernelState
<1>5. ASSUME NEW kk \in KernelState, kk.terminatedVats = k.terminatedVats,
             \A o \in Objects : kk.owner[o] # v
      PROVE  /\ Forgets(kk, DeleteKeys(kk), v) /\ Forgets(kk, Forget(DeleteKeys(kk)), v)
             /\ v \notin kk.initialized => Forgets(kk, Forget(kk), v)
  <2>1. DeleteKeys(kk) \in KernelState /\ Forget(kk) \in KernelState
        /\ Forget(DeleteKeys(kk)) \in KernelState
    BY <1>1 DEF KernelState
  <2>2. SameCounts(kk, DeleteKeys(kk)) /\ SameCounts(kk, Forget(kk))
        /\ SameCounts(kk, Forget(DeleteKeys(kk)))
    BY DEF KernelState, SameCounts, SameQueues
  <2>3. /\ DeleteKeys(kk).maybeFree = kk.maybeFree /\ DeleteKeys(kk).gcActions = kk.gcActions
        /\ DeleteKeys(kk).liveIDs = kk.liveIDs /\ DeleteKeys(kk).failed = kk.failed
        /\ DeleteKeys(kk).initialized = kk.initialized \ {v}
        /\ DeleteKeys(kk).terminatedVats = kk.terminatedVats
        /\ DeleteKeys(kk).terminated = kk.terminated
    BY DEF KernelState
  <2>4. ASSUME NEW km \in KernelState
        PROVE  /\ Forget(km).maybeFree = km.maybeFree /\ Forget(km).gcActions = km.gcActions
               /\ Forget(km).liveIDs = km.liveIDs /\ Forget(km).failed = km.failed
               /\ Forget(km).initialized = km.initialized
               /\ Forget(km).terminatedVats = rest /\ Forget(km).terminated = rest
    BY DEF KernelState
  <2> HIDE DEF DeleteKeys, Forget
  <2>5. Forgets(kk, DeleteKeys(kk), v)
    BY <1>5, <2>1, <2>2, <2>3 DEF Forgets
  <2>6. Forgets(kk, Forget(DeleteKeys(kk)), v)
    BY <1>3, <1>5, <2>1, <2>2, <2>3, <2>4 DEF Forgets
  <2>7. v \notin kk.initialized => Forgets(kk, Forget(kk), v)
    BY <1>3, <1>5, <2>1, <2>2, <2>4 DEF Forgets
  <2> QED
    BY <2>5, <2>6, <2>7
<1>6. \A o \in k.exports[v] : k.owner[o] = v
  BY <1>1, <1>4 DEF TableInv, OwnersMatch
<1>7. CASE FinishCrank(Forget(DeleteKeys(Abandon(Orphan(k, k.exports[v]), k.imports[v]))))
  <2> DEFINE orphaned == Orphan(k, k.exports[v])
             left == Abandon(orphaned, k.imports[v])
  <2>1. KeepsCounts(k, orphaned)
    BY <1>1, <1>4, <1>6, OrphanKernelObjectsCounts
  <2>2. TableInv(orphaned)
    BY <1>1, <1>4, OrphanObjectsInv
  <2>3. orphaned.owner = [o \in Objects |-> IF o \in k.exports[v] THEN NoVat ELSE k.owner[o]]
    BY <1>1, <1>6 DEF OrphanKernelObjects, KernelState
  <2>11. Untouched(k, orphaned)
    BY <1>1, <1>4, OrphanObjectsKeepLives
  <2> HIDE DEF orphaned
  <2>4. \A o \in Objects : orphaned.owner[o] # v
    BY <1>1, <2>3, ConstantsType DEF TableInv, OwnersMatch
  <2>5. orphaned \in KernelState /\ CountsInv(orphaned)
    BY <2>1 DEF KeepsCounts, KeepsBut
  <2>6. KeepsCounts(orphaned, left)
    BY <1>1, <1>4, <2>4, <2>5, DeleteCListEntriesCounts
  <2>7. left.owner = orphaned.owner
    BY <1>1, <1>4, <2>5, DeleteCListKeepsOwner
  <2>12. Untouched(orphaned, left)
    BY <1>1, <1>4, <2>5, DeleteCListKeepsLives
  <2> HIDE DEF left
  <2>13. left.terminatedVats = k.terminatedVats
    BY <2>11, <2>12 DEF Untouched
  <2>8. left \in KernelState /\ KeepsCounts(k, left)
    BY <2>1, <2>6, KeepsCountsTransitive DEF KeepsCounts, KeepsBut
  <2>9. Forgets(left, Forget(DeleteKeys(left)), v)
    BY <1>5, <2>4, <2>7, <2>8, <2>13
  <2>10. FinishCrank(Forget(DeleteKeys(left)))
    BY <1>7 DEF left, orphaned
  <2> HIDE DEF Forget, DeleteKeys
  <2> QED
    BY <1>3, <2>8, <2>9, <2>10
<1>8. ASSUME NEW o \in k.exports[v], FinishCrank(Orphan(k, {o}))
      PROVE  \E kl : KeepsCounts(k, kl) /\ Forgets(kl, kl, v) /\ FinishCrank(kl)
  <2>1. KeepsCounts(k, Orphan(k, {o}))
    BY <1>1, <1>4, <1>6, OrphanKernelObjectsCounts
  <2> HIDE DEF Orphan
  <2> QED
    BY <1>8, <2>1, ForgetsItself DEF KeepsCounts, KeepsBut
<1>9. ASSUME NEW o \in k.imports[v], FinishCrank(Abandon(k, {o}))
      PROVE  \E kl : KeepsCounts(k, kl) /\ Forgets(kl, kl, v) /\ FinishCrank(kl)
  <2>1. k.owner[o] # v
    BY <1>1 DEF TableInv, ImportsAreForeign
  <2>2. {o} \in SUBSET Objects /\ \A p \in {o} : k.owner[p] # v
    BY <1>4, <2>1
  <2>3. KeepsCounts(k, Abandon(k, {o}))
    BY <1>1, <2>2, DeleteCListEntriesCounts
  <2> HIDE DEF Abandon
  <2> QED
    BY <1>9, <2>3, ForgetsItself DEF KeepsCounts, KeepsBut
<1>10. CASE /\ k.exports[v] = {}
            /\ \/ FinishCrank(DeleteKeys(k))
               \/ v \notin k.initialized /\ FinishCrank(Forget(k))
  <2>1. \A o \in Objects : k.owner[o] # v
    BY <1>1, <1>10 DEF TableInv, OwnersMatch
  <2>2. /\ Forgets(k, DeleteKeys(k), v)
        /\ v \notin k.initialized => Forgets(k, Forget(k), v)
    BY <1>1, <1>5, <2>1
  <2> HIDE DEF DeleteKeys, Forget
  <2> QED
    BY <1>1, <1>3, <1>10, <2>2
<1> QED
  BY <1>2, <1>3, <1>7, <1>8, <1>9, <1>10

\* The examined GC actions are off the set.
Pruned == [k EXCEPT !.gcActions = @ \ GCActionsExamined(k)]

\* The vat is told to drop what nobody reaches, and to retire what nobody knows.
Collects(kl, v, type) ==
  /\ type = "dropExports" =>
       \A o \in Objects : o \in k.reach[v] \ kl.reach[v] => Reaches(k, o) = 0
  /\ type = "retireExports" =>
       /\ \E a \in GCActionsToProcess(k) : a.vat = v /\ a.type = "retireExport"
       /\ \A o \in Objects : o \in k.exports[v] \ kl.exports[v] =>
            KernelObjectExists(k, o) /\ Reaches(k, o) = 0 /\ Recognizes(k, o) = 0

\* The actions that the vat is told of are carried out.
CarriesOut(kl) ==
  \A a \in GCActionsToProcess(k) :
    /\ a.type = "dropExport" => a.kref \notin kl.reach[a.vat]
    /\ a.type = "retireExport" => ~KernelObjectExists(kl, a.kref)
    /\ a.type = "retireImport" => a.kref \notin kl.imports[a.vat]

LEMMA ProcessGCActionsKeeps ==
  ASSUME HoldersInv, ProcessGCActions
  PROVE  \/ /\ k' = [k EXCEPT !.failed = TRUE] /\ UNCHANGED <<saved, crank>>
            /\ \E a \in GCActionsExamined(k) : ~ProvidesVatKeeper(k, a.vat)
         \/ /\ FinishCrank(Pruned)
            /\ \A a \in GCActionsToProcess(k) : ~VatIsAlive(k, a.vat)
         \/ \E kl, type : \E v \in Vats :
              /\ KeepsCounts(Pruned, kl) /\ Collects(kl, v, type) /\ CarriesOut(kl)
              /\ VatIsAlive(k, v) /\ BeginDelivery(kl, type, v)
<1> DEFINE todo == GCActionsToProcess(k)
           krefs == {a.kref : a \in todo}
           first == CHOOSE a \in todo : TRUE
           v == first.vat
           type == first.type
           dropped == ClearReachableFlags(Pruned, v, krefs)
           deleted == DeleteKernelObjects(Pruned, krefs)
           retired == DeleteCListEntries(deleted, v, krefs)
           forgotten == DeleteCListEntries(Pruned, v, krefs)
<1>1. k \in KernelState /\ TableInv(k) /\ CountsInv(k)
  BY HoldersFacts
<1>2. /\ Pruned \in KernelState /\ SameCounts(k, Pruned)
      /\ Pruned.exports = k.exports
  BY <1>1 DEF KernelState, SameCounts, SameQueues, Pruned
<1>3. CountsInv(Pruned)
  BY <1>1, <1>2, SameCountsInv
<1>4. /\ \A o : Reaches(Pruned, o) = Reaches(k, o) /\ Recognizes(Pruned, o) = Recognizes(k, o)
      /\ Pruned.owner = k.owner /\ Pruned.imports = k.imports /\ Pruned.reach = k.reach
      /\ Pruned.refCount = k.refCount
  BY <1>2, SameReferences DEF SameCounts
<1>5. todo \subseteq GCAction /\ todo \subseteq k.gcActions
      /\ \A a \in todo : ShouldProcessAction(k, a)
  BY <1>1 DEF GCActionsToProcess, KernelState
<1>6. krefs \in SUBSET Objects
  BY <1>5 DEF GCAction
<1>7. todo # {} => first \in todo /\ v \in Vats
  BY <1>5 DEF GCAction
<1>8. todo # {} => \A a \in todo : a.vat = v /\ a.type = type
  BY <1>1, <1>7, OneGroup
<1>9. \/ /\ k' = [k EXCEPT !.failed = TRUE] /\ UNCHANGED <<saved, crank>>
         /\ \E a \in GCActionsExamined(k) : ~ProvidesVatKeeper(k, a.vat)
      \/ FinishCrank(Pruned) /\ (todo = {} \/ ~VatIsAlive(k, v))
      \/ /\ todo # {} /\ VatIsAlive(k, v) /\ type = "dropExport"
         /\ BeginDelivery(dropped, "dropExports", v)
      \/ /\ todo # {} /\ VatIsAlive(k, v) /\ type = "retireExport"
         /\ BeginDelivery(retired, "retireExports", v)
      \/ /\ todo # {} /\ VatIsAlive(k, v) /\ type = "retireImport"
         /\ BeginDelivery(forgotten, "retireImports", v)
  BY DEF ProcessGCActions, Pruned
<1>10. \A o \in krefs : \E a \in todo : a.kref = o
  OBVIOUS
<1>15. todo = GCActionsToProcess(k) /\ \A a \in todo : a.kref \in krefs
  OBVIOUS
<1> HIDE DEF todo, krefs, first, v, type
<1>11. ASSUME NEW o \in krefs, todo # {}
       PROVE  /\ o \in Objects /\ o \in k.exports[v] \cup k.imports[v]
              /\ type = "dropExport" => Reaches(k, o) = 0
              /\ type = "retireExport" =>
                   KernelObjectExists(k, o) /\ Reaches(k, o) = 0 /\ Recognizes(k, o) = 0
              /\ type = "retireImport" => k.owner[o] # v
  <2>1. PICK a \in todo : a.kref = o
    BY <1>10
  <2>2. ShouldProcessAction(k, a) /\ a.vat = v /\ a.type = type /\ a \in k.gcActions
    BY <1>5, <1>8, <1>11
  <2>3. o \in Objects /\ Exact(k, o)
    BY <1>1, <1>6 DEF CountsInv
  <2>4. type = "retireImport" => k.owner[o] # v
    BY <1>1, <2>1, <2>2 DEF TableInv, ActionsNameOwner
  <2> QED
    BY <2>1, <2>2, <2>3, <2>4 DEF ShouldProcessAction, Exact, KernelObjectExists
<1>12. ASSUME todo # {}, type = "dropExport", BeginDelivery(dropped, "dropExports", v)
       PROVE  /\ KeepsCounts(Pruned, dropped) /\ Collects(dropped, v, "dropExports")
              /\ CarriesOut(dropped)
  <2>1. KeepsCounts(Pruned, dropped)
    BY <1>2, <1>3, <1>4, <1>6, <1>7, <1>11, <1>12, ClearReachableFlagsCounts
  <2>2. Cleared(Pruned, dropped, v, krefs)
    BY <1>2, <1>3, <1>6, <1>7, <1>12, ClearReachableFlagsEffect DEF CountsInv
  <2> HIDE DEF dropped
  <2>3. dropped.reach = [k.reach EXCEPT ![v] = @ \ krefs]
    BY <1>4, <2>2 DEF Cleared
  <2>4. dropped.reach[v] = k.reach[v] \ krefs
    BY <1>1, <1>7, <1>12, <2>3 DEF KernelState
  <2>5. CarriesOut(dropped)
    BY <1>8, <1>12, <1>15, <2>4 DEF CarriesOut
  <2> QED
    BY <1>11, <1>12, <2>1, <2>4, <2>5 DEF Collects
<1>13. ASSUME todo # {}, type = "retireExport", BeginDelivery(retired, "retireExports", v)
       PROVE  /\ KeepsCounts(Pruned, retired) /\ Collects(retired, v, "retireExports")
              /\ CarriesOut(retired)
  <2>1. ObjectsDeleted(Pruned, deleted, krefs)
    BY <1>2, <1>6, DeleteKernelObjectsEffect
  <2> HIDE DEF deleted
  <2>2. ASSUME NEW o \in krefs
        PROVE  /\ \A w \in Vats : o \notin k.imports[w]
               /\ k.owner[o] = v /\ Reaches(k, o) = 0
    <3>1. /\ o \in Objects /\ Reaches(k, o) = 0 /\ Recognizes(k, o) = 0
          /\ o \in k.exports[v] \cup k.imports[v]
      BY <1>11, <1>13
    <3>2. Recognizers(k, o) = {}
      BY <1>1, <3>1, ReferencesType
    <3>3. \A w \in Vats : o \notin k.imports[w]
      BY <3>2 DEF Recognizers
    <3> QED
      BY <1>1, <1>7, <1>13, <3>1, <3>3 DEF TableInv, OwnersMatch
  <2>3. deleted \in KernelState /\ \A o \in krefs : o \notin deleted.imports[v]
    BY <1>4, <1>7, <1>13, <2>1, <2>2 DEF ObjectsDeleted
  <2>4. /\ retired \in KernelState /\ retired.refCount = deleted.refCount
        /\ retired.imports = deleted.imports
        /\ retired.reach = [deleted.reach EXCEPT ![v] = @ \ krefs]
        /\ retired.owner = deleted.owner /\ SameQueues(deleted, retired)
        /\ retired.maybeFree = deleted.maybeFree
        /\ retired.gcActions = deleted.gcActions
        /\ retired.liveIDs = deleted.liveIDs /\ retired.initialized = deleted.initialized
        /\ retired.terminated = deleted.terminated
        /\ retired.terminatedVats = deleted.terminatedVats /\ retired.failed = deleted.failed
    BY <1>6, <1>7, <1>13, <2>3, DeleteExportsEffect
  <2>5. retired.exports[v] = k.exports[v] \ krefs
    <3>1. retired.exports = [deleted.exports EXCEPT ![v] = @ \ krefs]
      BY <1>6, <1>7, <1>13, <2>3, DeleteCListExports
    <3> QED
      <4>1. deleted.exports = k.exports /\ k.exports \in [Vats -> SUBSET Objects]
        BY <1>1, <1>2, <2>1 DEF ObjectsDeleted, KernelState
      <4>2. retired.exports[v] = deleted.exports[v] \ krefs
        BY <1>7, <1>13, <3>1, <4>1
      <4> QED
        BY <4>1, <4>2
  <2> HIDE DEF retired
  <2>6. ASSUME NEW w \in Vats, NEW o \in Objects
        PROVE  o \in retired.reach[w] <=> o \in Pruned.reach[w] /\ ~(o \in krefs /\ Pruned.owner[o] = w)
    <3>1. retired.reach = [k.reach EXCEPT ![v] = @ \ krefs]
      BY <1>4, <2>1, <2>4 DEF ObjectsDeleted
    <3>2. k.reach \in [Vats -> SUBSET Objects]
      BY <1>1 DEF KernelState
    <3>3. retired.reach[w] = IF w = v THEN k.reach[w] \ krefs ELSE k.reach[w]
      BY <3>1, <3>2
    <3>4. o \in krefs => k.owner[o] = v
      BY <2>2
    <3> QED
      BY <1>4, <3>3, <3>4
  <2>7. Deletes(Pruned, retired, krefs)
    BY <2>1, <2>4, <2>6 DEF Deletes, ObjectsDeleted, SameQueues, KernelObjectExists
  <2>8. ImportersTold(Pruned, retired, krefs)
    BY <1>2, <1>4, <2>2 DEF ImportersTold, KernelState
  <2>9. \A o \in krefs : Reaches(Pruned, o) = 0
    BY <1>4, <2>2
  <2>10. /\ retired.maybeFree = Pruned.maybeFree /\ retired.liveIDs = Pruned.liveIDs
         /\ retired.initialized = Pruned.initialized
         /\ retired.terminated = Pruned.terminated
         /\ retired.terminatedVats = Pruned.terminatedVats
         /\ Pruned.gcActions \subseteq retired.gcActions
         /\ Pruned.liveIDs \subseteq Pruned.initialized => retired.failed = Pruned.failed
    BY <2>1, <2>4 DEF ObjectsDeleted
  <2>11. KeepsCounts(Pruned, retired)
    BY <1>2, <1>3, <1>6, <2>7, <2>8, <2>9, <2>10, DeletesKeepsCounts
  <2>12. CarriesOut(retired)
    BY <1>8, <1>13, <1>15, <2>7 DEF CarriesOut, Deletes
  <2>13. \E a \in GCActionsToProcess(k) : a.vat = v /\ a.type = "retireExport"
    BY <1>7, <1>8, <1>13, <1>15
  <2> QED
    BY <1>11, <1>13, <2>5, <2>11, <2>12, <2>13 DEF Collects
<1>14. ASSUME todo # {}, type = "retireImport", BeginDelivery(forgotten, "retireImports", v)
       PROVE  /\ KeepsCounts(Pruned, forgotten) /\ Collects(forgotten, v, "retireImports")
              /\ CarriesOut(forgotten)
  <2>1. KeepsCounts(Pruned, forgotten)
    <3>1. \A o \in krefs : Pruned.owner[o] = v => Reaches(Pruned, o) = 0
      BY <1>4, <1>11, <1>14
    <3>2. Pruned \in KernelState /\ v \in Vats
      BY <1>2, <1>7, <1>14
    <3> QED
      BY <1>3, <1>6, <3>1, <3>2, DeleteCListEntriesCounts
  <2>2. forgotten.imports = [Pruned.imports EXCEPT ![v] = @ \ krefs]
    BY <1>2, <1>6, <1>7, <1>14, DeleteCListImports
  <2> HIDE DEF forgotten
  <2>3. forgotten.imports[v] = k.imports[v] \ krefs
    BY <1>1, <1>4, <1>7, <1>14, <2>2 DEF KernelState
  <2>4. CarriesOut(forgotten)
    BY <1>8, <1>14, <1>15, <2>3 DEF CarriesOut
  <2> QED
    BY <2>1, <2>4 DEF Collects
<1> HIDE DEF dropped, retired, forgotten
<1>16. CASE FinishCrank(Pruned) /\ (todo = {} \/ ~VatIsAlive(k, v))
  <2>1. \A a \in todo : ~VatIsAlive(k, a.vat)
    BY <1>8, <1>16
  <2> QED
    BY <1>16, <2>1 DEF todo
<1> QED
  BY <1>7, <1>9, <1>12, <1>13, <1>14, <1>16

-----------------------------------------------------------------------------
\* Syscalls.

LEMMA KeepsButObjects ==
  ASSUME NEW kk, NEW kl, NEW X, KeepsBut(kk, kl, X)
  PROVE  KeepsBut(kk, kl, X \cap Objects)
<1>1. Objects \ (X \cap Objects) = Objects \ X
  OBVIOUS
<1> QED
  BY <1>1 DEF KeepsBut, Follows

\* What was just sent is held by its message.
LEMMA DoSendHolds ==
  ASSUME NEW kk \in KernelState, NEW m \in Message, NEW kl, kl = DoSend(kk, m)
  PROVE  \A o \in {m.target, m.arg} \cap Objects : ~Unheld(kl, o)
<1> DEFINE first == IncrementRefCount(kk, m.target)
           counted == IncrementRefCount(first, m.arg)
<1>1. m.target \in Objects \cup {NoObject} /\ m.arg \in Objects \cup {NoObject}
  BY DEF Message
<1>2. first \in KernelState
  BY <1>1, RefCountStepsType
<1> HIDE DEF first
<1>3. counted \in KernelState
  BY <1>1, <1>2, RefCountStepsType
<1>4. kl = [counted EXCEPT !.acceptanceQueue = Append(@, m)]
  BY DEF DoSend, first
<1> HIDE DEF counted
<1>5. kl \in KernelState
  BY DoSendType
<1>6. /\ kl.acceptanceQueue = Append(counted.acceptanceQueue, m)
      /\ counted.acceptanceQueue \in Seq(Message)
      /\ kl.acceptanceQueue \in Seq(Message) /\ kl.runQueue \in Seq(Message)
  BY <1>3, <1>4, <1>5 DEF KernelState
<1>7. ASSUME NEW o \in Objects, o = m.target \/ o = m.arg
      PROVE  Reaches(kl, o) # 0
  <2>1. Names(m, o) > 0
    BY <1>7 DEF Names
  <2>2. /\ Occurrences(kl.acceptanceQueue, o) =
             Occurrences(counted.acceptanceQueue, o) + Names(m, o)
        /\ Names(m, o) \in Nat
    BY <1>6, OccurrencesAppend, NamesCounts
  <2>4. /\ Occurrences(counted.acceptanceQueue, o) \in Nat
        /\ Occurrences(kl.runQueue, o) \in Nat
    BY <1>6, OccurrencesAreCounts
  <2>3. QueueHolders(kl, o) > 0
    BY <2>1, <2>2, <2>4 DEF QueueHolders
  <2> QED
    BY <1>5, <2>3, ReferencesType
<1> QED
  BY <1>7 DEF Unheld

\* A vat may mention no less after an object that was allocated is translated.
LEMMA MapVatSlotMentions ==
  ASSUME NEW kk \in KernelState, CountsInv(kk), TableInv(kk), NEW v \in Vats,
         NEW o \in Objects, o # kk.nextKoid,
         NEW kl, kl = MapVatSlotToKernelSlot(kk, v, o)
  PROVE  MayMention(kk, v) \subseteq MayMention(kl, v)
<1>1. CASE o \in kk.exports[v]
  <2>1. kl = SetReachableFlag(kk, v, o)
    BY <1>1, ConstantsType DEF MapVatSlotToKernelSlot
  <2>2. kk.owner[o] = v /\ o \notin kk.imports[v]
    BY <1>1 DEF TableInv, OwnersMatch, ImportsAreForeign
  <2>3. /\ o \in kk.imports[v] \/ kk.owner[o] = v
        /\ o \in kk.imports[v] => Ready(kk, o)
    BY <2>2
  <2>6. o \in Objects
    OBVIOUS
  <2>4. /\ KeepsBut(kk, kl, {o}) /\ Rest(kk, kl)
        /\ kl.reach = [kk.reach EXCEPT ![v] = @ \cup {o}]
        /\ \A p \in Objects : Ready(kk, p) => Ready(kl, p)
        /\ KernelObjectExists(kl, o) = KernelObjectExists(kk, o)
    BY ONLY <2>1, <2>3, <2>6, CountsInv(kk), kk \in KernelState, v \in Vats,
       SetReachableFlagCounts
  <2>5. SameTable(kk, kl)
    BY <2>1, SetReachableKeepsTable
  <2> QED
    BY <2>4, <2>5 DEF MayMention, SameTable, KernelState
<1>2. CASE o \notin kk.exports[v]
  BY <1>2, ConstantsType DEF MapVatSlotToKernelSlot
<1> QED
  BY <1>1, <1>2

LEMMA SyscallSendKeeps ==
  ASSUME HoldersInv, NEW target \in Objects, NEW arg \in Objects \cup {NoObject},
         SyscallSend(target, arg)
  PROVE  \E kk : KeepsCounts(k, kk) /\ Syscall(kk)
<1> DEFINE v == crank.vat
           m == [target |-> target, arg |-> arg]
           first == MapVatSlotToKernelSlot(k, v, target)
           mapped == MapVatSlotToKernelSlot(first, v, arg)
           sent == DoSend(mapped, m)
<1>1. v \in Vats /\ k \in KernelState /\ TableInv(k) /\ CountsInv(k)
  BY HoldersFacts, DeliveryVat DEF SyscallSend, Syscall
<1>20. v = crank.vat
  OBVIOUS
<1>2. m \in Message /\ m.target = target /\ m.arg = arg
  BY DEF Message
<1>3. /\ Syscall(sent) /\ target \in MayMention(k, v)
      /\ arg \in MayMention(k, v) \cup {NoObject, k.nextKoid}
  BY DEF SyscallSend, MayPass
<1> HIDE DEF v, m
<1>4. target \in Nat /\ target < k.nextKoid
  BY <1>1, <1>3, MentionedIsAllocated
<1>5. target # k.nextKoid
  BY <1>4
<1>6. first \in KernelState /\ TableInv(first) /\ first.nextKoid = k.nextKoid
  BY <1>1, <1>5, MapVatSlotToKernelSlotType, MapVatSlotInv, MapVatSlotNext
<1>7. KeepsBut(k, first, {target}) /\ Ready(first, target)
  <2>1. target \in Objects \cup {NoObject} /\ target # NoObject
        /\ target \in MayMention(k, v) \cup {NoObject, k.nextKoid}
    BY <1>3, ConstantsType
  <2>2. /\ KeepsBut(k, first, {target}) /\ (target # NoObject => Ready(first, target))
        /\ \A p \in Objects \ {k.nextKoid} : Ready(k, p) => Ready(first, p)
    BY <1>1, <1>20, <2>1, MapVatSlotCounts
  <2> QED
    BY <2>1, <2>2
<1>8. arg \in MayMention(first, v) \cup {NoObject, first.nextKoid}
  <2>1. MayMention(k, v) \subseteq MayMention(first, v)
    BY <1>1, <1>5, MapVatSlotMentions
  <2> HIDE DEF first
  <2> QED
    BY <1>3, <1>6, <2>1
<1> HIDE DEF first
<1>9. CountsInv(first)
  BY <1>7 DEF KeepsBut
<1>10. /\ KeepsBut(first, mapped, {arg}) /\ (arg # NoObject => Ready(mapped, arg))
       /\ \A p \in Objects \ {first.nextKoid} : Ready(first, p) => Ready(mapped, p)
  BY <1>1, <1>6, <1>8, <1>9, <1>20, MapVatSlotCounts
<1> HIDE DEF mapped
<1>11. mapped \in KernelState /\ CountsInv(mapped) /\ Ready(mapped, target)
  BY <1>5, <1>6, <1>7, <1>10 DEF KeepsBut
<1>12. KeepsCounts(mapped, sent)
  BY <1>2, <1>10, <1>11, DoSendCounts
<1>13. \A o \in {target, arg} \cap Objects : ~Unheld(sent, o)
  BY <1>2, <1>11, DoSendHolds
<1> HIDE DEF sent
<1>14. KeepsBut(first, sent, {arg} \cap Objects)
  <2>1. KeepsBut(first, mapped, {arg} \cap Objects)
    BY <1>10, KeepsButObjects
  <2> QED
    BY <1>12, <1>13, <2>1, KeepsButTransitive DEF KeepsCounts
<1>15. KeepsCounts(k, sent)
  BY <1>7, <1>13, <1>14, KeepsButTransitive DEF KeepsCounts
<1> QED
  BY <1>3, <1>15

\* Something that is exported and not flagged is reached by nobody.
LEMMA SyscallRetireExportsKeeps ==
  ASSUME HoldersInv, NEW o \in Objects, SyscallRetireExports(o)
  PROVE  \E kk : KeepsCounts(k, kk) /\ Syscall(kk)
<1> DEFINE v == crank.vat
           S == {o}
           cut == DeleteCListEntries(k, v, S)
           kl == RetireKernelObjects(cut, S)
<1>1. v \in Vats /\ k \in KernelState /\ TableInv(k) /\ CountsInv(k)
  BY HoldersFacts, DeliveryVat DEF SyscallRetireExports, Syscall
<1>2. o \in k.exports[v] /\ o \notin k.reach[v] /\ Syscall(kl)
  BY DEF SyscallRetireExports
<1> HIDE DEF v
<1>3. k.owner[o] = v /\ o \notin k.imports[v]
  BY <1>1, <1>2 DEF TableInv, OwnersMatch, ImportsAreForeign
<1>4. Reaches(k, o) = 0
  <2>1. ~Flagged(k, o)
    BY <1>1, <1>2, <1>3, ConstantsType DEF Flagged
  <2> QED
    BY <1>1, <2>1, ReferencesType DEF CountsInv
<1>5. /\ S \in SUBSET Objects /\ \A p \in S : p \notin k.imports[v]
      /\ \A p \in S : Reaches(k, p) = 0 /\ k.owner[p] = v /\ p \notin k.reach[v]
  BY <1>2, <1>3, <1>4
<1> HIDE DEF S
<1>6. /\ cut \in KernelState /\ cut.refCount = k.refCount /\ cut.imports = k.imports
      /\ cut.reach = [k.reach EXCEPT ![v] = @ \ S]
      /\ cut.owner = k.owner /\ SameQueues(k, cut) /\ cut.maybeFree = k.maybeFree
      /\ cut.gcActions = k.gcActions
      /\ cut.liveIDs = k.liveIDs /\ cut.initialized = k.initialized
      /\ cut.terminated = k.terminated /\ cut.terminatedVats = k.terminatedVats
      /\ cut.failed = k.failed
  BY <1>1, <1>5, DeleteExportsEffect
<1> HIDE DEF cut
<1>7. ObjectsDeleted(cut, kl, S) /\ ImportersTold(cut, kl, S)
  BY <1>5, <1>6, RetireKernelObjectsEffect
<1> HIDE DEF kl
<1>8. ASSUME NEW w \in Vats, NEW p \in Objects
      PROVE  p \in kl.reach[w] <=> p \in k.reach[w] /\ ~(p \in S /\ k.owner[p] = w)
  <2>1. kl.reach = [k.reach EXCEPT ![v] = @ \ S] /\ k.reach \in [Vats -> SUBSET Objects]
    BY <1>1, <1>6, <1>7 DEF ObjectsDeleted, KernelState
  <2>2. kl.reach[w] = IF w = v THEN k.reach[w] \ S ELSE k.reach[w]
    BY <2>1
  <2> QED
    BY <1>5, <2>2
<1>9. Deletes(k, kl, S)
  BY <1>6, <1>7, <1>8 DEF Deletes, ObjectsDeleted, SameQueues
<1>10. ImportersTold(k, kl, S)
  BY <1>6, <1>7 DEF ImportersTold
<1>11. /\ kl.maybeFree = k.maybeFree /\ kl.liveIDs = k.liveIDs
       /\ kl.initialized = k.initialized
       /\ kl.terminated = k.terminated /\ kl.terminatedVats = k.terminatedVats
       /\ k.gcActions \subseteq kl.gcActions
       /\ k.liveIDs \subseteq k.initialized => kl.failed = k.failed
  BY <1>6, <1>7 DEF ObjectsDeleted
<1>12. KeepsCounts(k, kl)
  BY <1>1, <1>5, <1>9, <1>10, <1>11, DeletesKeepsCounts
<1> QED
  BY <1>2, <1>12

LEMMA VatStepKeeps ==
  ASSUME HoldersInv, VatStep
  PROVE  \E kk : KeepsCounts(k, kk) /\ Syscall(kk)
<1> DEFINE v == crank.vat
<1>1. v \in Vats /\ k \in KernelState /\ TableInv(k) /\ CountsInv(k)
  BY HoldersFacts, DeliveryVat DEF VatStep, SyscallSend, SyscallDropImports,
     SyscallRetireImports, SyscallRetireExports, SyscallAbandonExports,
     AdminTerminatesVat, Syscall
<1>2. ASSUME NEW o \in Objects, SyscallDropImports(o) \/ SyscallRetireImports(o)
      PROVE  \E kk : KeepsCounts(k, kk) /\ Syscall(kk)
  <2> DEFINE dropped == ClearReachableFlags(k, v, {o})
             retired == DeleteCListEntries(k, v, {o})
  <2>1. o \in k.imports[v] /\ (Syscall(dropped) \/ Syscall(retired))
    BY <1>2 DEF SyscallDropImports, SyscallRetireImports
  <2>2. {o} \in SUBSET Objects /\ \A p \in {o} : k.owner[p] # v
    BY <1>1, <2>1 DEF TableInv, ImportsAreForeign
  <2>3. KeepsCounts(k, dropped)
    BY <1>1, <2>2, ClearReachableFlagsCounts
  <2>4. KeepsCounts(k, retired)
    BY <1>1, <2>2, DeleteCListEntriesCounts
  <2> HIDE DEF dropped, retired
  <2> QED
    BY <2>1, <2>3, <2>4
<1>3. ASSUME NEW o \in Objects, SyscallAbandonExports(o)
      PROVE  \E kk : KeepsCounts(k, kk) /\ Syscall(kk)
  <2> DEFINE kl == OrphanKernelObjects(k, {o}, v)
  <2>1. o \in k.exports[v] /\ Syscall(kl)
    BY <1>3 DEF SyscallAbandonExports
  <2>2. {o} \in SUBSET Objects /\ \A p \in {o} : k.owner[p] = v
    BY <1>1, <2>1 DEF TableInv, OwnersMatch
  <2>3. KeepsCounts(k, kl)
    BY <1>1, <2>2, OrphanKernelObjectsCounts
  <2> HIDE DEF kl
  <2> QED
    BY <2>1, <2>3
<1>4. ASSUME NEW w \in Vats, AdminTerminatesVat(w)
      PROVE  \E kk : KeepsCounts(k, kk) /\ Syscall(kk)
  <2>1. PICK cached \in BOOLEAN : Syscall(TerminateVat(k, w, cached, NoObject))
    BY <1>4 DEF AdminTerminatesVat
  <2> DEFINE kl == TerminateVat(k, w, cached, NoObject)
  <2>2. KeepsCounts(k, kl)
    BY <1>1, TerminateVatCounts
  <2> HIDE DEF kl
  <2>3. Syscall(kl)
    BY <2>1 DEF kl
  <2> QED
    BY <2>2, <2>3
<1> QED
  BY <1>2, <1>3, <1>4, SyscallSendKeeps, SyscallRetireExportsKeeps DEF VatStep

-----------------------------------------------------------------------------
\* The end of a delivery.

LEMMA RollbackCounts ==
  ASSUME HoldersInv
  PROVE  /\ RollbackCrank \in KernelState /\ CountsInv(RollbackCrank)
         /\ SameCounts(saved, RollbackCrank)
<1>1. saved \in KernelState /\ CountsInv(saved) /\ TypeOK
  BY HoldersFacts
<1>2. RollbackCrank \in KernelState
  BY <1>1, RollbackType
<1>3. SameCounts(saved, RollbackCrank)
  BY <1>1 DEF RollbackCrank, SameCounts, SameQueues, KernelState
<1> QED
  BY <1>1, <1>2, <1>3, SameCountsInv

LEMMA ExitDeliveryKeeps ==
  ASSUME HoldersInv, NEW info \in Objects \cup {NoObject}, ExitDelivery(info)
  PROVE  \E kk : KeepsCounts(k, kk) /\ FinishCrank(kk)
<1> DEFINE v == crank.vat
           mapped == MapVatSlotToKernelSlot(k, v, info)
           kl == TerminateVat(mapped, v, FALSE, info)
           m == [target |-> AdminVat, arg |-> info]
           marked == MarkVatAsTerminated(mapped, v, FALSE)
<1>1. v \in Vats /\ k \in KernelState /\ TableInv(k) /\ CountsInv(k)
  BY HoldersFacts, DeliveryVat DEF ExitDelivery, MayRunUserCode
<1>20. v = crank.vat
  OBVIOUS
<1>2. info \in MayMention(k, v) \cup {NoObject, k.nextKoid} /\ FinishCrank(kl)
  BY DEF ExitDelivery, MayPass
<1>3. kl = DoSend(marked, m)
  BY DEF TerminateVat
<1>4. m \in Message /\ m.arg = info
  BY NoticeType
<1> HIDE DEF v, m
<1>5. /\ KeepsBut(k, mapped, {info}) /\ (info # NoObject => Ready(mapped, info))
      /\ \A p \in Objects \ {k.nextKoid} : Ready(k, p) => Ready(mapped, p)
  BY <1>1, <1>2, <1>20, MapVatSlotCounts
<1> HIDE DEF mapped
<1>6. mapped \in KernelState /\ CountsInv(mapped)
  BY <1>5 DEF KeepsBut
<1>7. KeepsCounts(mapped, kl)
  BY <1>1, <1>5, <1>6, TerminateVatCounts
<1>8. marked \in KernelState
  BY <1>1, <1>6, MarkVatAsTerminatedType
<1> HIDE DEF marked, kl
<1>9. \A o \in {info} \cap Objects : ~Unheld(kl, o)
  BY <1>3, <1>4, <1>8, DoSendHolds
<1>10. KeepsBut(k, mapped, {info} \cap Objects)
  BY <1>5, KeepsButObjects
<1>11. KeepsCounts(k, kl)
  BY <1>7, <1>9, <1>10, KeepsButTransitive DEF KeepsCounts
<1> QED
  BY <1>2, <1>11

\* An abort starts over from the savepoint.
LEMMA EndDeliveryKeeps ==
  ASSUME "failureReason" \notin Faults, HoldersInv, EndDelivery
  PROVE  \/ \E kk : KeepsCounts(k, kk) /\ FinishCrank(kk)
         \/ /\ crank.type \in UpgradeDeliveries \/ MayAbort
            /\ \E kk : KeepsCounts(RollbackCrank, kk) /\ FinishCrank(kk)
         \/ StartNewIncarnation /\ KeepsCounts(k, k') /\ saved' = saved
<1>1. k \in KernelState /\ TableInv(k) /\ CountsInv(k) /\ KeepsCounts(k, k)
      /\ RollbackCrank \in KernelState /\ CountsInv(RollbackCrank)
  BY HoldersFacts, RollbackCounts, KeepsCountsReflexive
<1>2. ASSUME CompleteDelivery
      PROVE  \E kk : KeepsCounts(k, kk) /\ FinishCrank(kk)
  <2> DEFINE kl == ReportUpgrade(k)
  <2>1. FinishCrank(k) \/ FinishCrank(kl)
    BY <1>2 DEF CompleteDelivery
  <2>2. KeepsCounts(k, kl)
    BY <1>1, ReportUpgradeCounts
  <2> HIDE DEF kl
  <2> QED
    BY <1>1, <2>1, <2>2
<1>3. ASSUME AbortUpgrade
      PROVE  /\ crank.type \in UpgradeDeliveries
             /\ \E kk : KeepsCounts(RollbackCrank, kk) /\ FinishCrank(kk)
  <2> DEFINE kl == ReportUpgrade(RollbackCrank)
  <2>1. FinishCrank(kl) /\ crank.type \in UpgradeDeliveries
    BY <1>3 DEF AbortUpgrade
  <2>2. KeepsCounts(RollbackCrank, kl)
    BY <1>1, ReportUpgradeCounts
  <2> HIDE DEF kl
  <2> QED
    BY <2>1, <2>2
<1>4. ASSUME NEW cached \in BOOLEAN, NEW info \in Objects \cup {NoObject},
             AbortDelivery(cached, info)
      PROVE  MayAbort /\ \E kk : KeepsCounts(RollbackCrank, kk) /\ FinishCrank(kk)
  <2> DEFINE v == crank.vat
             kl == TerminateVat(RollbackCrank, v, cached, NoObject)
  <2>1. v \in Vats /\ FinishCrank(kl) /\ MayAbort
    BY <1>4, HoldersFacts, DeliveryVat DEF AbortDelivery
  <2> HIDE DEF v
  <2>2. KeepsCounts(RollbackCrank, kl)
    BY <1>1, <2>1, TerminateVatCounts
  <2> HIDE DEF kl
  <2> QED
    BY <2>1, <2>2
<1>5. ASSUME StartNewIncarnation
      PROVE  KeepsCounts(k, k') /\ saved' = saved
  <2> DEFINE v == crank.vat
             S == NonDurableObjectExports(v)
             kl == OrphanKernelObjects(k, S, v)
  <2>1. crank # Idle /\ k' = kl /\ saved' = saved
    BY <1>5 DEF StartNewIncarnation, Idle
  <2>2. v \in Vats /\ S \subseteq k.exports[v]
    BY <2>1, HoldersFacts, DeliveryVat DEF NonDurableObjectExports
  <2> HIDE DEF v, S
  <2>3. S \in SUBSET Objects /\ \A o \in S : k.owner[o] = v
    BY <1>1, <2>2 DEF TableInv, OwnersMatch, KernelState
  <2>4. KeepsCounts(k, kl)
    BY <1>1, <2>2, <2>3, OrphanKernelObjectsCounts
  <2> HIDE DEF kl
  <2> QED
    BY <2>1, <2>4
<1> QED
  BY <1>2, <1>3, <1>4, <1>5, ExitDeliveryKeeps DEF EndDelivery

-----------------------------------------------------------------------------
\* The invariant.

\* Every root is pinned, and reached by the bootstrap vat if it is another's.
LEMMA InitHolders == Init => HoldersInv
<1> SUFFICES ASSUME Init
             PROVE  HoldersInv
  OBVIOUS
<1>1. OwnerInv
  BY InitOwnerInv
<1>2. /\ k \in KernelState /\ 1 \in Vats /\ NoVat \notin Vats /\ Vats \subseteq Objects
      /\ saved = k
  BY <1>1, AdminIsVat, ConstantsType DEF OwnerInv, TypeOK, Init, AdminVat
<1>3. /\ k.acceptanceQueue = <<>> /\ k.runQueue = <<>>
      /\ k.owner = [o \in Objects |-> IF o \in Vats THEN o ELSE NoVat]
      /\ k.imports = [v \in Vats |-> IF v = 1 THEN Vats \ {1} ELSE {}]
      /\ k.reach = [v \in Vats |-> IF v = 1 THEN Vats ELSE {v}]
      /\ k.refCount = [o \in Objects |->
           [exists       |-> o \in Vats,
            reachable    |-> IF o \in Vats THEN (IF o = 1 THEN 1 ELSE 2) ELSE 0,
            recognizable |-> IF o \in Vats THEN (IF o = 1 THEN 1 ELSE 2) ELSE 0]]
  BY DEF Init
<1>4. ASSUME NEW o \in Objects
      PROVE  /\ Exact(k, o)
             /\ Reaches(k, o) > 0 => Flagged(k, o)
             /\ k.owner[o] # NoVat => KernelObjectExists(k, o)
             /\ Listed(k, o)
  <2>1. Occurrences(<<>>, o) = 0
    <3>1. {i \in 1..Len(<<>>) : <<>>[i].target = o} = {}
          /\ {i \in 1..Len(<<>>) : <<>>[i].arg = o} = {}
      OBVIOUS
    <3>2. Cardinality({}) = 0
      BY FS_EmptySet
    <3> QED
      BY <3>1, <3>2 DEF Occurrences
  <2>2. QueueHolders(k, o) = IF o \in Vats THEN 1 ELSE 0
    BY <1>3, <2>1 DEF QueueHolders
  <2>3. k.refCount[o] = [exists |-> o \in Vats,
            reachable    |-> IF o \in Vats THEN (IF o = 1 THEN 1 ELSE 2) ELSE 0,
            recognizable |-> IF o \in Vats THEN (IF o = 1 THEN 1 ELSE 2) ELSE 0]
    BY <1>3
  <2>4. /\ KernelObjectExists(k, o) <=> o \in Vats
        /\ k.refCount[o].reachable = IF o \in Vats THEN (IF o = 1 THEN 1 ELSE 2) ELSE 0
        /\ k.refCount[o].recognizable = IF o \in Vats THEN (IF o = 1 THEN 1 ELSE 2) ELSE 0
    <3>1. k.refCount[o].exists <=> o \in Vats
      <4> DEFINE n == IF o \in Vats THEN (IF o = 1 THEN 1 ELSE 2) ELSE 0
                 r == k.refCount[o]
                 p == o \in Vats
      <4>1. r = [exists |-> p, reachable |-> n, recognizable |-> n]
        BY <2>3
      <4> HIDE DEF n, r, p
      <4>2. r.exists <=> p
        BY ONLY <4>1
      <4> QED
        BY <4>2 DEF r, p
    <3>2. /\ k.refCount[o].reachable = IF o \in Vats THEN (IF o = 1 THEN 1 ELSE 2) ELSE 0
          /\ k.refCount[o].recognizable = IF o \in Vats THEN (IF o = 1 THEN 1 ELSE 2) ELSE 0
      BY ONLY <2>3
    <3> QED
      BY <3>1, <3>2 DEF KernelObjectExists
  <2>5. \A v \in Vats : /\ o \in k.imports[v] <=> v = 1 /\ o \in Vats /\ o # 1
                        /\ o \in k.reach[v] <=> (v = 1 /\ o \in Vats) \/ o = v
    BY <1>2, <1>3
  <2>6. CASE o \in Vats /\ o # 1
    <3>1. Reachers(k, o) = {1} /\ Recognizers(k, o) = {1}
      BY <1>2, <2>5, <2>6 DEF Reachers, Recognizers
    <3>2. Cardinality({1}) = 1
      BY FS_Singleton
    <3>3. Reaches(k, o) = 2 /\ Recognizes(k, o) = 2
      BY <2>2, <2>6, <3>1, <3>2 DEF Reaches, Recognizes
    <3> QED
      BY <1>2, <1>3, <2>4, <2>5, <2>6, <3>3 DEF Exact, Flagged, Listed
  <2>7. CASE ~(o \in Vats /\ o # 1)
    <3>1. Reachers(k, o) = {} /\ Recognizers(k, o) = {}
      BY <2>5, <2>7 DEF Reachers, Recognizers
    <3>2. Cardinality({}) = 0
      BY FS_EmptySet
    <3>3. /\ Reaches(k, o) = IF o \in Vats THEN 1 ELSE 0
          /\ Recognizes(k, o) = IF o \in Vats THEN 1 ELSE 0
      BY <2>2, <3>1, <3>2 DEF Reaches, Recognizes
    <3> QED
      BY <1>2, <1>3, <2>4, <2>5, <2>7, <3>3 DEF Exact, Flagged, Listed
  <2> QED
    BY <2>6, <2>7
<1>5. CountsInv(k)
  BY <1>4 DEF CountsInv
<1> QED
  BY <1>1, <1>2, <1>5 DEF HoldersInv

LEMMA CountsStay ==
  ASSUME "failureReason" \notin Faults, HoldersInv, [Next]_vars
  PROVE  CountsInv(k') /\ CountsInv(saved')
<1>1. /\ k \in KernelState /\ CountsInv(k) /\ CountsInv(saved)
      /\ RollbackCrank \in KernelState
  BY HoldersFacts, RollbackCounts
<1>2. ASSUME NEW kk, NEW kl, KeepsCounts(kk, kl), FinishCrank(kl)
      PROVE  CountsInv(k') /\ CountsInv(saved')
  BY <1>2, FinishCrankCounts DEF KeepsCounts, KeepsBut
<1>3. ASSUME NEW kk, NEW kl, NEW type, NEW v, KeepsCounts(kk, kl), BeginDelivery(kl, type, v)
      PROVE  CountsInv(k') /\ CountsInv(saved')
  BY <1>1, <1>3 DEF KeepsCounts, KeepsBut, BeginDelivery
<1>4. CASE ProcessAcceptanceMessage
  BY <1>2, <1>4, ProcessAcceptanceMessageKeeps
<1>5. CASE CleanupTerminatedVat
  <2>1. PICK kl, kk : /\ KeepsCounts(k, kl)
                      /\ Forgets(kl, kk, Head(k.terminatedVats))
                      /\ FinishCrank(kk)
    BY <1>5, CleanupTerminatedVatKeeps
  <2>2. CountsInv(kl)
    BY <2>1 DEF KeepsCounts, KeepsBut
  <2>3. kk \in KernelState /\ SameCounts(kl, kk)
    BY <2>1 DEF Forgets
  <2>4. CountsInv(kk)
    BY <2>2, <2>3, SameCountsInv
  <2> QED
    BY <2>1, <2>3, <2>4, FinishCrankCounts
<1>6. CASE ProcessGCActions
  <2>1. ASSUME k' = [k EXCEPT !.failed = TRUE] /\ UNCHANGED <<saved, crank>>
        PROVE  CountsInv(k') /\ CountsInv(saved')
    <3>1. SameCounts(k, k') /\ saved' = saved
      BY <1>1, <2>1 DEF KernelState, SameCounts, SameQueues
    <3> QED
      BY <1>1, <3>1, SameCountsInv
  <2>2. ASSUME FinishCrank(Pruned)
        PROVE  CountsInv(k') /\ CountsInv(saved')
    <3>1. Pruned \in KernelState /\ SameCounts(k, Pruned)
      BY <1>1 DEF KernelState, SameCounts, SameQueues, Pruned
    <3> QED
      BY <1>1, <2>2, <3>1, SameCountsInv, FinishCrankCounts
  <2> QED
    BY <1>3, <1>6, <2>1, <2>2, ProcessGCActionsKeeps
<1>7. CASE DeliverSend
  BY <1>2, <1>3, <1>7, DeliverSendKeeps
<1>8. CASE VatStep
  BY <1>1, <1>8, VatStepKeeps DEF Syscall, KeepsCounts, KeepsBut
<1>9. CASE EndDelivery
  <2>1. ASSUME KeepsCounts(k, k') /\ saved' = saved
        PROVE  CountsInv(k') /\ CountsInv(saved')
    BY <1>1, <2>1 DEF KeepsCounts, KeepsBut
  <2> QED
    BY <1>2, <1>9, <2>1, EndDeliveryKeeps
<1>10. CASE HostStep
  <2>1. ASSUME KeepsCounts(k, k'), saved' = k' \/ saved' = k
        PROVE  CountsInv(k') /\ CountsInv(saved')
    BY <1>1, <2>1 DEF KeepsCounts, KeepsBut
  <2>2. ASSUME SameCounts(k, k'), saved' = k'
        PROVE  CountsInv(k') /\ CountsInv(saved')
    BY <1>1, <2>2, SameCountsInv
  <2> QED
    BY <1>10, <2>1, <2>2, HostStepKeeps
<1>11. CASE UNCHANGED vars
  BY <1>1, <1>11 DEF vars
<1> QED
  BY <1>4, <1>5, <1>6, <1>7, <1>8, <1>9, <1>10, <1>11 DEF Next, KernelStep

LEMMA HoldersInvInductive ==
  ASSUME "failureReason" \notin Faults, HoldersInv, [Next]_vars
  PROVE  HoldersInv'
<1>1. OwnerInv'
  BY OwnerInvInductive DEF HoldersInv
<1>2. CountsInv(k') /\ CountsInv(saved')
  BY CountsStay
<1> QED
  BY <1>1, <1>2 DEF HoldersInv, CountsInv, Exact, Flagged, Listed, Reaches, Recognizes,
     Reachers, Recognizers, QueueHolders, Occurrences, KernelObjectExists

\* The holders that the invariant counts are those of the properties.
LEMMA HeldIsReached ==
  ASSUME HoldersInv, NEW o \in Objects
  PROVE  /\ KernelHolders(o) = QueueHolders(k, o)
         /\ ReachingVats(o) = Reachers(k, o) /\ RecognizingVats(o) = Recognizers(k, o)
         /\ Held(o) <=> Reaches(k, o) > 0
<1>1. /\ KernelHolders(o) = QueueHolders(k, o)
      /\ ReachingVats(o) = Reachers(k, o) /\ RecognizingVats(o) = Recognizers(k, o)
  BY DEF KernelHolders, QueueHolders, ReachingVats, Reachers, RecognizingVats, Recognizers
<1>2. /\ QueueHolders(k, o) \in Nat /\ Reaches(k, o) \in Nat
      /\ Reaches(k, o) = 0 <=> QueueHolders(k, o) = 0 /\ Reachers(k, o) = {}
  BY HoldersFacts, ReferencesType
<1> QED
  BY <1>1, <1>2 DEF Held

\* The reachable and the recognizable count of every object that exists are
\* exactly the c-list entries, queued messages and pins that refer to it, and
\* nothing refers to an object that was deleted, whatever vats send, drop,
\* retire, abandon, and however they end: setObjectReferenceCount never
\* counts below zero, nor decrementRefCount what is still used.  The reason
\* of an exit with failure must name no object.
THEOREM RefCountsAreExact ==
  ASSUME "failureReason" \notin Faults
  PROVE  Spec => []RefCountsExact
<1>1. HoldersInv /\ [Next]_vars => HoldersInv'
  BY HoldersInvInductive
<1>2. HoldersInv => RefCountsExact
  <2> SUFFICES ASSUME HoldersInv, NEW o \in Objects
               PROVE  IF KernelObjectExists(k, o)
                      THEN /\ k.refCount[o].reachable =
                                Cardinality(ReachingVats(o)) + KernelHolders(o)
                           /\ k.refCount[o].recognizable =
                                Cardinality(RecognizingVats(o)) + KernelHolders(o)
                      ELSE ~Held(o)
    BY DEF RefCountsExact
  <2>1. Exact(k, o)
    BY DEF HoldersInv, CountsInv
  <2> QED
    BY <2>1, HeldIsReached DEF Exact, Reaches, Recognizes
<1> QED
  BY InitHolders, <1>1, <1>2, PTL DEF Spec

\* An object that some vat or message can still reach is flagged reachable in
\* its exporter's c-list: the exporter has not been told to drop it, so a
\* delivery never meets an export that the kernel thinks dropped.
THEOREM HeldExportsAreFlagged ==
  ASSUME "failureReason" \notin Faults
  PROVE  Spec => []HeldExportIsFlagged
<1>1. HoldersInv /\ [Next]_vars => HoldersInv'
  BY HoldersInvInductive
<1>2. HoldersInv => HeldExportIsFlagged
  <2> SUFFICES ASSUME HoldersInv, NEW o \in Objects, Held(o), k.owner[o] # NoVat
               PROVE  o \in k.reach[k.owner[o]]
    BY DEF HeldExportIsFlagged
  <2>1. Reaches(k, o) > 0
    BY HeldIsReached
  <2> QED
    BY <2>1 DEF HoldersInv, CountsInv, Flagged
<1> QED
  BY InitHolders, <1>1, <1>2, PTL DEF Spec

\* What begins a delivery of GC actions.
LEMMA GCDeliveryBegins ==
  ASSUME HoldersInv, [Next]_vars, crank = Idle,
         NEW t \in {"dropExports", "retireExports"}, crank'.type = t
  PROVE  /\ ProcessGCActions /\ Collects(k', crank'.vat, t)
         /\ VatIsAlive(k, crank'.vat) /\ crank'.vat \in Vats
<1>1. Idle.type = "idle" /\ Idle.type # t
  BY DEF Idle
<1>2. crank' # Idle
  BY <1>1
<1>3. ~VatStep /\ ~EndDelivery
  BY <1>1 DEF VatStep, SyscallSend, SyscallDropImports, SyscallRetireImports,
     SyscallRetireExports, SyscallAbandonExports, AdminTerminatesVat, Syscall,
     EndDelivery, CompleteDelivery, AbortUpgrade, StartNewIncarnation, ExitDelivery,
     AbortDelivery, MayRunUserCode, UpgradeDeliveries, Idle
<1>4. ~HostStep
  <2>1. ASSUME Restart \/ \E v \in Vats : QueueToVatRoot(v)
        PROVE  FALSE
    BY <1>2, <2>1 DEF Restart, QueueToVatRoot
  <2>2. ASSUME NEW v \in Vats, DeliverBringOutYourDead(v) \/ DeliverUpgradeVat(v)
        PROVE  FALSE
    <3>1. crank'.type = "bringOutYourDead" \/ crank'.type = "oldIncarnation"
      BY <2>2 DEF DeliverBringOutYourDead, DeliverUpgradeVat, BeginDelivery
    <3> QED
      BY <3>1
  <2> QED
    BY <2>1, <2>2 DEF HostStep
<1>5. ~ProcessAcceptanceMessage /\ ~CleanupTerminatedVat
  BY <1>2, ProcessAcceptanceMessageKeeps, CleanupTerminatedVatKeeps DEF FinishCrank
<1>6. ~DeliverSend
  BY <1>2, DeliverSendKeeps DEF FinishCrank, BeginDelivery
<1>7. ProcessGCActions
  BY <1>2, <1>3, <1>4, <1>5, <1>6 DEF Next, KernelStep, vars
<1>8. PICK kl, type : \E v \in Vats :
        /\ KeepsCounts(Pruned, kl) /\ Collects(kl, v, type)
        /\ VatIsAlive(k, v) /\ BeginDelivery(kl, type, v)
  BY <1>2, <1>7, ProcessGCActionsKeeps DEF FinishCrank
<1>9. PICK v \in Vats : Collects(kl, v, type) /\ VatIsAlive(k, v) /\ BeginDelivery(kl, type, v)
  BY <1>8
<1>10. k' = kl /\ crank'.vat = v /\ crank'.type = type
  BY <1>9 DEF BeginDelivery
<1> QED
  BY <1>7, <1>9, <1>10

\* An exporter is told to drop only what nobody holds at that moment, however
\* long the action was in the set and whatever was sent in between.
THEOREM OnlyUnreachableIsDropped ==
  ASSUME "failureReason" \notin Faults
  PROVE  Spec => DropsOnlyUnreachable
<1>1. HoldersInv /\ [Next]_vars => HoldersInv'
  BY HoldersInvInductive
<1>2. HoldersInv /\ [Next]_vars =>
        [crank = Idle /\ crank'.type = "dropExports" =>
           \A o \in k.reach[crank'.vat] \ k'.reach[crank'.vat] : ~Held(o)]_vars
  <2> SUFFICES ASSUME HoldersInv, [Next]_vars, crank = Idle, crank'.type = "dropExports",
                      NEW o \in k.reach[crank'.vat] \ k'.reach[crank'.vat]
               PROVE  ~Held(o)
    OBVIOUS
  <2>1. ProcessGCActions /\ Collects(k', crank'.vat, "dropExports")
    BY GCDeliveryBegins
  <2>2. crank'.vat \in Vats
    BY GCDeliveryBegins
  <2>3. o \in Objects
    BY <2>2, HoldersFacts DEF KernelState
  <2>4. Reaches(k, o) = 0
    BY <2>1, <2>3 DEF Collects
  <2> QED
    BY <2>3, <2>4, HeldIsReached
<1> QED
  BY InitHolders, <1>1, <1>2, PTL DEF Spec, DropsOnlyUnreachable
=============================================================================

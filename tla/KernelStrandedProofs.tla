------------------------- MODULE KernelStrandedProofs -------------------------
(***************************************************************************)
(* Neither side of an object is left waiting for the other, for any number *)
(* of vats and objects: the invariant NothingIsStranded; and an exporter   *)
(* is told to retire only what it was told to drop.  What rests on it: no  *)
(* assertion of the kernel fails, and an abort undoes the crank.           *)
(*                                                                         *)
(* What nobody holds is a candidate of the crank in which it came to that, *)
(* and the end of the crank queues the actions that tell the exporter.     *)
(* The savepoint must be as settled as the state, since an abort returns   *)
(* to it; and the candidates, which are RAM, must be empty there.          *)
(***************************************************************************)
EXTENDS KernelCountsProofs, WellFoundedInduction

Pending(kk, v, type, o) == [vat |-> v, type |-> type, kref |-> o] \in kk.gcActions

\* The live exporter will be told to drop and to retire the object.
Expected(kk, o) ==
  /\ kk.owner[o] # NoVat
  /\ o \in kk.reach[kk.owner[o]] => Pending(kk, kk.owner[o], "dropExport", o)
  /\ Recognizes(kk, o) = 0 => Pending(kk, kk.owner[o], "retireExport", o)

Settled(kk) ==
  \A o \in Objects : Unheld(kk, o) => IsTerminated(kk, kk.owner[o]) \/ Expected(kk, o)

\* The live importers of a deleted object will be told to retire it.
Told(kk) ==
  \A v \in kk.liveIDs : \A o \in kk.imports[v] :
    ~KernelObjectExists(kk, o) => Pending(kk, v, "retireImport", o)

\* A vat that has keys is live or still to be deleted; one that owns an object
\* has keys.
VatsInv(kk) ==
  /\ kk.terminated = kk.terminatedVats
  /\ kk.liveIDs \subseteq kk.initialized
  /\ kk.initialized \subseteq kk.liveIDs \cup Elements(kk.terminatedVats)
  /\ \A o \in Objects : kk.owner[o] \in kk.initialized \cup {NoVat}

SettledInv(kk) == Settled(kk) /\ Told(kk) /\ VatsInv(kk)

\* Both states are settled; the candidates are those of the crank.
RestInv(kk, ks, c) ==
  /\ SettledInv(kk) /\ SettledInv(ks)
  /\ ks.maybeFree = {}
  /\ c = Idle => kk.maybeFree = {}
  /\ c # Idle => c.vat \in kk.initialized \cap ks.initialized

\* The inductive invariant.
StrandedInv == HoldersInv /\ LivesInv /\ RestInv(k, saved, crank)

-----------------------------------------------------------------------------
\* What keeps a state settled.

LEMMA SettledFollows ==
  ASSUME NEW kk \in KernelState, NEW kl, KeepsCounts(kk, kl), SettledInv(kk),
         crank.vat \in kk.initialized \cup {NoVat}
  PROVE  SettledInv(kl)
<1>1. Follows(kk, kl, {}) /\ VatsFollow(kk, kl) /\ kl \in KernelState
  BY DEF KeepsCounts, KeepsBut, Follows
<1>2. /\ kk.gcActions \subseteq kl.gcActions
      /\ Elements(kk.terminatedVats) \subseteq Elements(kl.terminatedVats)
  BY <1>1 DEF Follows, VatsFollow
<1>3. ASSUME NEW o \in Objects, Unheld(kl, o)
      PROVE  IsTerminated(kl, kl.owner[o]) \/ Expected(kl, o)
  <2>1. /\ Unheld(kk, o) /\ kl.owner[o] = kk.owner[o]
        /\ kk.owner[o] # NoVat /\ o \in kl.reach[kk.owner[o]] => o \in kk.reach[kk.owner[o]]
        /\ Recognizes(kl, o) = 0 => Recognizes(kk, o) = 0
    BY <1>1, <1>3 DEF Follows, ObjectFollows
  <2>2. IsTerminated(kk, kk.owner[o]) \/ Expected(kk, o)
    BY <2>1 DEF SettledInv, Settled
  <2> QED
    BY <1>2, <2>1, <2>2 DEF IsTerminated, Expected, Pending
<1>4. Told(kl)
  BY <1>1, <1>2 DEF Follows, VatsFollow, SettledInv, Told, Pending
<1>5. VatsInv(kl)
  BY <1>1, <1>2 DEF VatsFollow, SettledInv, VatsInv
<1> QED
  BY <1>3, <1>4, <1>5 DEF SettledInv, Settled

\* What has no count any more is in nobody's c-list.
LEMMA ImportedIsRecognized ==
  ASSUME NEW kk \in KernelState, CountsInv(kk), NEW v \in Vats, NEW o \in kk.imports[v],
         KernelObjectExists(kk, o)
  PROVE  kk.refCount[o].recognizable > 0
<1>1. o \in Objects
  BY DEF KernelState
<1>2. Recognizers(kk, o) # {}
  BY DEF Recognizers
<1>3. Recognizes(kk, o) \in Nat /\ Recognizes(kk, o) # 0
  BY <1>1, <1>2, ReferencesType
<1> QED
  BY <1>1, <1>3 DEF CountsInv, Exact

LEMMA ProcessRefcountsSettles ==
  ASSUME NEW kk \in KernelState, CountsInv(kk), SettledInv(kk)
  PROVE  SettledInv(ProcessRefcounts(kk)) /\ ProcessRefcounts(kk).maybeFree = {}
<1> DEFINE kl == ProcessRefcounts(kk)
<1>1. Processed(kk, kl) /\ CountsInv(kl)
  BY ProcessRefcountsEffect, ProcessRefcountsCounts
<1> HIDE DEF kl
<1>2. /\ Deletes(kk, kl, Orphans(kk))
      /\ kl.maybeFree = {} /\ kk.gcActions \subseteq kl.gcActions
      /\ kl.liveIDs = kk.liveIDs /\ kl.initialized = kk.initialized
      /\ kl.terminated = kk.terminated /\ kl.terminatedVats = kk.terminatedVats
  BY <1>1 DEF Processed
<1>3. /\ kl \in KernelState /\ kl.imports = kk.imports
      /\ \A o \in Objects : kl.owner[o] = IF o \in Orphans(kk) THEN NoVat ELSE kk.owner[o]
      /\ \A o \in Orphans(kk) : ~KernelObjectExists(kl, o)
      /\ \A o \in Objects \ Orphans(kk) : kl.refCount[o] = kk.refCount[o]
      /\ \A w \in Vats, o \in Objects : o \in kl.reach[w] => o \in kk.reach[w]
  BY <1>2 DEF Deletes
<1>4. ASSUME NEW o \in Objects, Unheld(kl, o)
      PROVE  IsTerminated(kl, kl.owner[o]) \/ Expected(kl, o)
  <2>1. o \notin Orphans(kk) /\ KernelObjectExists(kl, o) /\ Reaches(kl, o) = 0
    BY <1>3, <1>4 DEF Unheld
  <2>2. kl.refCount[o] = kk.refCount[o] /\ kl.owner[o] = kk.owner[o]
    BY <1>3, <2>1
  <2>3. KernelObjectExists(kk, o)
    BY <2>1, <2>2 DEF KernelObjectExists
  <2>4. /\ kl.refCount[o].reachable = Reaches(kl, o)
        /\ kl.refCount[o].recognizable = Recognizes(kl, o)
        /\ kk.refCount[o].reachable = Reaches(kk, o)
        /\ kk.refCount[o].recognizable = Recognizes(kk, o)
    BY <1>1, <2>1, <2>3 DEF CountsInv, Exact
  <2>5. Reaches(kk, o) = 0 /\ Recognizes(kl, o) = Recognizes(kk, o)
    BY <2>1, <2>2, <2>4
  <2>6. kk.owner[o] # NoVat /\ o \in kl.reach[kk.owner[o]] => o \in kk.reach[kk.owner[o]]
    <3>1. kk.owner[o] \in Vats \cup {NoVat}
      BY DEF KernelState
    <3> QED
      BY <1>3, <3>1
  <2>7. CASE o \in kk.maybeFree
    <3>1. o \in Free(kk) \ Orphans(kk)
      BY <2>1, <2>4, <2>5, <2>7 DEF Free
    <3>2. /\ kk.owner[o] # NoVat
          /\ o \in kk.reach[kk.owner[o]] =>
               [vat |-> kk.owner[o], type |-> "dropExport", kref |-> o] \in kl.gcActions
          /\ kk.refCount[o].recognizable = 0 =>
               [vat |-> kk.owner[o], type |-> "retireExport", kref |-> o] \in kl.gcActions
      BY <1>1, <3>1 DEF Processed
    <3> QED
      BY <2>2, <2>4, <2>5, <2>6, <3>2 DEF Expected, Pending
  <2>8. CASE o \notin kk.maybeFree
    <3>1. Unheld(kk, o)
      BY <2>3, <2>5, <2>8 DEF Unheld
    <3>2. IsTerminated(kk, kk.owner[o]) \/ Expected(kk, o)
      BY <3>1 DEF SettledInv, Settled
    <3> QED
      BY <1>2, <2>2, <2>5, <2>6, <3>2 DEF IsTerminated, Expected, Pending
  <2> QED
    BY <2>7, <2>8
<1>5. ASSUME NEW v \in kl.liveIDs, NEW o \in kl.imports[v], ~KernelObjectExists(kl, o)
      PROVE  Pending(kl, v, "retireImport", o)
  <2>1. v \in Vats /\ v \in kk.liveIDs /\ o \in kk.imports[v] /\ o \in Objects
    BY <1>2, <1>3 DEF KernelState
  <2>2. CASE KernelObjectExists(kk, o)
    <3>1. kk.refCount[o].recognizable > 0
      BY <2>1, <2>2, ImportedIsRecognized
    <3>2. o \in Orphans(kk)
      BY <1>3, <1>5, <2>1, <2>2 DEF KernelObjectExists
    <3> QED
      BY <1>1, <2>1, <3>1, <3>2 DEF Processed, Pending
  <2>3. CASE ~KernelObjectExists(kk, o)
    BY <1>2, <2>1, <2>3 DEF SettledInv, Told, Pending
  <2> QED
    BY <2>2, <2>3
<1>6. VatsInv(kl)
  BY <1>2, <1>3 DEF SettledInv, VatsInv
<1>7. SettledInv(kl) /\ kl.maybeFree = {}
  BY <1>2, <1>4, <1>5, <1>6 DEF SettledInv, Settled, Told
<1> QED
  BY <1>7 DEF kl

LEMMA FinishCrankSettles ==
  ASSUME NEW kk \in KernelState, CountsInv(kk), SettledInv(kk), FinishCrank(kk)
  PROVE  /\ SettledInv(k') /\ SettledInv(saved')
         /\ k'.maybeFree = {} /\ saved'.maybeFree = {} /\ crank' = Idle
BY ProcessRefcountsSettles DEF FinishCrank

-----------------------------------------------------------------------------
\* The GC actions of one crank.

LEMMA SmallestMember ==
  ASSUME NEW T \in SUBSET Nat, T # {}
  PROVE  \E m \in T : \A n \in T : m <= n
<1> DEFINE R == StrictSubsetOrdering(Nat)
           S == FiniteSubsetsOf(Nat)
           U == {1..n : n \in T}
<1>1. IsWellFoundedOn(R, S)
  BY FS_StrictSubsetOrderingWellFounded
<1>2. U \subseteq S /\ U # {}
  <2>1. ASSUME NEW n \in T
        PROVE  1..n \in S
    <3>1. IsFiniteSet(1..n)
      BY IntervalIsFinite
    <3>2. 1..n \in SUBSET Nat
      OBVIOUS
    <3> QED
      BY <3>1, <3>2 DEF FiniteSubsetsOf
  <2> HIDE DEF S
  <2> QED
    BY <2>1
<1>3. PICK x \in U : \A y \in U : <<y, x>> \notin R
  <2> HIDE DEF R, S, U
  <2> QED
    BY <1>1, <1>2, WFMin
<1>4. PICK m \in T : x = 1..m
  OBVIOUS
<1>5. ASSUME NEW n \in T, n < m
      PROVE  FALSE
  <2>1. 1..n \in U /\ 1..n \subseteq 1..m /\ m \in 1..m /\ m \notin 1..n
    BY <1>5
  <2>2. 1..n \in SUBSET Nat /\ 1..m \in SUBSET Nat
    OBVIOUS
  <2>3. <<1..n, 1..m>> \in R
    BY <2>1, <2>2 DEF StrictSubsetOrdering
  <2> QED
    BY <1>3, <1>4, <2>1, <2>3
<1> QED
  BY <1>5

\* The place of an action in the order of the groups.
Rank(a) == 4 * a.vat + TypePriority(a.type)

LEMMA RankOrders ==
  /\ \A a \in GCAction : Rank(a) \in Nat
  /\ \A a, b \in GCAction : GroupBefore(a, b) <=> Rank(a) < Rank(b)
<1>1. ASSUME NEW a \in GCAction
      PROVE  a.vat \in Nat /\ TypePriority(a.type) \in 1..3
  BY ConstantsType DEF GCAction, ActionTypes, TypePriority, Vats
<1> QED
  BY <1>1 DEF Rank, GroupBefore

\* A survivor that was examined is one of those that are delivered.
LEMMA ExaminedSurvivor ==
  ASSUME k \in KernelState, NEW a \in GCActionsExamined(k), ShouldProcessAction(k, a)
  PROVE  a \in GCActionsToProcess(k)
<1> DEFINE survivors == {b \in k.gcActions : ShouldProcessAction(k, b)}
           ranks == {Rank(b) : b \in survivors}
<1>1. /\ a \in survivors /\ survivors \subseteq GCAction
      /\ \A b \in GCActionsToProcess(k) : ~GroupBefore(b, a)
      /\ GCActionsToProcess(k) = {c \in survivors : \A b \in survivors : ~GroupBefore(b, c)}
  BY DEF GCActionsExamined, GCActionsToProcess, KernelState
<1> HIDE DEF survivors
<1>2. ranks \in SUBSET Nat /\ ranks # {}
  BY <1>1, RankOrders
<1>3. PICK m \in ranks : \A n \in ranks : m <= n
  <2> HIDE DEF ranks
  <2> QED
    BY <1>2, SmallestMember
<1>4. PICK c \in survivors : m = Rank(c)
  OBVIOUS
<1>5. \A b \in survivors : Rank(c) <= Rank(b)
  BY <1>3, <1>4
<1>6. c \in GCActionsToProcess(k)
  BY <1>1, <1>5, RankOrders
<1>7. Rank(a) <= Rank(c)
  BY <1>1, <1>6, RankOrders
<1>8. \A b \in survivors : ~GroupBefore(b, a)
  BY <1>1, <1>5, <1>7, RankOrders
<1> QED
  BY <1>1, <1>8

\* An action that is still called for is either kept, or delivered.
LEMMA PendingAction ==
  ASSUME k \in KernelState, CountsInv(k), TableInv(k),
         NEW v \in Vats, NEW o \in Objects,
         NEW type \in {"dropExport", "retireExport", "retireImport"}, Pending(k, v, type, o),
         type \in {"dropExport", "retireExport"} => Unheld(k, o) /\ k.owner[o] = v,
         type = "dropExport" => o \in k.reach[v],
         type = "retireExport" => Recognizes(k, o) = 0,
         type = "retireImport" => o \in k.imports[v]
  PROVE  \/ Pending(Pruned, v, type, o)
         \/ \E a \in GCActionsToProcess(k) : a.vat = v /\ a.type = type /\ a.kref = o
<1> DEFINE a == [vat |-> v, type |-> type, kref |-> o]
<1>1. a \in k.gcActions /\ a.vat = v /\ a.type = type /\ a.kref = o
  BY DEF Pending
<1>2. Pruned.gcActions = k.gcActions \ GCActionsExamined(k)
  BY DEF Pruned, KernelState
<1>3. type \in {"dropExport", "retireExport"} =>
        /\ o \in k.exports[v] /\ k.refCount[o].exists
        /\ k.refCount[o].reachable = 0
        /\ k.refCount[o].recognizable = Recognizes(k, o)
  BY DEF TableInv, OwnersMatch, CountsInv, Exact, Unheld, KernelObjectExists
<1>4. ShouldProcessAction(k, a)
  BY <1>1, <1>3 DEF ShouldProcessAction
<1>5. a \in GCActionsExamined(k) => a \in GCActionsToProcess(k)
  BY <1>4, ExaminedSurvivor
<1> QED
  BY <1>1, <1>2, <1>5 DEF Pending

LEMMA PrunedFacts ==
  ASSUME HoldersInv
  PROVE  /\ Pruned \in KernelState /\ CountsInv(Pruned)
         /\ \A o : Unheld(Pruned, o) = Unheld(k, o) /\ Recognizes(Pruned, o) = Recognizes(k, o)
         /\ \A o : KernelObjectExists(Pruned, o) = KernelObjectExists(k, o)
         /\ Pruned.owner = k.owner /\ Pruned.imports = k.imports /\ Pruned.reach = k.reach
         /\ Pruned.liveIDs = k.liveIDs /\ Pruned.initialized = k.initialized
         /\ Pruned.terminated = k.terminated /\ Pruned.terminatedVats = k.terminatedVats
         /\ Pruned.maybeFree = k.maybeFree
<1>1. k \in KernelState /\ CountsInv(k)
  BY HoldersFacts
<1>2. /\ Pruned \in KernelState /\ SameCounts(k, Pruned) /\ Pruned.maybeFree = k.maybeFree
      /\ Pruned.liveIDs = k.liveIDs /\ Pruned.initialized = k.initialized
      /\ Pruned.terminated = k.terminated /\ Pruned.terminatedVats = k.terminatedVats
  BY <1>1 DEF KernelState, SameCounts, SameQueues, Pruned
<1>3. \A o : Reaches(Pruned, o) = Reaches(k, o) /\ Recognizes(Pruned, o) = Recognizes(k, o)
  BY <1>2, SameReferences DEF SameCounts
<1> QED
  BY <1>1, <1>2, <1>3, SameCountsInv DEF SameCounts, Unheld, KernelObjectExists

\* A group that is delivered is carried out.
LEMMA DeliveredSettles ==
  ASSUME HoldersInv, SettledInv(k), crank = Idle,
         NEW kl, KeepsCounts(Pruned, kl), CarriesOut(kl)
  PROVE  SettledInv(kl)
<1>1. k \in KernelState /\ CountsInv(k) /\ TableInv(k)
  BY HoldersFacts
<1>2. /\ Follows(Pruned, kl, {}) /\ VatsFollow(Pruned, kl) /\ kl \in KernelState
      /\ Pruned.gcActions \subseteq kl.gcActions
      /\ Elements(k.terminatedVats) \subseteq Elements(kl.terminatedVats)
      /\ kl.liveIDs \subseteq k.liveIDs
  BY PrunedFacts DEF KeepsCounts, KeepsBut, Follows, VatsFollow
<1>3. crank.vat = NoVat
  BY DEF Idle
<1>4. ASSUME NEW o \in Objects, Unheld(kl, o)
      PROVE  IsTerminated(kl, kl.owner[o]) \/ Expected(kl, o)
  <2> DEFINE v == k.owner[o]
  <2>1. /\ Unheld(k, o) /\ kl.owner[o] = v
        /\ v # NoVat /\ o \in kl.reach[v] => o \in k.reach[v]
        /\ Recognizes(kl, o) = 0 => Recognizes(k, o) = 0
    BY <1>2, <1>4, PrunedFacts DEF Follows, ObjectFollows
  <2>2. IsTerminated(k, v) \/ Expected(k, o)
    BY <2>1 DEF SettledInv, Settled
  <2>3. CASE IsTerminated(k, v)
    BY <1>2, <2>1, <2>3 DEF IsTerminated
  <2>4. CASE Expected(k, o)
    <3>1. v \in Vats
      BY <1>1, <2>4 DEF Expected, KernelState
    <3>2. ASSUME o \in kl.reach[v]
          PROVE  Pending(kl, v, "dropExport", o)
      <4>1. o \in k.reach[v] /\ Pending(k, v, "dropExport", o)
        BY <2>1, <2>4, <3>1, <3>2 DEF Expected
      <4>2. ASSUME NEW a \in GCActionsToProcess(k),
                   a.vat = v, a.type = "dropExport", a.kref = o
            PROVE  FALSE
        BY <3>2, <4>2 DEF CarriesOut
      <4>3. Unheld(k, o) /\ k.owner[o] = v
        BY <2>1
      <4> HIDE DEF v
      <4>4. Pending(Pruned, v, "dropExport", o)
        BY <1>1, <3>1, <4>1, <4>2, <4>3, PendingAction
      <4> QED
        BY <1>2, <4>4 DEF Pending
    <3>3. ASSUME Recognizes(kl, o) = 0
          PROVE  Pending(kl, v, "retireExport", o)
      <4>1. Recognizes(k, o) = 0 /\ Pending(k, v, "retireExport", o)
        BY <2>1, <2>4, <3>1, <3>3 DEF Expected
      <4>2. ASSUME NEW a \in GCActionsToProcess(k),
                   a.vat = v, a.type = "retireExport", a.kref = o
            PROVE  FALSE
        BY <1>4, <4>2 DEF CarriesOut, Unheld
      <4>3. Unheld(k, o) /\ k.owner[o] = v
        BY <2>1
      <4> HIDE DEF v
      <4>4. Pending(Pruned, v, "retireExport", o)
        BY <1>1, <3>1, <4>1, <4>2, <4>3, PendingAction
      <4> QED
        BY <1>2, <4>4 DEF Pending
    <3> HIDE DEF v
    <3> QED
      BY <2>1, <3>1, <3>2, <3>3, ConstantsType DEF Expected
  <2> QED
    BY <2>2, <2>3, <2>4
<1>5. ASSUME NEW v \in kl.liveIDs, NEW o \in kl.imports[v], ~KernelObjectExists(kl, o)
      PROVE  Pending(kl, v, "retireImport", o)
  <2>1. v \in Vats /\ v \in k.liveIDs /\ o \in Objects
    BY <1>2 DEF KernelState
  <2>2. \/ o \in k.imports[v] /\ ~KernelObjectExists(k, o)
        \/ Pending(kl, v, "retireImport", o)
    BY <1>2, <1>5, PrunedFacts DEF Follows, Pending
  <2>3. ASSUME o \in k.imports[v], ~KernelObjectExists(k, o)
        PROVE  Pending(kl, v, "retireImport", o)
    <3>1. Pending(k, v, "retireImport", o)
      BY <2>1, <2>3 DEF SettledInv, Told
    <3>2. ASSUME NEW a \in GCActionsToProcess(k),
                 a.vat = v, a.type = "retireImport", a.kref = o
          PROVE  FALSE
      BY <1>5, <3>2 DEF CarriesOut
    <3>3. Pending(Pruned, v, "retireImport", o)
      BY <1>1, <2>1, <2>3, <3>1, <3>2, PendingAction
    <3> QED
      BY <1>2, <3>3 DEF Pending
  <2> QED
    BY <2>2, <2>3
<1>6. VatsInv(kl)
  BY <1>2, <1>3, PrunedFacts DEF VatsFollow, SettledInv, VatsInv
<1> QED
  BY <1>4, <1>5, <1>6 DEF SettledInv, Settled, Told

\* A group for a dead vat is dropped: what that vat owned is its deletion's.
LEMMA DroppedSettles ==
  ASSUME HoldersInv, LivesInv, SettledInv(k), crank = Idle,
         \A a \in GCActionsToProcess(k) : ~VatIsAlive(k, a.vat)
  PROVE  SettledInv(Pruned)
<1>1. k \in KernelState /\ CountsInv(k) /\ TableInv(k) /\ VatsInv(k)
  BY HoldersFacts DEF SettledInv
<1>2. ASSUME NEW o \in Objects, Unheld(k, o)
      PROVE  IsTerminated(k, k.owner[o]) \/ Expected(Pruned, o)
  <2> DEFINE v == k.owner[o]
  <2>1. IsTerminated(k, v) \/ Expected(k, o)
    BY <1>2 DEF SettledInv, Settled
  <2>2. ASSUME ~IsTerminated(k, v), Expected(k, o)
        PROVE  Expected(Pruned, o)
    <3>1. v \in Vats /\ VatIsAlive(k, v)
      BY <1>1, <2>2 DEF Expected, KernelState, VatsInv, VatIsAlive
    <3>2. \A a \in GCActionsToProcess(k) : a.vat # v
      BY <3>1
    <3>3. o \in k.reach[v] => Pending(Pruned, v, "dropExport", o)
      BY <1>1, <1>2, <2>2, <3>1, <3>2, PendingAction DEF Expected
    <3>4. Recognizes(k, o) = 0 => Pending(Pruned, v, "retireExport", o)
      BY <1>1, <1>2, <2>2, <3>1, <3>2, PendingAction DEF Expected
    <3> QED
      BY <2>2, <3>3, <3>4, PrunedFacts DEF Expected
  <2> QED
    BY <2>1, <2>2
<1>3. ASSUME NEW v \in k.liveIDs, NEW o \in k.imports[v], ~KernelObjectExists(k, o)
      PROVE  Pending(Pruned, v, "retireImport", o)
  <2>1. v \in Vats /\ o \in Objects
    BY <1>1 DEF KernelState
  <2>2. VatIsAlive(k, v)
    BY <1>1 DEF VatsInv, VatIsAlive, IsTerminated, LivesInv, DeadAreNotLive
  <2>3. \A a \in GCActionsToProcess(k) : a.vat # v
    BY <2>2
  <2> QED
    BY <1>1, <1>3, <2>1, <2>3, PendingAction DEF SettledInv, Told
<1>4. VatsInv(Pruned)
  BY <1>1, PrunedFacts DEF VatsInv
<1> QED
  BY <1>2, <1>3, <1>4, PrunedFacts DEF SettledInv, Settled, Told, IsTerminated

-----------------------------------------------------------------------------
\* The slow deletion of a vat, and the return to the savepoint.

LEMMA HeadOrTail ==
  ASSUME NEW s \in Seq(Vats), s # <<>>
  PROVE  /\ Head(s) \in Elements(s)
         /\ \A w \in Elements(s) : w = Head(s) \/ w \in Elements(Tail(s))
<1>1. /\ Len(s) \in Nat /\ Len(s) > 0 /\ Len(Tail(s)) = Len(s) - 1 /\ Head(s) = s[1]
      /\ \A i \in 1..(Len(s) - 1) : Tail(s)[i] = s[i + 1]
  BY HeadTailProperties
<1>2. Head(s) \in Elements(s)
  BY <1>1 DEF Elements
<1>3. ASSUME NEW i \in 1..Len(s), i # 1
      PROVE  s[i] \in Elements(Tail(s))
  <2>1. i - 1 \in 1..Len(Tail(s)) /\ Tail(s)[i - 1] = s[i]
    BY <1>1, <1>3
  <2> QED
    BY <2>1 DEF Elements
<1> QED
  BY <1>1, <1>2, <1>3 DEF Elements

\* The vats change in what the deletion forgets, the objects do not.
LEMMA ForgetsSettles ==
  ASSUME HoldersInv, LivesInv, SettledInv(k), CleanupTerminatedVat,
         NEW kl, NEW kk, KeepsCounts(k, kl), Forgets(kl, kk, Head(k.terminatedVats))
  PROVE  kk \in KernelState /\ CountsInv(kk) /\ SettledInv(kk)
<1> DEFINE v == Head(k.terminatedVats)
<1>1. k \in KernelState /\ k.terminatedVats # <<>> /\ crank.vat = NoVat
  BY HoldersFacts DEF CleanupTerminatedVat, Running, Idle
<1>2. SettledInv(kl) /\ kl \in KernelState /\ CountsInv(kl) /\ kl.liveIDs \subseteq k.liveIDs
  BY <1>1, SettledFollows DEF KeepsCounts, KeepsBut, Follows, VatsFollow
<1>3. v \in Elements(k.terminatedVats)
  BY <1>1, HeadOrTail DEF KernelState
<1>4. v \notin kl.liveIDs
  BY <1>2, <1>3 DEF LivesInv, DeadAreNotLive
<1> HIDE DEF v
<1>5. /\ kk \in KernelState /\ SameCounts(kl, kk)
      /\ kk.maybeFree = kl.maybeFree /\ kk.gcActions = kl.gcActions
      /\ kk.liveIDs = kl.liveIDs
      /\ kk.initialized \subseteq kl.initialized
      /\ kl.initialized \ {v} \subseteq kk.initialized
      /\ kk.initialized = kl.initialized \/ \A o \in Objects : kl.owner[o] # v
      /\ kl.terminated = kl.terminatedVats
      /\ kk.terminated = kk.terminatedVats
  BY <1>2 DEF Forgets, SettledInv, VatsInv, v
<1>6. \/ kk.terminatedVats = kl.terminatedVats
      \/ /\ \A w \in Elements(kl.terminatedVats) : w = v \/ w \in Elements(kk.terminatedVats)
         /\ v \notin kk.initialized /\ \A o \in Objects : kl.owner[o] # v
  <2>1. kl.terminatedVats \in Seq(Vats)
    BY <1>2 DEF KernelState
  <2> QED
    BY <2>1, HeadOrTail DEF Forgets, v
<1>7. CountsInv(kk)
  BY <1>2, <1>5, SameCountsInv
<1>8. \A o : Reaches(kk, o) = Reaches(kl, o) /\ Recognizes(kk, o) = Recognizes(kl, o)
  BY <1>5, SameReferences DEF SameCounts
<1>9. ASSUME NEW o \in Objects, Unheld(kk, o)
      PROVE  IsTerminated(kk, kk.owner[o]) \/ Expected(kk, o)
  <2>1. Unheld(kl, o) /\ kk.owner[o] = kl.owner[o]
    BY <1>5, <1>8, <1>9 DEF Unheld, SameCounts, KernelObjectExists
  <2>2. IsTerminated(kl, kl.owner[o]) \/ Expected(kl, o)
    BY <1>2, <2>1 DEF SettledInv, Settled
  <2>3. IsTerminated(kl, kl.owner[o]) => IsTerminated(kk, kk.owner[o])
    BY <1>6, <2>1 DEF IsTerminated
  <2>4. Expected(kl, o) => Expected(kk, o)
    BY <1>5, <1>8 DEF Expected, Pending, SameCounts
  <2> QED
    BY <2>2, <2>3, <2>4
<1>10. Told(kk)
  BY <1>2, <1>5 DEF SettledInv, Told, Pending, SameCounts, KernelObjectExists
<1>11. VatsInv(kk)
  <2>1. kk.liveIDs \subseteq kk.initialized
    BY <1>2, <1>4, <1>5 DEF SettledInv, VatsInv
  <2>2. kk.initialized \subseteq kk.liveIDs \cup Elements(kk.terminatedVats)
    BY <1>2, <1>5, <1>6 DEF SettledInv, VatsInv
  <2>3. \A o \in Objects : kk.owner[o] \in kk.initialized \cup {NoVat}
    BY <1>2, <1>5 DEF SettledInv, VatsInv, SameCounts
  <2> QED
    BY <1>5, <2>1, <2>2, <2>3 DEF VatsInv
<1> QED
  BY <1>5, <1>7, <1>9, <1>10, <1>11 DEF SettledInv, Settled

\* The list of terminated vats, which is RAM, is that of the savepoint, and the
\* candidates can only be more.
LEMMA RollbackSettles ==
  ASSUME StrandedInv, k.terminatedVats = saved.terminatedVats
  PROVE  /\ SettledInv(RollbackCrank) /\ RollbackCrank.initialized = saved.initialized
<1>1. /\ saved \in KernelState /\ SettledInv(saved) /\ saved.maybeFree = {}
      /\ SameCounts(saved, RollbackCrank)
  BY HoldersFacts, RollbackCounts DEF StrandedInv, RestInv
<1>2. /\ RollbackCrank.gcActions = saved.gcActions
      /\ RollbackCrank.liveIDs = saved.liveIDs
      /\ RollbackCrank.initialized = saved.initialized
      /\ RollbackCrank.terminated = saved.terminated
      /\ RollbackCrank.terminatedVats = saved.terminatedVats
  BY <1>1 DEF RollbackCrank, KernelState
<1> DEFINE kl == RollbackCrank
<1> HIDE DEF kl
<1>3. /\ SameCounts(saved, kl) /\ kl.gcActions = saved.gcActions
      /\ kl.liveIDs = saved.liveIDs /\ kl.initialized = saved.initialized
      /\ kl.terminated = saved.terminated /\ kl.terminatedVats = saved.terminatedVats
  BY <1>1, <1>2 DEF kl
<1>4. \A o : Reaches(kl, o) = Reaches(saved, o) /\ Recognizes(kl, o) = Recognizes(saved, o)
  BY <1>3, SameReferences DEF SameCounts
<1>5. \A o \in Objects : Unheld(kl, o) => Unheld(saved, o)
  BY <1>1, <1>3, <1>4 DEF Unheld, SameCounts, KernelObjectExists
<1>6. \A o \in Objects : Expected(saved, o) => Expected(kl, o)
  BY <1>3, <1>4 DEF Expected, Pending, SameCounts
<1>7. Settled(kl)
  BY <1>1, <1>3, <1>5, <1>6 DEF SettledInv, Settled, IsTerminated, SameCounts
<1>8. Told(kl) /\ VatsInv(kl)
  BY <1>1, <1>3 DEF SettledInv, Told, VatsInv, Pending, SameCounts, KernelObjectExists
<1> QED
  BY <1>2, <1>7, <1>8 DEF SettledInv, kl

-----------------------------------------------------------------------------
\* The actions.

LEMMA StrandedFacts ==
  ASSUME StrandedInv
  PROVE  /\ HoldersInv /\ LivesInv /\ k \in KernelState /\ CountsInv(k)
         /\ SettledInv(k) /\ SettledInv(saved) /\ saved.maybeFree = {}
         /\ crank.vat \in k.initialized \cup {NoVat}
         /\ crank.vat \in saved.initialized \cup {NoVat}
         /\ crank = Idle => k.maybeFree = {} /\ crank.vat = NoVat
BY HoldersFacts DEF StrandedInv, RestInv, Idle

LEMMA FinishCrankRests ==
  ASSUME NEW kk \in KernelState, CountsInv(kk), SettledInv(kk), FinishCrank(kk)
  PROVE  RestInv(k', saved', crank')
BY FinishCrankSettles DEF RestInv

LEMMA ProcessGCActionsRests ==
  ASSUME StrandedInv, ProcessGCActions
  PROVE  RestInv(k', saved', crank')
<1>1. crank = Idle
  BY DEF ProcessGCActions, Running
<1>2. ASSUME k' = [k EXCEPT !.failed = TRUE] /\ UNCHANGED <<saved, crank>>
      PROVE  RestInv(k', saved', crank')
  <2> DEFINE kl == [k EXCEPT !.failed = TRUE]
  <2>1. /\ SameCounts(k, kl) /\ kl.maybeFree = k.maybeFree /\ kl.gcActions = k.gcActions
        /\ kl.liveIDs = k.liveIDs /\ kl.initialized = k.initialized
        /\ kl.terminated = k.terminated /\ kl.terminatedVats = k.terminatedVats
    BY StrandedFacts DEF KernelState, SameCounts, SameQueues
  <2> HIDE DEF kl
  <2>2. \A o : Reaches(kl, o) = Reaches(k, o) /\ Recognizes(kl, o) = Recognizes(k, o)
    BY <2>1, SameReferences DEF SameCounts
  <2>3. \A o \in Objects : Unheld(kl, o) => Unheld(k, o)
    BY <2>1, <2>2 DEF Unheld, SameCounts, KernelObjectExists
  <2>4. \A o \in Objects : Expected(k, o) => Expected(kl, o)
    BY <2>1, <2>2 DEF Expected, Pending, SameCounts
  <2>5. Settled(kl)
    BY StrandedFacts, <2>1, <2>3, <2>4 DEF SettledInv, Settled, IsTerminated, SameCounts
  <2>6. Told(kl) /\ VatsInv(kl)
    BY StrandedFacts, <2>1 DEF SettledInv, Told, VatsInv, Pending, SameCounts,
       KernelObjectExists
  <2>7. SettledInv(kl)
    BY <2>5, <2>6 DEF SettledInv
  <2>8. k' = kl /\ saved' = saved /\ crank' = crank
    BY <1>2 DEF kl
  <2> QED
    BY <1>1, <2>1, <2>7, <2>8, StrandedFacts DEF RestInv
<1>3. ASSUME FinishCrank(Pruned), \A a \in GCActionsToProcess(k) : ~VatIsAlive(k, a.vat)
      PROVE  RestInv(k', saved', crank')
  BY <1>1, <1>3, StrandedFacts, DroppedSettles, PrunedFacts, FinishCrankRests
<1>4. ASSUME NEW kl, NEW type, NEW v \in Vats, KeepsCounts(Pruned, kl), CarriesOut(kl),
             VatIsAlive(k, v), BeginDelivery(kl, type, v)
      PROVE  RestInv(k', saved', crank')
  <2>1. SettledInv(kl)
    BY <1>1, <1>4, StrandedFacts, DeliveredSettles
  <2>2. v \in k.initialized /\ kl.initialized = k.initialized
    BY <1>4, StrandedFacts, PrunedFacts
    DEF KeepsCounts, KeepsBut, Follows, VatsFollow, VatIsAlive
  <2>3. k' = kl /\ saved' = k /\ crank' = [type |-> type, vat |-> v, syscalls |-> 0]
    BY <1>4 DEF BeginDelivery
  <2>4. crank' # Idle /\ crank'.vat = v
    BY <2>3, ConstantsType DEF Idle
  <2> QED
    BY <1>1, <2>1, <2>2, <2>3, <2>4, StrandedFacts DEF RestInv
<1> QED
  BY <1>2, <1>3, <1>4, StrandedFacts, ProcessGCActionsKeeps

LEMMA KernelStepRests ==
  ASSUME StrandedInv, KernelStep
  PROVE  RestInv(k', saved', crank')
<1>1. ASSUME NEW kk, KeepsCounts(k, kk), FinishCrank(kk)
      PROVE  RestInv(k', saved', crank')
  BY <1>1, StrandedFacts, SettledFollows, FinishCrankRests DEF KeepsCounts, KeepsBut
<1>2. CASE ProcessAcceptanceMessage
  BY <1>1, <1>2, StrandedFacts, ProcessAcceptanceMessageKeeps
<1>3. CASE CleanupTerminatedVat
  <2>1. PICK kl, kk : /\ KeepsCounts(k, kl)
                      /\ Forgets(kl, kk, Head(k.terminatedVats))
                      /\ FinishCrank(kk)
    BY <1>3, StrandedFacts, CleanupTerminatedVatKeeps
  <2> QED
    BY <1>3, <2>1, StrandedFacts, ForgetsSettles, FinishCrankRests
<1>4. CASE DeliverSend
  <2>1. ASSUME NEW kk, NEW v \in Vats, NEW o \in Objects, KeepsCounts(k, kk),
               v = k.owner[o], BeginDelivery(kk, "message", v)
        PROVE  RestInv(k', saved', crank')
    <3>1. SettledInv(kk)
      BY <2>1, StrandedFacts, SettledFollows
    <3>2. v \in k.initialized /\ kk.initialized = k.initialized
      BY <2>1, StrandedFacts, ConstantsType
      DEF KeepsCounts, KeepsBut, Follows, VatsFollow, SettledInv, VatsInv
    <3>3. k' = kk /\ saved' = k /\ crank' = [type |-> "message", vat |-> v, syscalls |-> 0]
      BY <2>1 DEF BeginDelivery
    <3>4. crank' # Idle /\ crank'.vat = v
      BY <3>3, ConstantsType DEF Idle
    <3>5. k.maybeFree = {}
      BY <1>4, StrandedFacts DEF DeliverSend, Running
    <3> QED
      BY <3>1, <3>2, <3>3, <3>4, <3>5, StrandedFacts DEF RestInv
  <2> QED
    BY <1>1, <1>4, <2>1, StrandedFacts, DeliverSendKeeps
<1> QED
  BY <1>2, <1>3, <1>4, ProcessGCActionsRests DEF KernelStep

LEMMA VatStepRests ==
  ASSUME StrandedInv, VatStep
  PROVE  RestInv(k', saved', crank')
<1>1. PICK kk : KeepsCounts(k, kk) /\ Syscall(kk)
  BY StrandedFacts, VatStepKeeps
<1>2. SettledInv(kk) /\ kk.initialized = k.initialized
  BY <1>1, StrandedFacts, SettledFollows
  DEF KeepsCounts, KeepsBut, Follows, VatsFollow
<1>3. /\ crank # Idle /\ k' = kk /\ saved' = saved
      /\ crank' = [crank EXCEPT !.syscalls = @ + 1]
  BY <1>1 DEF Syscall
<1>4. crank \in [type : DeliveryTypes, vat : Vats, syscalls : 0..MaxSyscalls]
  BY <1>3, StrandedFacts DEF LivesInv, TypeOK, CrankType
<1>5. crank'.vat = crank.vat /\ crank'.vat \in Vats
  BY <1>3, <1>4
<1>6. crank' # Idle /\ crank.vat \in k.initialized \cap saved.initialized
  BY <1>3, <1>5, ConstantsType DEF Idle, StrandedInv, RestInv
<1> QED
  BY <1>2, <1>3, <1>5, <1>6, StrandedFacts DEF RestInv

LEMMA EndDeliveryRests ==
  ASSUME "failureReason" \notin Faults, "afterAdminTerminate" \notin Faults,
         StrandedInv, EndDelivery
  PROVE  RestInv(k', saved', crank')
<1>1. ASSUME NEW kk, KeepsCounts(k, kk), FinishCrank(kk)
      PROVE  RestInv(k', saved', crank')
  BY <1>1, StrandedFacts, SettledFollows, FinishCrankRests DEF KeepsCounts, KeepsBut
<1>2. ASSUME NEW kk, KeepsCounts(RollbackCrank, kk), FinishCrank(kk),
             crank.type \in UpgradeDeliveries \/ MayAbort
      PROVE  RestInv(k', saved', crank')
  <2>1. k.terminatedVats = saved.terminatedVats
    BY <1>2, StrandedFacts DEF MayAbort, LivesInv
  <2>2. /\ SettledInv(RollbackCrank) /\ RollbackCrank.initialized = saved.initialized
        /\ RollbackCrank \in KernelState
    BY <2>1, StrandedFacts, RollbackSettles, RollbackCounts
  <2>3. SettledInv(kk)
    BY <1>2, <2>2, StrandedFacts, SettledFollows
  <2> QED
    BY <1>2, <2>3, FinishCrankRests DEF KeepsCounts, KeepsBut
<1>3. ASSUME StartNewIncarnation, KeepsCounts(k, k'), saved' = saved
      PROVE  RestInv(k', saved', crank')
  <2>1. SettledInv(k') /\ k'.initialized = k.initialized
    BY <1>3, StrandedFacts, SettledFollows
    DEF KeepsCounts, KeepsBut, Follows, VatsFollow
  <2>2. crank # Idle /\ crank' = [crank EXCEPT !.type = "newIncarnation"]
    BY <1>3 DEF StartNewIncarnation, Idle
  <2>3. crank \in [type : DeliveryTypes, vat : Vats, syscalls : 0..MaxSyscalls]
    BY <2>2, StrandedFacts DEF LivesInv, TypeOK, CrankType
  <2>4. crank'.vat = crank.vat /\ crank'.vat \in Vats
    BY <2>2, <2>3
  <2>5. crank' # Idle /\ crank.vat \in k.initialized \cap saved.initialized
    BY <2>2, <2>4, ConstantsType DEF Idle, StrandedInv, RestInv
  <2> QED
    BY <1>3, <2>1, <2>4, <2>5, StrandedFacts DEF RestInv
<1> QED
  BY <1>1, <1>2, <1>3, StrandedFacts, EndDeliveryKeeps

LEMMA HostStepRests ==
  ASSUME StrandedInv, HostStep
  PROVE  RestInv(k', saved', crank')
<1>1. ASSUME NEW v \in Vats, QueueToVatRoot(v)
      PROVE  RestInv(k', saved', crank')
  <2> DEFINE m == [target |-> v, arg |-> NoObject]
             kl == DoSend(k, m)
  <2>1. /\ crank = Idle /\ k' = kl /\ saved' = kl /\ crank' = crank
        /\ v \in Objects /\ m \in Message /\ m.target = v /\ m.arg = NoObject
    BY <1>1, ConstantsType DEF QueueToVatRoot, Running, Message
  <2>2. Ready(k, v)
    BY StrandedFacts, HoldersFacts, PinnedIsReady
  <2> HIDE DEF m
  <2>3. KeepsCounts(k, kl)
    BY <2>1, <2>2, StrandedFacts, DoSendCounts
  <2>4. kl.maybeFree = k.maybeFree
    <3>1. kl = [IncrementRefCount(k, v) EXCEPT !.acceptanceQueue = Append(@, m)]
      BY <2>1 DEF DoSend, IncrementRefCount
    <3>2. /\ IncrementRefCount(k, v) \in KernelState
          /\ IncrementRefCount(k, v).maybeFree = k.maybeFree
      <4>1. k.refCount[v].reachable <= k.refCount[v].recognizable
        BY <2>1, <2>2, StrandedFacts, ReferencesType DEF Ready, CountsInv, Exact
      <4> QED
        BY <2>1, <4>1, StrandedFacts, IncrementEffect
    <3> HIDE DEF kl
    <3> QED
      BY <3>1, <3>2 DEF KernelState
  <2> HIDE DEF kl
  <2>5. SettledInv(kl)
    BY <2>3, StrandedFacts, SettledFollows
  <2> QED
    BY <2>1, <2>4, <2>5, StrandedFacts DEF RestInv
<1>2. CASE Restart
  <2> DEFINE kl == [k EXCEPT !.vatKeepers = {}, !.maybeFree = {},
                             !.terminatedVats = k.terminated]
  <2>1. crank = Idle /\ k' = kl /\ saved' = kl /\ crank' = crank
    BY <1>2 DEF Restart, Running
  <2>2. /\ SameCounts(k, kl) /\ kl.maybeFree = {} /\ kl.gcActions = k.gcActions
        /\ kl.liveIDs = k.liveIDs /\ kl.initialized = k.initialized
        /\ kl.terminated = k.terminated /\ kl.terminatedVats = k.terminatedVats
    BY StrandedFacts DEF KernelState, SameCounts, SameQueues, SettledInv, VatsInv
  <2> HIDE DEF kl
  <2>3. \A o : Reaches(kl, o) = Reaches(k, o) /\ Recognizes(kl, o) = Recognizes(k, o)
    BY <2>2, SameReferences DEF SameCounts
  <2>4. \A o \in Objects : Unheld(kl, o) => Unheld(k, o)
    BY <2>1, <2>2, <2>3, StrandedFacts DEF Unheld, SameCounts, KernelObjectExists
  <2>5. \A o \in Objects : Expected(k, o) => Expected(kl, o)
    BY <2>2, <2>3 DEF Expected, Pending, SameCounts
  <2>6. Settled(kl)
    BY StrandedFacts, <2>2, <2>4, <2>5 DEF SettledInv, Settled, IsTerminated, SameCounts
  <2>7. Told(kl) /\ VatsInv(kl)
    BY StrandedFacts, <2>2 DEF SettledInv, Told, VatsInv, Pending, SameCounts,
       KernelObjectExists
  <2> QED
    BY <2>1, <2>2, <2>6, <2>7 DEF RestInv, SettledInv
<1>3. ASSUME NEW v \in Vats, DeliverBringOutYourDead(v) \/ DeliverUpgradeVat(v)
      PROVE  RestInv(k', saved', crank')
  <2>1. crank = Idle /\ k' = k /\ saved' = k /\ crank'.vat = v /\ v \in k.initialized
    BY <1>3 DEF DeliverBringOutYourDead, DeliverUpgradeVat, BeginDelivery, Running,
       VatIsAlive
  <2> QED
    BY <2>1, StrandedFacts DEF RestInv
<1> QED
  BY <1>1, <1>2, <1>3 DEF HostStep

\* At first every root has its pin, and there is nothing else.
LEMMA InitStranded == Init => StrandedInv
<1> SUFFICES ASSUME Init
             PROVE  StrandedInv
  OBVIOUS
<1>1. HoldersInv /\ LivesInv
  BY InitHolders, InitLives
<1>2. k \in KernelState
  BY <1>1, HoldersFacts
<1>3. /\ \A o \in Objects : o \notin Vats => ~KernelObjectExists(k, o)
      /\ \A o \in Objects : k.owner[o] = IF o \in Vats THEN o ELSE NoVat
      /\ \A v \in Vats : k.imports[v] \subseteq Vats
      /\ \A o \in Vats : KernelObjectExists(k, o)
      /\ k.initialized = Vats /\ k.liveIDs = Vats
      /\ k.terminated = <<>> /\ k.terminatedVats = <<>>
      /\ k.maybeFree = {} /\ saved = k /\ crank = Idle
  BY ConstantsType DEF Init, KernelObjectExists
<1>4. \A o \in Objects : ~Unheld(k, o)
  <2> SUFFICES ASSUME NEW o \in Objects, Unheld(k, o)
               PROVE  FALSE
    OBVIOUS
  <2>1. o \in Vats
    BY <1>3 DEF Unheld
  <2>2. QueueHolders(k, o) = Occurrences(k.acceptanceQueue, o) + Occurrences(k.runQueue, o) + 1
        /\ Occurrences(k.acceptanceQueue, o) \in Nat /\ Occurrences(k.runQueue, o) \in Nat
    BY <1>2, <2>1, OccurrencesAreCounts DEF QueueHolders, KernelState
  <2>3. QueueHolders(k, o) = 0
    BY <1>2, ReferencesType DEF Unheld
  <2> QED
    BY <2>2, <2>3
<1>5. SettledInv(k)
  <2>1. Told(k)
    BY <1>3 DEF Told
  <2>2. VatsInv(k)
    BY <1>3 DEF VatsInv
  <2> QED
    BY <1>4, <2>1, <2>2 DEF SettledInv, Settled
<1> QED
  BY <1>1, <1>3, <1>5 DEF StrandedInv, RestInv

LEMMA StrandedInvInductive ==
  ASSUME "failureReason" \notin Faults, "afterAdminTerminate" \notin Faults,
         StrandedInv, [Next]_vars
  PROVE  StrandedInv'
<1>1. HoldersInv' /\ LivesInv'
  BY HoldersInvInductive, LivesInvInductive DEF StrandedInv
<1>2. RestInv(k', saved', crank')
  <2>1. CASE UNCHANGED vars
    BY <2>1 DEF vars, StrandedInv
  <2> QED
    BY <2>1, KernelStepRests, VatStepRests, EndDeliveryRests, HostStepRests DEF Next
<1>3. RestInv(k, saved, crank)'
  BY <1>2 DEF RestInv, SettledInv, Settled, Told, VatsInv, Unheld, Expected, Pending,
     IsTerminated, Elements, KernelObjectExists, Reaches, Recognizes, Reachers, Recognizers,
     QueueHolders, Occurrences
<1> QED
  BY <1>1, <1>3 DEF StrandedInv

\* Between cranks, what nobody holds is told to its live exporter, or belongs to
\* the deletion of a terminated one, and at any time a live importer of a
\* deleted object is told of that, whoever lets go, abandons, dies, is upgraded
\* or is rolled back, in any order.  The reason of an exit with failure must
\* name no object, and no delivery of vatAdmin may fail after it has
\* terminated another vat.
THEOREM NothingIsStrandedHolds ==
  ASSUME "failureReason" \notin Faults, "afterAdminTerminate" \notin Faults
  PROVE  Spec => []NothingIsStranded
<1>1. StrandedInv /\ [Next]_vars => StrandedInv'
  BY StrandedInvInductive
<1>2. StrandedInv => NoStrandedExport
  <2> SUFFICES ASSUME StrandedInv, crank = Idle, NEW o \in Objects,
                      KernelObjectExists(k, o), ~Held(o)
               PROVE  \/ IsTerminated(k, k.owner[o])
                      \/ /\ k.owner[o] # NoVat
                         /\ o \in k.reach[k.owner[o]] =>
                              Pending(k, k.owner[o], "dropExport", o)
                         /\ RecognizingVats(o) = {} =>
                              Pending(k, k.owner[o], "retireExport", o)
    BY DEF NoStrandedExport, Pending
  <2>1. Reaches(k, o) = 0 /\ QueueHolders(k, o) = 0 /\ RecognizingVats(o) = Recognizers(k, o)
    BY StrandedFacts, HeldIsReached, ReferencesType
  <2>2. Unheld(k, o)
    BY <2>1, StrandedFacts DEF Unheld
  <2>3. RecognizingVats(o) = {} => Recognizes(k, o) = 0
    BY <2>1, FS_EmptySet DEF Recognizes
  <2> QED
    BY <2>2, <2>3, StrandedFacts DEF SettledInv, Settled, Expected
<1>3. StrandedInv => NoStrandedImport
  <2> SUFFICES ASSUME StrandedInv, NEW o \in Objects, NEW v \in k.liveIDs,
                      o \in k.imports[v], ~KernelObjectExists(k, o)
               PROVE  /\ o \notin k.reach[v]
                      /\ [vat |-> v, type |-> "retireImport", kref |-> o] \in k.gcActions
    BY DEF NoStrandedImport
  <2>1. v \in Vats
    BY StrandedFacts DEF KernelState
  <2>2. Reachers(k, o) = {}
    BY StrandedFacts, ReferencesType DEF CountsInv, Exact
  <2> QED
    BY <2>1, <2>2, StrandedFacts DEF Reachers, SettledInv, Told, Pending
<1> QED
  BY InitStranded, <1>1, <1>2, <1>3, PTL DEF Spec, NothingIsStranded

\* An exporter is told to retire only what nobody holds nor recognizes at that
\* moment, and what it was told to drop: the dropExport of an object still
\* flagged is in the set, and comes first (TypePriority).
THEOREM OnlyUnrecognizableIsRetired ==
  ASSUME "failureReason" \notin Faults, "afterAdminTerminate" \notin Faults
  PROVE  Spec => RetiresOnlyUnrecognizable
<1>1. StrandedInv /\ [Next]_vars => StrandedInv'
  BY StrandedInvInductive
<1>2. StrandedInv /\ [Next]_vars =>
        [crank = Idle /\ crank'.type = "retireExports" =>
           \A o \in k.exports[crank'.vat] \ k'.exports[crank'.vat] :
             /\ o \notin k.reach[crank'.vat]
             /\ ~Held(o)
             /\ RecognizingVats(o) = {}]_vars
  <2> SUFFICES ASSUME StrandedInv, [Next]_vars,
                      crank = Idle, crank'.type = "retireExports",
                      NEW o \in k.exports[crank'.vat] \ k'.exports[crank'.vat]
               PROVE  /\ o \notin k.reach[crank'.vat]
                      /\ ~Held(o)
                      /\ RecognizingVats(o) = {}
    OBVIOUS
  <2> DEFINE v == crank'.vat
  <2>1. /\ Collects(k', v, "retireExports") /\ VatIsAlive(k, v) /\ v \in Vats
        /\ k \in KernelState /\ CountsInv(k) /\ TableInv(k)
    BY GCDeliveryBegins, StrandedFacts, HoldersFacts
  <2> HIDE DEF v
  <2>2. o \in k.exports[v] \ k'.exports[v]
    BY DEF v
  <2>3. o \in Objects /\ k.owner[o] = v
    BY <2>1, <2>2 DEF KernelState, TableInv, OwnersMatch
  <2>4. KernelObjectExists(k, o) /\ Reaches(k, o) = 0 /\ Recognizes(k, o) = 0
    BY <2>1, <2>2, <2>3 DEF Collects
  <2>5. Unheld(k, o)
    BY <2>4, StrandedFacts DEF Unheld
  <2>6. ASSUME o \in k.reach[v]
        PROVE  FALSE
    <3> DEFINE a == [vat |-> v, type |-> "dropExport", kref |-> o]
    <3>1. Expected(k, o)
      BY <2>1, <2>3, <2>5, StrandedFacts DEF SettledInv, Settled, VatIsAlive
    <3>2. a \in k.gcActions /\ a.vat = v /\ a.type = "dropExport" /\ a.kref = o
      BY <2>3, <2>6, <3>1 DEF Expected, Pending
    <3>3. k.refCount[o].exists /\ k.refCount[o].reachable = 0
      BY <2>3, <2>4, StrandedFacts DEF CountsInv, Exact, KernelObjectExists
    <3> HIDE DEF a
    <3>4. ShouldProcessAction(k, a)
      BY <2>2, <2>6, <3>2, <3>3 DEF ShouldProcessAction
    <3>5. PICK c \in GCActionsToProcess(k) : c.vat = v /\ c.type = "retireExport"
      BY <2>1 DEF Collects
    <3>6. ~GroupBefore(a, c)
      BY <3>2, <3>4 DEF GCActionsToProcess
    <3> QED
      BY <3>2, <3>5, <3>6 DEF GroupBefore, TypePriority
  <2>7. ~Held(o) /\ RecognizingVats(o) = {}
    BY <2>3, <2>4, StrandedFacts, HeldIsReached, ReferencesType
  <2> QED
    BY <2>6, <2>7 DEF v
<1> QED
  BY InitStranded, <1>1, <1>2, PTL DEF Spec, RetiresOnlyUnrecognizable

-----------------------------------------------------------------------------
\* No assertion fails.  Only the sweep over the GC actions asks for the keepers
\* of vats that may be gone: every action must name a live vat, so a vat that
\* ends must not be named.  Vats end in the deliveries of messages, which begin
\* with an empty set, and syscalls add no action for the vat that makes them;
\* vatAdmin, which ends others, runs under liveslots and retires nothing then.

ActionsNamed(kk) == \A a \in kk.gcActions : a.vat \in kk.liveIDs

NamesInv(kk, ks, c) ==
  /\ ActionsNamed(kk) /\ ActionsNamed(ks)
  /\ c.type = "message" =>
       /\ ks.gcActions = {}
       /\ \A a \in kk.gcActions : a.vat # c.vat
       /\ c.vat \in LiveslotsVats => kk.gcActions = {}

NeverInv == StrandedInv /\ NamesInv(k, saved, crank) /\ ~k.failed

LEMMA TerminateVatNames ==
  ASSUME NEW kk \in KernelState, NEW v \in Vats, NEW cached \in BOOLEAN,
         NEW info \in Objects \cup {NoObject}, NEW kl, kl = TerminateVat(kk, v, cached, info)
  PROVE  /\ kl \in KernelState /\ kl.gcActions = kk.gcActions
         /\ kk.liveIDs \ {v} \subseteq kl.liveIDs
<1> DEFINE marked == MarkVatAsTerminated(kk, v, cached)
<1>1. marked \in KernelState
  BY MarkVatAsTerminatedType
<1>2. marked.gcActions = kk.gcActions /\ kk.liveIDs \ {v} \subseteq marked.liveIDs
  BY DEF MarkVatAsTerminated, KernelState
<1> HIDE DEF marked
<1>3. Untouched(marked, DoSend(marked, [target |-> AdminVat, arg |-> info]))
  BY <1>1, NoticeType, DoSendKeepsLives
<1> QED
  BY <1>1, <1>2, <1>3, TerminateVatType DEF TerminateVat, Untouched, marked

LEMMA FinishCrankNames ==
  ASSUME NEW kk \in KernelState, ActionsNamed(kk), FinishCrank(kk),
         RestInv(k', saved', crank')
  PROVE  NamesInv(k', saved', crank')
<1> DEFINE kl == ProcessRefcounts(kk)
<1>1. /\ SameVats(kk, kl) /\ kl \in KernelState
      /\ \A a \in kl.gcActions \ kk.gcActions :
           \/ a.vat \in kk.liveIDs
           \/ /\ a.vat \in Vats /\ ~IsTerminated(kk, a.vat)
              /\ \E o \in Objects : kl.owner[o] = a.vat
  BY ProcessRefcountsKeepsLives, ProcessRefcountsType
<1> HIDE DEF kl
<1>2. k' = kl /\ saved' = kl /\ crank' = Idle
  BY DEF FinishCrank, kl
<1>3. VatsInv(kl)
  BY <1>2 DEF RestInv, SettledInv
<1>4. ASSUME NEW a \in kl.gcActions
      PROVE  a.vat \in kl.liveIDs
  <2>1. CASE a \in kk.gcActions
    BY <1>1, <2>1 DEF ActionsNamed, SameVats
  <2>2. CASE a \notin kk.gcActions /\ a.vat \in kk.liveIDs
    BY <1>1, <2>2 DEF SameVats
  <2>3. ASSUME NEW o \in Objects, kl.owner[o] = a.vat, a.vat \in Vats,
               ~IsTerminated(kk, a.vat)
        PROVE  a.vat \in kl.liveIDs
    <3>1. a.vat \in kl.initialized
      BY <1>3, <2>3, ConstantsType DEF VatsInv
    <3>2. a.vat \notin Elements(kl.terminatedVats)
      BY <1>1, <2>3 DEF SameVats, IsTerminated
    <3> QED
      BY <1>3, <3>1, <3>2 DEF VatsInv
  <2> QED
    BY <1>1, <2>1, <2>2, <2>3
<1>5. Idle.type # "message"
  BY DEF Idle
<1> QED
  BY <1>2, <1>4, <1>5 DEF NamesInv, ActionsNamed

LEMMA NamesFacts ==
  ASSUME NeverInv
  PROVE  /\ StrandedInv /\ HoldersInv /\ LivesInv /\ TypeOK
         /\ k \in KernelState /\ saved \in KernelState /\ RollbackCrank \in KernelState
         /\ ActionsNamed(k) /\ ActionsNamed(saved)
BY HoldersFacts, RollbackType DEF NeverInv, StrandedInv, NamesInv

LEMMA KernelStepNames ==
  ASSUME NeverInv, KernelStep, RestInv(k', saved', crank')
  PROVE  NamesInv(k', saved', crank')
<1>1. CASE ProcessAcceptanceMessage
  BY <1>1, NamesFacts, ProcessAcceptanceMessageLists, FinishCrankNames
  DEF Untouched, ActionsNamed
<1>2. CASE CleanupTerminatedVat
  BY <1>2, NamesFacts, CleanupTerminatedVatLists, FinishCrankNames DEF ActionsNamed
<1>3. CASE ProcessGCActions
  <2>1. PICK kk \in KernelState :
          /\ SameVats(k, kk) /\ kk.gcActions \subseteq k.gcActions
          /\ \/ k' = kk /\ UNCHANGED <<saved, crank>>
             \/ FinishCrank(kk)
             \/ \E type \in {"dropExports", "retireExports", "retireImports"} :
                  \E v \in Vats : BeginDelivery(kk, type, v)
    BY <1>3, NamesFacts, ProcessGCActionsLists
  <2>2. ActionsNamed(kk)
    BY <2>1, NamesFacts DEF SameVats, ActionsNamed
  <2>3. CASE k' = kk /\ UNCHANGED <<saved, crank>>
    <3>1. crank' = Idle /\ Idle.type # "message" /\ saved' = saved
      BY <1>3, <2>3 DEF ProcessGCActions, Running, Idle
    <3> QED
      BY <2>2, <2>3, <3>1, NamesFacts DEF NamesInv
  <2>4. ASSUME NEW type \in {"dropExports", "retireExports", "retireImports"},
               NEW v \in Vats, BeginDelivery(kk, type, v)
        PROVE  NamesInv(k', saved', crank')
    <3>1. k' = kk /\ saved' = k /\ crank'.type # "message"
      BY <2>4 DEF BeginDelivery
    <3> QED
      BY <2>2, <3>1, NamesFacts DEF NamesInv
  <2> QED
    BY <2>1, <2>2, <2>3, <2>4, FinishCrankNames
<1>4. CASE DeliverSend
  <2>1. PICK kk \in KernelState :
          /\ Untouched(k, kk)
          /\ FinishCrank(kk) \/ \E v \in Vats : BeginDelivery(kk, "message", v)
    BY <1>4, NamesFacts, DeliverSendLists
  <2>2. ActionsNamed(kk)
    BY <2>1, NamesFacts DEF Untouched, ActionsNamed
  <2>3. ASSUME NEW v \in Vats, BeginDelivery(kk, "message", v)
        PROVE  NamesInv(k', saved', crank')
    <3>1. k' = kk /\ saved' = k /\ k.gcActions = {}
      BY <1>4, <2>3 DEF BeginDelivery, DeliverSend
    <3>2. k'.gcActions = {}
      BY <2>1, <3>1 DEF Untouched
    <3> QED
      BY <2>2, <3>1, <3>2, NamesFacts DEF NamesInv
  <2> QED
    BY <2>1, <2>2, <2>3, FinishCrankNames
<1> QED
  BY <1>1, <1>2, <1>3, <1>4 DEF KernelStep

LEMMA VatStepNames ==
  ASSUME AdminVat \in LiveslotsVats, NeverInv, VatStep
  PROVE  NamesInv(k', saved', crank')
<1> DEFINE v == crank.vat
<1>1. /\ NamesInv(k, saved, crank) /\ LivesInv /\ k \in KernelState
      /\ TableInv(k) /\ TypeOK
  BY NamesFacts, HoldersFacts DEF NeverInv
<1>2. PICK kk : /\ v \in Vats /\ Syscall(kk)
                /\ Untouched(k, kk) \/ RetiresExport(kk) \/ EndsAnother(kk)
  BY <1>1, VatStepLists
<1>3. /\ k' = kk /\ saved' = saved /\ crank # Idle
      /\ crank' = [crank EXCEPT !.syscalls = @ + 1]
  BY <1>2 DEF Syscall
<1>4. crank'.type = crank.type /\ crank'.vat = v
  BY <1>1, <1>3 DEF TypeOK, CrankType, Idle
<1> HIDE DEF v
<1>5. CASE Untouched(k, kk)
  BY <1>1, <1>3, <1>4, <1>5 DEF NamesInv, ActionsNamed, Untouched, v
<1>6. CASE RetiresExport(kk)
  <2>1. PICK o \in k.exports[v] :
          kk = RetireKernelObjects(DeleteCListEntries(k, v, {o}), {o})
    BY <1>6 DEF RetiresExport, v
  <2>2. o \in Objects /\ {o} \in SUBSET Objects /\ k.owner[o] = v
    BY <1>1, <1>2, <2>1 DEF KernelState, TableInv, OwnersMatch
  <2> DEFINE left == DeleteCListEntries(k, v, {o})
  <2>3. left \in KernelState /\ Untouched(k, left)
    BY <1>1, <1>2, <2>2, DeleteCListEntriesType, DeleteCListKeepsLives
  <2>4. left.imports = [k.imports EXCEPT ![v] = @ \ {o}]
    BY <1>1, <1>2, <2>2, DeleteCListImports
  <2> HIDE DEF left
  <2>5. /\ SameVats(left, kk)
        /\ \A a \in kk.gcActions \ left.gcActions :
             a.vat \in left.liveIDs /\ left.imports[a.vat] \cap {o} # {}
    BY <2>1, <2>2, <2>3, RetireObjectsKeepLives DEF left
  <2>6. kk.liveIDs = k.liveIDs
    BY <2>3, <2>5 DEF SameVats, Untouched
  <2>7. \A a \in kk.gcActions : a \in k.gcActions \/ (a.vat \in k.liveIDs /\ a.vat # v)
    <3> SUFFICES ASSUME NEW a \in kk.gcActions, a \notin k.gcActions
                 PROVE  a.vat \in k.liveIDs /\ a.vat # v
      OBVIOUS
    <3>1. a.vat \in k.liveIDs /\ o \in left.imports[a.vat]
      BY <2>3, <2>5 DEF Untouched
    <3>2. left.imports[v] = k.imports[v] \ {o}
      BY <1>1, <1>2, <2>4 DEF KernelState
    <3> QED
      BY <3>1, <3>2
  <2>8. crank.type = "message" => v \notin LiveslotsVats
    BY <1>6 DEF RetiresExport, MayCollect, v
  <2> QED
    BY <1>1, <1>3, <1>4, <2>6, <2>7, <2>8 DEF NamesInv, ActionsNamed, v
<1>7. CASE EndsAnother(kk)
  <2>1. PICK w \in Vats \ {AdminVat}, cached \in BOOLEAN :
          kk = TerminateVat(k, w, cached, NoObject)
    BY <1>7 DEF EndsAnother
  <2>2. kk.gcActions = k.gcActions
    BY <1>1, <2>1, TerminateVatNames
  <2>3. k.gcActions = {} /\ saved.gcActions = {}
    BY <1>1, <1>7 DEF EndsAnother, NamesInv
  <2> QED
    BY <1>3, <2>2, <2>3 DEF NamesInv, ActionsNamed
<1> QED
  BY <1>2, <1>5, <1>6, <1>7

LEMMA EndDeliveryNames ==
  ASSUME "gcDelivery" \notin Faults, NeverInv, EndDelivery, RestInv(k', saved', crank')
  PROVE  NamesInv(k', saved', crank')
<1>1. NamesInv(k, saved, crank)
  BY DEF NeverInv
<1>2. RollbackCrank.gcActions = saved.gcActions /\ RollbackCrank.liveIDs = saved.liveIDs
  BY NamesFacts DEF RollbackCrank, KernelState
<1>3. ASSUME NEW kk \in KernelState, ActionsNamed(kk)
      PROVE  /\ ReportUpgrade(kk) \in KernelState /\ ActionsNamed(ReportUpgrade(kk))
  <2>1. Untouched(kk, ReportUpgrade(kk))
    BY NoticeType, DoSendKeepsLives DEF ReportUpgrade
  <2> QED
    BY <1>3, <2>1, ReportUpgradeType DEF Untouched, ActionsNamed
<1>4. ASSUME NEW kk \in KernelState, ActionsNamed(kk),
             \A a \in kk.gcActions : a.vat # crank.vat, crank.vat \in Vats,
             NEW cached \in BOOLEAN, NEW info \in Objects \cup {NoObject},
             FinishCrank(TerminateVat(kk, crank.vat, cached, info))
      PROVE  NamesInv(k', saved', crank')
  <2> DEFINE kl == TerminateVat(kk, crank.vat, cached, info)
  <2>1. /\ kl \in KernelState /\ kl.gcActions = kk.gcActions
        /\ kk.liveIDs \ {crank.vat} \subseteq kl.liveIDs
    BY <1>4, TerminateVatNames
  <2> HIDE DEF kl
  <2>2. ActionsNamed(kl)
    BY <1>4, <2>1 DEF ActionsNamed
  <2> QED
    BY <1>4, <2>1, <2>2, FinishCrankNames DEF kl
<1>5. CASE CompleteDelivery
  <2>1. FinishCrank(k) \/ FinishCrank(ReportUpgrade(k))
    BY <1>5 DEF CompleteDelivery
  <2> QED
    BY <1>3, <2>1, NamesFacts, FinishCrankNames
<1>6. CASE AbortUpgrade
  <2>1. FinishCrank(ReportUpgrade(RollbackCrank)) /\ ActionsNamed(RollbackCrank)
    BY <1>2, <1>6, NamesFacts DEF AbortUpgrade, ActionsNamed
  <2> QED
    BY <1>3, <2>1, NamesFacts, FinishCrankNames
<1>7. ASSUME NEW info \in Objects \cup {NoObject}, ExitDelivery(info)
      PROVE  NamesInv(k', saved', crank')
  <2> DEFINE mapped == MapVatSlotToKernelSlot(k, crank.vat, info)
  <2>1. /\ crank.vat \in Vats /\ crank.type = "message"
        /\ FinishCrank(TerminateVat(mapped, crank.vat, FALSE, info))
    BY <1>7, NamesFacts, DeliveryVat DEF ExitDelivery, MayRunUserCode, MayTerminate
  <2>2. mapped \in KernelState /\ Untouched(k, mapped)
    BY <2>1, NamesFacts, MapVatSlotToKernelSlotType, MapVatSlotKeepsLives
  <2> HIDE DEF mapped
  <2>3. ActionsNamed(mapped) /\ \A a \in mapped.gcActions : a.vat # crank.vat
    BY <1>1, <2>1, <2>2 DEF Untouched, NamesInv, ActionsNamed
  <2> QED
    BY <1>4, <2>1, <2>2, <2>3
<1>8. ASSUME NEW cached \in BOOLEAN, NEW info \in Objects \cup {NoObject},
             AbortDelivery(cached, info)
      PROVE  NamesInv(k', saved', crank')
  <2>1. /\ crank.vat \in Vats /\ crank.type = "message"
        /\ FinishCrank(TerminateVat(RollbackCrank, crank.vat, cached, info))
    BY <1>8, NamesFacts, DeliveryVat DEF AbortDelivery, MayAbort, MayTerminate
  <2>2. RollbackCrank.gcActions = {}
    BY <1>1, <1>2, <2>1 DEF NamesInv
  <2> QED
    BY <1>4, <2>1, <2>2, NamesFacts DEF ActionsNamed
<1>9. CASE StartNewIncarnation
  <2>1. /\ crank # Idle /\ saved' = saved
        /\ k' = OrphanKernelObjects(k, NonDurableObjectExports(crank.vat), crank.vat)
        /\ crank' = [crank EXCEPT !.type = "newIncarnation"]
    BY <1>9 DEF StartNewIncarnation, Idle
  <2>2. crank.vat \in Vats /\ crank'.type # "message"
    BY <2>1, NamesFacts, DeliveryVat DEF TypeOK, CrankType
  <2>3. NonDurableObjectExports(crank.vat) \subseteq Objects
    BY <2>2, NamesFacts DEF NonDurableObjectExports, KernelState
  <2>4. Untouched(k, k')
    BY <2>1, <2>2, <2>3, NamesFacts, OrphanObjectsKeepLives
  <2> QED
    BY <1>1, <2>1, <2>2, <2>4 DEF Untouched, NamesInv, ActionsNamed
<1> QED
  BY <1>5, <1>6, <1>7, <1>8, <1>9 DEF EndDelivery

LEMMA HostStepNames ==
  ASSUME NeverInv, HostStep
  PROVE  NamesInv(k', saved', crank')
<1>1. NamesInv(k, saved, crank) /\ k \in KernelState
  BY NamesFacts DEF NeverInv
<1>2. Idle.type # "message"
  BY DEF Idle
<1>3. ASSUME NEW v \in Vats, QueueToVatRoot(v)
      PROVE  NamesInv(k', saved', crank')
  <2>1. [target |-> v, arg |-> NoObject] \in Message
    BY ConstantsType DEF Message
  <2>2. Untouched(k, k') /\ saved' = k' /\ crank' = Idle
    BY <1>1, <1>3, <2>1, DoSendKeepsLives DEF QueueToVatRoot, Running
  <2> QED
    BY <1>1, <1>2, <2>2 DEF Untouched, NamesInv, ActionsNamed
<1>4. CASE Restart
  <2>1. /\ k'.gcActions = k.gcActions /\ k'.liveIDs = k.liveIDs
        /\ saved' = k' /\ crank' = Idle
    BY <1>1, <1>4 DEF Restart, Running, KernelState
  <2> QED
    BY <1>1, <1>2, <2>1 DEF NamesInv, ActionsNamed
<1>5. ASSUME NEW v \in Vats, DeliverBringOutYourDead(v) \/ DeliverUpgradeVat(v)
      PROVE  NamesInv(k', saved', crank')
  <2>1. k' = k /\ saved' = k /\ crank'.type # "message"
    BY <1>5 DEF DeliverBringOutYourDead, DeliverUpgradeVat, BeginDelivery
  <2> QED
    BY <1>1, <2>1 DEF NamesInv
<1> QED
  BY <1>3, <1>4, <1>5 DEF HostStep

\* Whatever the crank does, the assertions of its operations hold.
LEMMA FinishCrankFails ==
  ASSUME NEW kk \in KernelState, SettledInv(kk), FinishCrank(kk)
  PROVE  k'.failed = kk.failed
<1> DEFINE kl == ProcessRefcounts(kk)
<1>1. Processed(kk, kl)
  BY ProcessRefcountsEffect
<1> HIDE DEF kl
<1>2. k' = kl
  BY DEF FinishCrank, kl
<1> QED
  BY <1>1, <1>2 DEF Processed, SettledInv, VatsInv

LEMMA KeepsFails ==
  ASSUME NEW kk \in KernelState, NEW kl, KeepsCounts(kk, kl), SettledInv(kk),
         crank.vat \in kk.initialized \cup {NoVat}
  PROVE  kl \in KernelState /\ SettledInv(kl) /\ kl.failed = kk.failed
BY SettledFollows DEF KeepsCounts, KeepsBut, Follows, VatsFollow, SettledInv, VatsInv

LEMMA KernelStepFails ==
  ASSUME NeverInv, KernelStep
  PROVE  ~k'.failed
<1>1. StrandedInv /\ ~k.failed /\ ActionsNamed(k)
  BY DEF NeverInv, NamesInv
<1>2. ASSUME NEW kk, KeepsCounts(k, kk), FinishCrank(kk)
      PROVE  ~k'.failed
  BY <1>1, <1>2, StrandedFacts, KeepsFails, FinishCrankFails
<1>3. CASE ProcessAcceptanceMessage
  BY <1>1, <1>2, <1>3, StrandedFacts, ProcessAcceptanceMessageKeeps
<1>4. CASE CleanupTerminatedVat
  <2>1. PICK kl, kk : /\ KeepsCounts(k, kl)
                      /\ Forgets(kl, kk, Head(k.terminatedVats))
                      /\ FinishCrank(kk)
    BY <1>1, <1>4, StrandedFacts, CleanupTerminatedVatKeeps
  <2>2. kk \in KernelState /\ SettledInv(kk)
    BY <1>1, <1>4, <2>1, StrandedFacts, ForgetsSettles
  <2>3. kk.failed = kl.failed /\ kl.failed = k.failed
    BY <1>1, <2>1, StrandedFacts, KeepsFails DEF Forgets
  <2> QED
    BY <1>1, <2>1, <2>2, <2>3, FinishCrankFails
<1>5. CASE ProcessGCActions
  <2>1. Pruned \in KernelState /\ Pruned.failed = k.failed
    BY <1>1, StrandedFacts DEF Pruned, KernelState
  <2>2. ASSUME NEW a \in GCActionsExamined(k), ~ProvidesVatKeeper(k, a.vat)
        PROVE  FALSE
    <3>1. a.vat \in k.liveIDs
      BY <1>1 DEF GCActionsExamined, ActionsNamed
    <3> QED
      BY <1>1, <2>2, <3>1, StrandedFacts DEF SettledInv, VatsInv, ProvidesVatKeeper
  <2>3. ASSUME FinishCrank(Pruned), \A a \in GCActionsToProcess(k) : ~VatIsAlive(k, a.vat)
        PROVE  ~k'.failed
    <3>1. crank = Idle
      BY <1>5 DEF ProcessGCActions, Running
    <3>2. SettledInv(Pruned)
      BY <1>1, <2>3, <3>1, StrandedFacts, DroppedSettles
    <3> QED
      BY <1>1, <2>1, <2>3, <3>2, FinishCrankFails
  <2>4. ASSUME NEW kl, NEW type, NEW v \in Vats, KeepsCounts(Pruned, kl),
               BeginDelivery(kl, type, v)
        PROVE  ~k'.failed
    <3>1. Pruned.liveIDs = k.liveIDs /\ Pruned.initialized = k.initialized
      BY <1>1, StrandedFacts DEF Pruned, KernelState
    <3>2. kl.failed = Pruned.failed
      BY <1>1, <2>4, <3>1, StrandedFacts
      DEF KeepsCounts, KeepsBut, Follows, VatsFollow, SettledInv, VatsInv
    <3> QED
      BY <1>1, <2>1, <2>4, <3>2 DEF BeginDelivery
  <2> QED
    BY <1>1, <1>5, <2>2, <2>3, <2>4, StrandedFacts, ProcessGCActionsKeeps
<1>6. CASE DeliverSend
  <2>1. ASSUME NEW kk, NEW v, KeepsCounts(k, kk), BeginDelivery(kk, "message", v)
        PROVE  ~k'.failed
    BY <1>1, <2>1, StrandedFacts, KeepsFails DEF BeginDelivery
  <2> QED
    BY <1>1, <1>2, <1>6, <2>1, StrandedFacts, DeliverSendKeeps
<1> QED
  BY <1>3, <1>4, <1>5, <1>6 DEF KernelStep

LEMMA EndDeliveryFails ==
  ASSUME "failureReason" \notin Faults, "afterAdminTerminate" \notin Faults,
         NeverInv, EndDelivery
  PROVE  ~k'.failed
<1>1. StrandedInv /\ ~k.failed /\ k \in KernelState
  BY StrandedFacts DEF NeverInv
<1>2. ASSUME NEW kk, KeepsCounts(k, kk), FinishCrank(kk)
      PROVE  ~k'.failed
  BY <1>1, <1>2, StrandedFacts, KeepsFails, FinishCrankFails
<1>3. ASSUME NEW kk, KeepsCounts(RollbackCrank, kk), FinishCrank(kk),
             crank.type \in UpgradeDeliveries \/ MayAbort
      PROVE  ~k'.failed
  <2>1. k.terminatedVats = saved.terminatedVats
    BY <1>1, <1>3, StrandedFacts DEF MayAbort, LivesInv
  <2>2. /\ SettledInv(RollbackCrank) /\ RollbackCrank.initialized = saved.initialized
        /\ RollbackCrank \in KernelState
    BY <1>1, <2>1, StrandedFacts, RollbackSettles, RollbackCounts
  <2>3. RollbackCrank.failed = k.failed
    BY <1>1, StrandedFacts, HoldersFacts DEF RollbackCrank, KernelState
  <2> QED
    BY <1>1, <1>3, <2>2, <2>3, StrandedFacts, KeepsFails, FinishCrankFails
<1>4. ASSUME KeepsCounts(k, k')
      PROVE  ~k'.failed
  BY <1>1, <1>4, StrandedFacts, KeepsFails
<1> QED
  BY <1>1, <1>2, <1>3, <1>4, StrandedFacts, EndDeliveryKeeps

LEMMA NeverInvInductive ==
  ASSUME Faults = {}, AdminVat \in LiveslotsVats, NeverInv, [Next]_vars
  PROVE  NeverInv'
<1>1. StrandedInv /\ ~k.failed /\ NamesInv(k, saved, crank)
  BY DEF NeverInv
<1>2. StrandedInv'
  BY <1>1, StrandedInvInductive
<1>3. CASE UNCHANGED vars
  BY <1>1, <1>2, <1>3 DEF vars, NeverInv, NamesInv, ActionsNamed
<1>4. NamesInv(k', saved', crank')
  <2>1. CASE KernelStep
    BY <1>1, <2>1, KernelStepRests, KernelStepNames
  <2>2. CASE EndDelivery
    BY <1>1, <2>2, EndDeliveryRests, EndDeliveryNames
  <2> QED
    BY <1>1, <1>3, <2>1, <2>2, VatStepNames, HostStepNames DEF Next, vars
<1>5. ~k'.failed
  <2>1. CASE VatStep
    BY <1>1, <2>1, StrandedFacts, VatStepKeeps, KeepsFails DEF Syscall
  <2>2. CASE HostStep
    <3>1. ASSUME KeepsCounts(k, k')
          PROVE  ~k'.failed
      BY <1>1, <3>1, StrandedFacts, KeepsFails
    <3>2. CASE Restart
      BY <1>1, <3>2, StrandedFacts DEF Restart, KernelState
    <3> QED
      BY <1>1, <2>2, <3>1, <3>2, StrandedFacts, HostStepKeeps
  <2>3. CASE UNCHANGED vars
    BY <1>1, <2>3 DEF vars
  <2> QED
    BY <2>1, <2>2, <2>3, KernelStepFails, EndDeliveryFails DEF Next
<1>6. NamesInv(k, saved, crank)'
  BY <1>4 DEF NamesInv, ActionsNamed
<1> QED
  BY <1>2, <1>5, <1>6 DEF NeverInv

\* No assertion of the kernel fails: no count is decremented below zero, no
\* delivery meets an export that is not reachable, no vat orphans what it does
\* not own, and no keeper is asked of a vat that was deleted, however vats and
\* messages interleave.  It takes vatAdmin under liveslots and none of the
\* faults: where a GC delivery may end a vat, an action that names the vat
\* outlives it.
THEOREM NoAssertionFails ==
  ASSUME Faults = {}, AdminVat \in LiveslotsVats
  PROVE  Spec => []KernelNeverFails
<1>1. Init => NeverInv
  <2> SUFFICES ASSUME Init
               PROVE  NeverInv
    OBVIOUS
  <2>1. k.gcActions = {} /\ saved = k /\ crank.type # "message" /\ ~k.failed
    BY DEF Init, Idle
  <2> QED
    BY <2>1, InitStranded DEF NeverInv, NamesInv, ActionsNamed
<1>2. NeverInv /\ [Next]_vars => NeverInv'
  BY NeverInvInductive
<1>3. NeverInv => KernelNeverFails
  BY DEF NeverInv, KernelNeverFails
<1> QED
  BY <1>1, <1>2, <1>3, PTL DEF Spec

-----------------------------------------------------------------------------
\* What an abort leaves of a crank.

\* Nothing has changed but that vatAdmin is told and that the vats of dead are
\* listed as terminated.
Notified(kk, kl, dead) ==
  /\ kl.owner = kk.owner /\ kl.exports = kk.exports
  /\ kl.imports = kk.imports /\ kl.reach = kk.reach
  /\ kl.acceptanceQueue =
       Append(kk.acceptanceQueue, [target |-> AdminVat, arg |-> NoObject])
  /\ kl.runQueue = kk.runQueue
  /\ kl.liveIDs = kk.liveIDs \ dead
  /\ Elements(kl.terminated) \subseteq Elements(kk.terminated) \cup dead

LEMMA ReportNotifies ==
  ASSUME NEW kk \in KernelState, CountsInv(kk)
  PROVE  /\ Notified(kk, ReportUpgrade(kk), {})
         /\ ReportUpgrade(kk) \in KernelState
<1> DEFINE m == [target |-> AdminVat, arg |-> NoObject]
           first == IncrementRefCount(kk, AdminVat)
           counted == IncrementRefCount(first, NoObject)
           kl == DoSend(kk, m)
<1>1. m \in Message /\ m.target = AdminVat /\ m.arg = NoObject
  BY NoticeType
<1>2. kl = [counted EXCEPT !.acceptanceQueue = Append(@, m)]
  BY <1>1 DEF DoSend
<1>3. AdminVat \in Objects /\ AdminVat \in Vats
  BY AdminIsVat, ConstantsType
<1>4. kk.refCount[AdminVat].reachable <= kk.refCount[AdminVat].recognizable
  <2>1. /\ Ready(kk, AdminVat) /\ Exact(kk, AdminVat)
        /\ Reaches(kk, AdminVat) <= Recognizes(kk, AdminVat)
    BY <1>3, PinnedIsReady, ReferencesType DEF CountsInv
  <2> QED
    BY <2>1 DEF Ready, Exact
<1>5. first \in KernelState /\ Rest(kk, first) /\ first.reach = kk.reach
  BY <1>3, <1>4, IncrementEffect
<1>6. counted = first
  BY DEF IncrementRefCount
<1>7. kl \in KernelState
  BY <1>1, DoSendType
<1>8. kl = ReportUpgrade(kk)
  BY DEF ReportUpgrade
<1> HIDE DEF first, counted, kl
<1>9. /\ kl.owner = first.owner /\ kl.exports = first.exports
      /\ kl.imports = first.imports /\ kl.reach = first.reach
      /\ kl.acceptanceQueue = Append(first.acceptanceQueue, m)
      /\ kl.runQueue = first.runQueue /\ kl.liveIDs = first.liveIDs
      /\ kl.terminated = first.terminated
  BY <1>2, <1>5, <1>6 DEF KernelState
<1>10. Notified(kk, kl, {})
  BY <1>5, <1>9 DEF Notified, Rest, SameTable
<1> QED
  BY <1>7, <1>8, <1>10

LEMMA TerminateVatNotifies ==
  ASSUME NEW kk \in KernelState, CountsInv(kk), SettledInv(kk), DeadAreNotLive(kk),
         NEW v \in Vats, NEW cached \in BOOLEAN
  PROVE  /\ Notified(kk, TerminateVat(kk, v, cached, NoObject), {v})
         /\ TerminateVat(kk, v, cached, NoObject) \in KernelState
<1> DEFINE marked == MarkVatAsTerminated(kk, v, cached)
           kl == ReportUpgrade(marked)
<1>1. kl = TerminateVat(kk, v, cached, NoObject)
  BY DEF TerminateVat, ReportUpgrade
<1>2. marked \in KernelState /\ CountsInv(marked) /\ SameCounts(kk, marked)
  BY MarkVatCounts DEF KeepsCounts, KeepsBut
<1>3. kl \in KernelState /\ Notified(marked, kl, {})
  BY <1>2, ReportNotifies
<1>4. /\ marked.exports = kk.exports /\ marked.liveIDs = kk.liveIDs \ {v}
      /\ Elements(marked.terminated) \subseteq Elements(kk.terminated) \cup {v}
  <2>1. CASE ~VatIsAlive(kk, v)
    <3>1. v \notin kk.liveIDs
      BY <2>1 DEF SettledInv, VatsInv, DeadAreNotLive, VatIsAlive, IsTerminated
    <3> QED
      BY <2>1, <3>1 DEF MarkVatAsTerminated
  <2>2. CASE VatIsAlive(kk, v)
    <3> DEFINE ended == Append(kk.terminatedVats, v)
    <3>1. /\ marked.exports = kk.exports /\ marked.liveIDs = kk.liveIDs \ {v}
          /\ marked.terminated = ended
      BY <2>2 DEF MarkVatAsTerminated, KernelState
    <3>2. Elements(ended) = Elements(kk.terminatedVats) \cup {v}
      BY ListElements DEF KernelState
    <3>3. kk.terminated = kk.terminatedVats
      BY DEF SettledInv, VatsInv
    <3> HIDE DEF ended, marked
    <3> QED
      BY <3>1, <3>2, <3>3
  <2> QED
    BY <2>1, <2>2
<1> HIDE DEF marked, kl
<1>5. Notified(kk, kl, {v})
  BY <1>2, <1>3, <1>4 DEF Notified, SameCounts, SameQueues
<1> QED
  BY <1>1, <1>3, <1>5

\* The end of the crank takes nothing from the c-list of a live vat.
LEMMA FinishCrankSpares ==
  ASSUME NEW kk \in KernelState, TableInv(kk), DeadAreNotLive(kk), FinishCrank(kk)
  PROVE  /\ \A v \in kk.liveIDs : /\ k'.exports[v] = kk.exports[v]
                                  /\ k'.imports[v] = kk.imports[v]
                                  /\ k'.reach[v] = kk.reach[v]
         /\ k'.acceptanceQueue = kk.acceptanceQueue /\ k'.runQueue = kk.runQueue
         /\ k'.liveIDs = kk.liveIDs /\ k'.terminated = kk.terminated
<1> DEFINE kl == ProcessRefcounts(kk)
           S == Orphans(kk)
<1>1. k' = kl
  BY DEF FinishCrank
<1>2. Processed(kk, kl) /\ Deletes(kk, kl, S) /\ kl \in KernelState
  BY ProcessRefcountsEffect DEF Processed, Deletes
<1>3. OwnersMatch(kk) /\ OwnersMatch(kl)
  BY ProcessRefcountsInv DEF TableInv
<1> HIDE DEF kl
<1>4. \A v \in kk.liveIDs : \A o \in S : kk.owner[o] # v
  <2> SUFFICES ASSUME NEW v \in kk.liveIDs, NEW o \in S, kk.owner[o] = v
               PROVE  FALSE
    OBVIOUS
  <2>1. v # NoVat
    BY ConstantsType DEF KernelState
  <2>2. ~IsTerminated(kk, v)
    BY DEF DeadAreNotLive, IsTerminated
  <2> QED
    BY <2>1, <2>2 DEF Orphans, OwnerOfKernelObject
<1> HIDE DEF S
<1>5. ASSUME NEW v \in kk.liveIDs
      PROVE  /\ kl.exports[v] = kk.exports[v] /\ kl.imports[v] = kk.imports[v]
             /\ kl.reach[v] = kk.reach[v]
  <2>1. /\ v \in Vats /\ v # NoVat
        /\ kl.exports[v] \subseteq Objects /\ kk.exports[v] \subseteq Objects
        /\ kl.reach[v] \subseteq Objects /\ kk.reach[v] \subseteq Objects
    BY <1>2, ConstantsType DEF KernelState
  <2>2. ASSUME NEW o \in Objects
        PROVE  o \in kl.exports[v] <=> o \in kk.exports[v]
    <3>1. kl.owner[o] = IF o \in S THEN NoVat ELSE kk.owner[o]
      BY <1>2 DEF Deletes
    <3>2. kl.owner[o] = v <=> kk.owner[o] = v
      BY <1>4, <2>1, <3>1
    <3> QED
      BY <1>3, <2>1, <3>2 DEF OwnersMatch
  <2>3. \A o \in Objects : o \in kl.reach[v] <=> o \in kk.reach[v]
    BY <1>2, <1>4, <2>1 DEF Deletes
  <2> QED
    BY <1>2, <2>1, <2>2, <2>3 DEF Deletes
<1>6. /\ kl.acceptanceQueue = kk.acceptanceQueue /\ kl.runQueue = kk.runQueue
      /\ kl.liveIDs = kk.liveIDs /\ kl.terminated = kk.terminated
  BY <1>2 DEF Deletes, Processed, SameQueues
<1> QED
  BY <1>1, <1>5, <1>6

LEMMA FinishCrankUndoes ==
  ASSUME StrandedInv, k.terminatedVats = saved.terminatedVats,
         NEW kk \in KernelState, NEW dead, TableInv(kk), DeadAreNotLive(kk),
         Notified(RollbackCrank, kk, dead), FinishCrank(kk)
  PROVE  CrankUndone(dead)
<1> DEFINE kr == RollbackCrank
<1>1. /\ kr.exports = saved.exports /\ kr.imports = saved.imports /\ kr.reach = saved.reach
      /\ kr.acceptanceQueue = saved.acceptanceQueue /\ kr.runQueue = saved.runQueue
      /\ kr.liveIDs = saved.liveIDs /\ kr.terminated = saved.terminated
  BY StrandedFacts, HoldersFacts DEF RollbackCrank, KernelState
<1>2. Notified(kr, kk, dead)
  OBVIOUS
<1> HIDE DEF kr
<1>3. /\ kk.exports = saved.exports /\ kk.imports = saved.imports /\ kk.reach = saved.reach
      /\ kk.acceptanceQueue =
           Append(saved.acceptanceQueue, [target |-> AdminVat, arg |-> NoObject])
      /\ kk.runQueue = saved.runQueue /\ kk.liveIDs = saved.liveIDs \ dead
      /\ Elements(kk.terminated) \subseteq Elements(saved.terminated) \cup dead
  BY <1>1, <1>2 DEF Notified
<1>4. /\ \A v \in kk.liveIDs : /\ k'.exports[v] = kk.exports[v]
                               /\ k'.imports[v] = kk.imports[v]
                               /\ k'.reach[v] = kk.reach[v]
      /\ k'.acceptanceQueue = kk.acceptanceQueue /\ k'.runQueue = kk.runQueue
      /\ k'.liveIDs = kk.liveIDs /\ k'.terminated = kk.terminated
  BY FinishCrankSpares
<1> QED
  BY <1>3, <1>4 DEF CrankUndone

\* A failed delivery or upgrade is undone for everybody else: queues, c-lists
\* and the list of live vats are those of the savepoint, but for the failed vat
\* and the notice to vatAdmin, for any number of vats and objects and whatever
\* the crank had done.
THEOREM AbortsUndoTheCrank ==
  ASSUME "failureReason" \notin Faults, "afterAdminTerminate" \notin Faults
  PROVE  Spec => AbortUndoesTheCrank
<1>1. StrandedInv /\ [Next]_vars => StrandedInv'
  BY StrandedInvInductive
<1>2. ASSUME StrandedInv, k.terminatedVats = saved.terminatedVats
      PROVE  /\ RollbackCrank \in KernelState /\ CountsInv(RollbackCrank)
             /\ SettledInv(RollbackCrank) /\ TableInv(RollbackCrank)
             /\ DeadAreNotLive(RollbackCrank)
  <2>1. SameTable(saved, RollbackCrank)
    BY <1>2, StrandedFacts, HoldersFacts DEF RollbackCrank, SameTable, KernelState
  <2> QED
    BY <1>2, <2>1, StrandedFacts, HoldersFacts, RollbackCounts, RollbackSettles,
       RollbackLives, SameTableInv
<1>3. ASSUME StrandedInv, NEW cached \in BOOLEAN, AbortDelivery(cached, NoObject)
      PROVE  CrankUndone({crank.vat})
  <2> DEFINE kk == TerminateVat(RollbackCrank, crank.vat, cached, NoObject)
  <2>1. k.terminatedVats = saved.terminatedVats /\ crank.vat \in Vats /\ FinishCrank(kk)
    BY <1>3, StrandedFacts, DeliveryVat
    DEF AbortDelivery, MayAbort, LivesInv
  <2>2. kk \in KernelState /\ Notified(RollbackCrank, kk, {crank.vat})
    BY <1>2, <1>3, <2>1, TerminateVatNotifies
  <2>3. DeadAreNotLive(kk)
    BY <1>2, <1>3, <2>1, TerminateVatKeepsDeadDead
  <2>4. TableInv(kk)
    <3>1. NoObject < RollbackCrank.nextKoid
      BY <1>2, <1>3, <2>1, VatsAssumption
      DEF NoObject, KernelState, TableInv, MessagesAllocated
    <3> QED
      BY <1>2, <1>3, <2>1, <3>1, TerminateVatInv
  <2> HIDE DEF kk
  <2> QED
    BY <1>3, <2>1, <2>2, <2>3, <2>4, FinishCrankUndoes
<1>4. ASSUME StrandedInv, AbortUpgrade
      PROVE  CrankUndone({})
  <2> DEFINE kk == ReportUpgrade(RollbackCrank)
  <2>1. k.terminatedVats = saved.terminatedVats /\ FinishCrank(kk)
    BY <1>4, StrandedFacts DEF AbortUpgrade, LivesInv
  <2>2. kk \in KernelState /\ Notified(RollbackCrank, kk, {})
    BY <1>2, <1>4, <2>1, ReportNotifies
  <2>3. DeadAreNotLive(kk)
    BY <1>2, <1>4, <2>1, ReportKeepsDeadDead
  <2>4. TableInv(kk)
    BY <1>2, <1>4, <2>1, ReportUpgradeInv
  <2> HIDE DEF kk
  <2> QED
    BY <1>4, <2>1, <2>2, <2>3, <2>4, FinishCrankUndoes
<1>5. StrandedInv /\ [Next]_vars =>
        [/\ \A keeperCached \in BOOLEAN :
              AbortDelivery(keeperCached, NoObject) => CrankUndone({crank.vat})
         /\ AbortUpgrade => CrankUndone({})]_vars
  BY <1>3, <1>4
<1> QED
  BY InitStranded, <1>1, <1>5, PTL DEF Spec, AbortUndoesTheCrank

=============================================================================

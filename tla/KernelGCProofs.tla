---------------------------- MODULE KernelGCProofs ----------------------------
(***************************************************************************)
(* Theorems about KernelGC, for any number of vats and objects and any     *)
(* bounds: type correctness, the lists of live and of terminated vats, and *)
(* the owner keys.                                                         *)
(***************************************************************************)
EXTENDS KernelGCProperties, FiniteSetTheorems, SequenceTheorems, TLAPS

-----------------------------------------------------------------------------
\* Each operator of KernelObjects takes a kernel state to a kernel state.

LEMMA ConstantsType ==
  /\ Vats \subseteq Objects
  /\ IsFiniteSet(Objects)
  /\ \A S \in SUBSET Objects : IsFiniteSet(S) /\ Cardinality(S) \in Nat
  /\ NoObject \notin Objects /\ NoVat \notin Vats
<1>1. IsFiniteSet(Objects)
  BY FS_Interval, ObjectsAssumption DEF Objects
<1>2. \A S \in SUBSET Objects : IsFiniteSet(S) /\ Cardinality(S) \in Nat
  BY <1>1, FS_Subset, FS_CardinalityType
<1> QED
  BY <1>1, <1>2, VatsAssumption, ObjectsAssumption DEF Vats, Objects, NoObject, NoVat

LEMMA SetObjectRefCountsType ==
  ASSUME NEW kk \in KernelState, NEW S \in SUBSET Objects,
         NEW dReach \in Int, NEW dRecog \in Int
  PROVE  SetObjectRefCounts(kk, S, dReach, dRecog) \in KernelState
<1> DEFINE reach(o) == kk.refCount[o].reachable + dReach
           recog(o) == kk.refCount[o].recognizable + dRecog
           rc == [o \in Objects |->
                    IF o \in S
                    THEN [exists |-> TRUE, reachable |-> reach(o), recognizable |-> recog(o)]
                    ELSE kk.refCount[o]]
<1>1. CASE \A o \in S : 0 <= reach(o) /\ reach(o) <= recog(o)
  <2>1. rc \in [Objects -> RefCount]
    BY <1>1 DEF KernelState, RefCount
  <2>2. SetObjectRefCounts(kk, S, dReach, dRecog) = [kk EXCEPT !.refCount = rc]
    BY <1>1 DEF SetObjectRefCounts
  <2> QED
    BY <2>1, <2>2 DEF KernelState
<1>2. CASE ~(\A o \in S : 0 <= reach(o) /\ reach(o) <= recog(o))
  <2>1. SetObjectRefCounts(kk, S, dReach, dRecog) = [kk EXCEPT !.failed = TRUE]
    BY <1>2 DEF SetObjectRefCounts
  <2> QED
    BY <2>1 DEF KernelState
<1> QED
  BY <1>1, <1>2

LEMMA DecrementRefCountsType ==
  ASSUME NEW kk \in KernelState, NEW S \in SUBSET Objects, NEW dReach \in {0, 1}
  PROVE  DecrementRefCounts(kk, S, dReach) \in KernelState
<1> DEFINE known == {o \in S : KernelObjectExists(kk, o)}
           after == SetObjectRefCounts(kk, known, -dReach, -1)
<1>1. after \in KernelState
  BY SetObjectRefCountsType
<1> HIDE DEF after
<1> QED
  BY <1>1 DEF DecrementRefCounts, KernelState, after

LEMMA RefCountStepsType ==
  ASSUME NEW kk \in KernelState, NEW o \in Objects \cup {NoObject}
  PROVE  /\ IncrementRefCount(kk, o) \in KernelState
         /\ DecrementRefCount(kk, o) \in KernelState
<1>1. CASE o = NoObject
  BY <1>1 DEF IncrementRefCount, DecrementRefCount
<1>2. CASE o \in Objects
  BY <1>2, SetObjectRefCountsType, DecrementRefCountsType, ConstantsType
  DEF IncrementRefCount, DecrementRefCount
<1> QED
  BY <1>1, <1>2

LEMMA AddKernelObjectType ==
  ASSUME NEW kk \in KernelState, NEW v \in Vats
  PROVE  AddKernelObject(kk, v) \in KernelState
<1> DEFINE ow == [kk.owner EXCEPT ![kk.nextKoid] = v]
           rc == [kk.refCount EXCEPT ![kk.nextKoid] =
                    [exists |-> TRUE, reachable |-> 0, recognizable |-> 0]]
<1>1. ow \in [Objects -> Vats \cup {NoVat}]
  BY DEF KernelState
<1>2. rc \in [Objects -> RefCount]
  BY DEF KernelState, RefCount
<1>3. AddKernelObject(kk, v) =
        [kk EXCEPT !.owner = ow, !.refCount = rc,
                   !.nextKoid = @ + 1, !.kernelObjects = @ + 1]
  BY DEF AddKernelObject, KernelState
<1>4. kk.nextKoid + 1 \in Nat /\ kk.kernelObjects + 1 \in Int
  BY DEF KernelState
<1> HIDE DEF ow, rc
<1>5. ASSUME NEW n \in Nat, NEW i \in Int
      PROVE  [kk EXCEPT !.owner = ow, !.refCount = rc,
                        !.nextKoid = n, !.kernelObjects = i] \in KernelState
  BY <1>1, <1>2 DEF KernelState
<1> QED
  BY <1>3, <1>4, <1>5

LEMMA DeleteKernelObjectsType ==
  ASSUME NEW kk \in KernelState, NEW S \in SUBSET Objects
  PROVE  DeleteKernelObjects(kk, S) \in KernelState
<1> DEFINE ow == [o \in Objects |-> IF o \in S THEN NoVat ELSE kk.owner[o]]
           rc == [o \in Objects |->
                    IF o \in S
                    THEN [exists |-> FALSE, reachable |-> 0, recognizable |-> 0]
                    ELSE kk.refCount[o]]
<1>1. ow \in [Objects -> Vats \cup {NoVat}]
  BY DEF KernelState
<1>2. rc \in [Objects -> RefCount]
  BY DEF KernelState, RefCount
<1>3. kk.kernelObjects - Cardinality(S) \in Int
  BY ConstantsType DEF KernelState
<1> QED
  BY <1>1, <1>2, <1>3 DEF DeleteKernelObjects, KernelState

LEMMA RetireKernelObjectsType ==
  ASSUME NEW kk \in KernelState, NEW S \in SUBSET Objects
  PROVE  RetireKernelObjects(kk, S) \in KernelState
<1> DEFINE actions == UNION {{[vat |-> v, type |-> "retireImport", kref |-> o] :
                                v \in GetImporters(kk, o)} : o \in S}
           deleted == DeleteKernelObjects(kk, S)
<1>1. actions \subseteq GCAction
  BY DEF GetImporters, GCAction, ActionTypes, KernelState
<1>2. deleted \in KernelState
  BY DeleteKernelObjectsType
<1> HIDE DEF deleted
<1>3. ASSUME NEW b \in BOOLEAN
      PROVE  [deleted EXCEPT !.gcActions = @ \cup actions, !.failed = b] \in KernelState
  BY <1>1, <1>2 DEF KernelState
<1>4. (deleted.failed \/ ~(\A v \in kk.liveIDs : ProvidesVatKeeper(kk, v))) \in BOOLEAN
  OBVIOUS
<1> QED
  BY <1>3, <1>4 DEF RetireKernelObjects, deleted

LEMMA OrphanKernelObjectsType ==
  ASSUME NEW kk \in KernelState, NEW S \in SUBSET Objects, NEW v \in Vats
  PROVE  OrphanKernelObjects(kk, S, v) \in KernelState
<1> DEFINE ow == [o \in Objects |-> IF o \in S THEN NoVat ELSE kk.owner[o]]
<1>1. ow \in [Objects -> Vats \cup {NoVat}]
  BY DEF KernelState
<1> QED
  BY <1>1 DEF OrphanKernelObjects, KernelState

LEMMA SetReachableFlagType ==
  ASSUME NEW kk \in KernelState, NEW v \in Vats, NEW o \in Objects
  PROVE  SetReachableFlag(kk, v, o) \in KernelState
<1> DEFINE flagged == [kk EXCEPT !.reach[v] = @ \cup {o}]
<1>1. flagged \in KernelState
  BY DEF KernelState
<1> QED
  BY <1>1, SetObjectRefCountsType DEF SetReachableFlag

LEMMA ClearReachableFlagsType ==
  ASSUME NEW kk \in KernelState, NEW v \in Vats, NEW S \in SUBSET Objects
  PROVE  ClearReachableFlags(kk, v, S) \in KernelState
<1> DEFINE counted == {o \in S \cap kk.imports[v] \cap kk.reach[v] : KernelObjectExists(kk, o)}
           cleared == [kk EXCEPT !.reach[v] = @ \ S]
           after   == SetObjectRefCounts(cleared, counted, -1, 0)
<1>1. cleared \in KernelState
  BY DEF KernelState
<1>2. after \in KernelState
  BY <1>1, SetObjectRefCountsType
<1> HIDE DEF after
<1>3. ASSUME NEW T \in SUBSET Objects
      PROVE  [after EXCEPT !.maybeFree = @ \cup T] \in KernelState
  BY <1>2 DEF KernelState
<1> QED
  BY <1>3 DEF ClearReachableFlags, after

LEMMA DeleteCListEntriesType ==
  ASSUME NEW kk \in KernelState, NEW v \in Vats, NEW S \in SUBSET Objects
  PROVE  DeleteCListEntries(kk, v, S) \in KernelState
<1> DEFINE decremented == DecrementRefCounts(ClearReachableFlags(kk, v, S),
                                             S \cap kk.imports[v], 0)
<1>1. decremented \in KernelState
  BY ClearReachableFlagsType, DecrementRefCountsType
<1> HIDE DEF decremented
<1>2. [decremented EXCEPT !.imports[v] = @ \ S, !.exports[v] = @ \ S] \in KernelState
  BY <1>1 DEF KernelState
<1> QED
  BY <1>2 DEF DeleteCListEntries, decremented

LEMMA NewEntriesType ==
  ASSUME NEW kk \in KernelState, NEW v \in Vats, NEW o \in Objects
  PROVE  /\ kk.nextKoid \in Objects => NewExport(kk, v) \in KernelState
         /\ NewImport(kk, v, o) \in KernelState
         /\ UnreachableExport(kk, v, o) \in KernelState
<1> DEFINE added == AddKernelObject(kk, v)
           counted == SetObjectRefCounts(kk, {o}, 0, 1)
<1>1. added \in KernelState /\ counted \in KernelState
  BY AddKernelObjectType, SetObjectRefCountsType
<1> HIDE DEF added, counted
<1>2. ASSUME NEW n \in Objects
      PROVE  [added EXCEPT !.exports[v] = @ \cup {n}] \in KernelState
  BY <1>1 DEF KernelState
<1>3. [counted EXCEPT !.imports[v] = @ \cup {o}] \in KernelState
  BY <1>1 DEF KernelState
<1>4. ASSUME NEW b \in BOOLEAN
      PROVE  [kk EXCEPT !.failed = b] \in KernelState
  BY DEF KernelState
<1>5. (kk.failed \/ o \notin kk.reach[v]) \in BOOLEAN
  OBVIOUS
<1> QED
  BY <1>2, <1>3, <1>4, <1>5 DEF NewExport, NewImport, UnreachableExport, added, counted

LEMMA MapVatSlotToKernelSlotType ==
  ASSUME NEW kk \in KernelState, NEW v \in Vats, NEW o \in Objects \cup {NoObject}
  PROVE  MapVatSlotToKernelSlot(kk, v, o) \in KernelState
<1>1. CASE o = NoObject
  BY <1>1 DEF MapVatSlotToKernelSlot
<1>2. CASE o # NoObject /\ o = kk.nextKoid
  BY <1>2, NewEntriesType, SetReachableFlagType DEF MapVatSlotToKernelSlot
<1>3. CASE o # NoObject /\ o # kk.nextKoid
  BY <1>3, SetReachableFlagType DEF MapVatSlotToKernelSlot
<1> QED
  BY <1>1, <1>2, <1>3

LEMMA MapKernelSlotToVatSlotType ==
  ASSUME NEW kk \in KernelState, NEW v \in Vats, NEW o \in Objects \cup {NoObject}
  PROVE  MapKernelSlotToVatSlot(kk, v, o) \in KernelState
<1>1. CASE o = NoObject
  BY <1>1 DEF MapKernelSlotToVatSlot
<1>2. CASE o # NoObject
  BY <1>2, NewEntriesType, SetReachableFlagType DEF MapKernelSlotToVatSlot
<1> QED
  BY <1>1, <1>2

LEMMA ProcessRefcountsType ==
  ASSUME NEW kk \in KernelState
  PROVE  ProcessRefcounts(kk) \in KernelState
<1> DEFINE
     unreachable == {o \in kk.maybeFree : kk.refCount[o].reachable = 0}
     owned    == {o \in unreachable : OwnerOfKernelObject(kk, o) # NoVat}
     orphans  == unreachable \ owned
     recog(o) == kk.refCount[o].recognizable > 0
     act(t, o) == [vat |-> kk.owner[o], type |-> t, kref |-> o]
     drops    == {act("dropExport", o) : o \in {x \in owned : x \in kk.reach[kk.owner[x]]}}
     retires  == {act("retireExport", o) : o \in {x \in owned : ~recog(x)}}
     ownedBy(v) == {o \in orphans : kk.owner[o] = v}
     ow == [o \in Objects |-> IF o \in orphans THEN NoVat ELSE kk.owner[o]]
     ex == [v \in Vats |-> kk.exports[v] \ ownedBy(v)]
     re == [v \in Vats |-> kk.reach[v] \ ownedBy(v)]
     detached == [kk EXCEPT !.owner = ow, !.exports = ex, !.reach = re]
     retired  == RetireKernelObjects(detached, {o \in orphans : recog(o)})
     deleted  == DeleteKernelObjects(retired, {o \in orphans : ~recog(o)})
<1>1. unreachable \subseteq Objects
  BY DEF KernelState
<1>2. drops \cup retires \subseteq GCAction
  BY <1>1 DEF OwnerOfKernelObject, GCAction, ActionTypes, KernelState
<1>3. detached \in KernelState
  <2>1. ow \in [Objects -> Vats \cup {NoVat}]
    BY DEF KernelState
  <2>2. ex \in [Vats -> SUBSET Objects] /\ re \in [Vats -> SUBSET Objects]
    BY DEF KernelState
  <2> HIDE DEF ow, ex, re
  <2> QED
    BY <2>1, <2>2 DEF KernelState
<1> HIDE DEF detached
<1>4. retired \in KernelState
  BY <1>1, <1>3, RetireKernelObjectsType
<1> HIDE DEF retired
<1>5. deleted \in KernelState
  BY <1>1, <1>4, DeleteKernelObjectsType
<1> HIDE DEF deleted, drops, retires
<1>6. [deleted EXCEPT !.gcActions = @ \cup drops \cup retires, !.maybeFree = {}]
        \in KernelState
  BY <1>2, <1>5 DEF KernelState
<1> QED
  BY <1>6 DEF ProcessRefcounts, deleted, retired, detached, drops, retires

-----------------------------------------------------------------------------
\* Each helper of KernelGC takes a kernel state to a kernel state.

LEMMA DecrementSendEventType ==
  ASSUME NEW kk \in KernelState, NEW m \in Message
  PROVE  DecrementSendEventRefCount(kk, m) \in KernelState
<1>1. m.target \in Objects \cup {NoObject} /\ m.arg \in Objects \cup {NoObject}
  BY DEF Message
<1> QED
  BY <1>1, RefCountStepsType DEF DecrementSendEventRefCount

LEMMA DoSendType ==
  ASSUME NEW kk \in KernelState, NEW m \in Message
  PROVE  DoSend(kk, m) \in KernelState
<1> DEFINE counted == IncrementRefCount(IncrementRefCount(kk, m.target), m.arg)
<1>1. m.target \in Objects \cup {NoObject} /\ m.arg \in Objects \cup {NoObject}
  BY DEF Message
<1>2. counted \in KernelState
  BY <1>1, RefCountStepsType
<1> HIDE DEF counted
<1>3. Append(counted.acceptanceQueue, m) \in Seq(Message)
  BY <1>2, AppendProperties DEF KernelState
<1>4. [counted EXCEPT !.acceptanceQueue = Append(@, m)] \in KernelState
  BY <1>2, <1>3 DEF KernelState
<1> QED
  BY <1>4 DEF DoSend, counted

LEMMA MarkVatAsTerminatedType ==
  ASSUME NEW kk \in KernelState, NEW v \in Vats, NEW cached \in BOOLEAN
  PROVE  MarkVatAsTerminated(kk, v, cached) \in KernelState
<1>1. Append(kk.terminatedVats, v) \in Seq(Vats)
  BY AppendProperties DEF KernelState
<1>2. ASSUME NEW s \in Seq(Vats), NEW K \in SUBSET Vats
      PROVE  [kk EXCEPT !.liveIDs = @ \ {v}, !.terminatedVats = s,
                        !.terminated = s, !.vatKeepers = K] \in KernelState
  BY DEF KernelState
<1>3. (IF cached THEN kk.vatKeepers \cup {v} ELSE kk.vatKeepers \ {v}) \in SUBSET Vats
  BY DEF KernelState
<1> QED
  BY <1>1, <1>2, <1>3 DEF MarkVatAsTerminated

LEMMA NoticeType ==
  ASSUME NEW info \in Objects \cup {NoObject}
  PROVE  [target |-> AdminVat, arg |-> info] \in Message
BY VatsAssumption, ObjectsAssumption DEF Message, AdminVat, Objects

LEMMA TerminateVatType ==
  ASSUME NEW kk \in KernelState, NEW v \in Vats, NEW cached \in BOOLEAN,
         NEW info \in Objects \cup {NoObject}
  PROVE  TerminateVat(kk, v, cached, info) \in KernelState
BY MarkVatAsTerminatedType, NoticeType, DoSendType DEF TerminateVat

LEMMA ReportUpgradeType ==
  ASSUME NEW kk \in KernelState
  PROVE  ReportUpgrade(kk) \in KernelState
BY NoticeType, DoSendType DEF ReportUpgrade

LEMMA FinishCrankType ==
  ASSUME NEW kk \in KernelState, FinishCrank(kk)
  PROVE  TypeOK'
BY ProcessRefcountsType DEF FinishCrank, TypeOK, CrankType

LEMMA BeginDeliveryType ==
  ASSUME TypeOK, NEW kk \in KernelState, NEW type \in DeliveryTypes, NEW v \in Vats,
         BeginDelivery(kk, type, v)
  PROVE  TypeOK'
<1>1. 0 \in 0..MaxSyscalls
  BY BoundsAssumption
<1> QED
  BY <1>1 DEF BeginDelivery, TypeOK, CrankType

LEMMA SyscallType ==
  ASSUME TypeOK, NEW kk \in KernelState, Syscall(kk)
  PROVE  TypeOK'
<1>1. crank \in [type : DeliveryTypes, vat : Vats, syscalls : 0..MaxSyscalls]
  BY DEF Syscall, TypeOK, CrankType
<1>2. crank.syscalls + 1 \in 0..MaxSyscalls
  BY <1>1, BoundsAssumption DEF Syscall
<1> QED
  BY <1>1, <1>2 DEF Syscall, TypeOK, CrankType

LEMMA DeliveryVat ==
  ASSUME TypeOK, crank # Idle
  PROVE  crank.vat \in Vats /\ crank.type \in DeliveryTypes
BY DEF TypeOK, CrankType

-----------------------------------------------------------------------------
LEMMA InitTypeOK == Init => TypeOK
<1> SUFFICES ASSUME Init
             PROVE  TypeOK
  OBVIOUS
<1>1. k.owner \in [Objects -> Vats \cup {NoVat}]
  BY DEF Init
<1>2. k.refCount \in [Objects -> RefCount]
  BY DEF Init, RefCount
<1>3. /\ k.exports \in [Vats -> SUBSET Objects]
      /\ k.imports \in [Vats -> SUBSET Objects]
      /\ k.reach \in [Vats -> SUBSET Objects]
  BY ConstantsType DEF Init
<1>4. <<>> \in Seq(Message) /\ <<>> \in Seq(Vats)
  BY EmptySeq
<1>5. NVats \in Int /\ NVats + 1 \in Nat
  BY VatsAssumption
<1>6. k \in KernelState
  BY <1>1, <1>2, <1>3, <1>4, <1>5 DEF Init, KernelState
<1> QED
  BY <1>6 DEF Init, TypeOK, CrankType

-----------------------------------------------------------------------------
\* Each action preserves TypeOK.

LEMMA QueuesType ==
  ASSUME NEW q \in Seq(Message), q # <<>>
  PROVE  Head(q) \in Message /\ Tail(q) \in Seq(Message)
BY HeadTailProperties

LEMMA HostStepType == ASSUME TypeOK, HostStep PROVE TypeOK'
<1>1. ASSUME NEW v \in Vats, QueueToVatRoot(v)
      PROVE  TypeOK'
  <2>1. [target |-> v, arg |-> NoObject] \in Message
    BY ConstantsType DEF Message
  <2> QED
    BY <1>1, <2>1, DoSendType DEF QueueToVatRoot, TypeOK
<1>2. ASSUME Restart
      PROVE  TypeOK'
  <2>1. [k EXCEPT !.vatKeepers = {}, !.maybeFree = {}, !.terminatedVats = k.terminated]
          \in KernelState
    BY DEF TypeOK, KernelState
  <2> QED
    BY <1>2, <2>1 DEF Restart, TypeOK
<1>3. ASSUME NEW v \in Vats, DeliverBringOutYourDead(v)
      PROVE  TypeOK'
  <2>1. "bringOutYourDead" \in DeliveryTypes
    BY DEF DeliveryTypes
  <2> QED
    BY <1>3, <2>1, BeginDeliveryType DEF DeliverBringOutYourDead, TypeOK
<1>4. ASSUME NEW v \in Vats, DeliverUpgradeVat(v)
      PROVE  TypeOK'
  <2>1. "oldIncarnation" \in DeliveryTypes
    BY DEF DeliveryTypes, UpgradeDeliveries
  <2> QED
    BY <1>4, <2>1, BeginDeliveryType DEF DeliverUpgradeVat, TypeOK
<1> QED
  BY <1>1, <1>2, <1>3, <1>4 DEF HostStep

LEMMA ProcessAcceptanceMessageType == ASSUME TypeOK, ProcessAcceptanceMessage PROVE TypeOK'
<1> DEFINE m == Head(k.acceptanceQueue)
           taken == [k EXCEPT !.acceptanceQueue = Tail(@)]
           routed == [taken EXCEPT !.runQueue = Append(@, m)]
<1>1. m \in Message /\ Tail(k.acceptanceQueue) \in Seq(Message)
  BY QueuesType DEF ProcessAcceptanceMessage, TypeOK, KernelState
<1>2. taken \in KernelState
  BY <1>1 DEF TypeOK, KernelState
<1> HIDE DEF m, taken
<1>3. Append(taken.runQueue, m) \in Seq(Message)
  BY <1>1, <1>2, AppendProperties DEF KernelState
<1>4. routed \in KernelState
  BY <1>2, <1>3 DEF KernelState
<1>5. DecrementSendEventRefCount(taken, m) \in KernelState
  BY <1>1, <1>2, DecrementSendEventType
<1>6. FinishCrank(IF OwnerOfKernelObject(k, m.target) # NoVat
                  THEN routed ELSE DecrementSendEventRefCount(taken, m))
  BY DEF ProcessAcceptanceMessage, m, taken
<1> HIDE DEF routed
<1> QED
  BY <1>4, <1>5, <1>6, FinishCrankType

LEMMA CleanupTerminatedVatType == ASSUME TypeOK, CleanupTerminatedVat PROVE TypeOK'
<1> DEFINE v == Head(k.terminatedVats)
           Orphan(kk, S) == OrphanKernelObjects(kk, S, v)
           Abandon(kk, S) == DeleteCListEntries(kk, v, S)
           DeleteKeys(kk) == [kk EXCEPT !.initialized = @ \ {v}]
           Forget(kk) == [kk EXCEPT !.terminatedVats = Tail(k.terminatedVats),
                                    !.terminated = Tail(k.terminatedVats)]
<1>1. k \in KernelState /\ v \in Vats /\ Tail(k.terminatedVats) \in Seq(Vats)
  BY HeadTailProperties DEF CleanupTerminatedVat, TypeOK, KernelState
<1>2. ASSUME NEW kk \in KernelState, NEW S \in SUBSET Objects
      PROVE  Orphan(kk, S) \in KernelState /\ Abandon(kk, S) \in KernelState
  BY <1>1, OrphanKernelObjectsType, DeleteCListEntriesType
<1>3. ASSUME NEW kk \in KernelState
      PROVE  DeleteKeys(kk) \in KernelState /\ Forget(kk) \in KernelState
  BY <1>1 DEF KernelState
<1>4. k.exports[v] \in SUBSET Objects /\ k.imports[v] \in SUBSET Objects
  BY <1>1 DEF KernelState
<1>5. Forget(DeleteKeys(Abandon(Orphan(k, k.exports[v]), k.imports[v]))) \in KernelState
  <2>1. Abandon(Orphan(k, k.exports[v]), k.imports[v]) \in KernelState
    BY <1>1, <1>2, <1>4
  <2> QED
    BY <2>1, <1>3
<1>6. \A o \in k.exports[v] : Orphan(k, {o}) \in KernelState
  BY <1>1, <1>2, <1>4
<1>7. \A o \in k.imports[v] : Abandon(k, {o}) \in KernelState
  BY <1>1, <1>2, <1>4
<1>8. (IF v \in k.initialized THEN DeleteKeys(k) ELSE Forget(k)) \in KernelState
  BY <1>1, <1>3
<1>9. \E kk \in KernelState : FinishCrank(kk)
  BY <1>5, <1>6, <1>7, <1>8 DEF CleanupTerminatedVat
<1> QED
  BY <1>9, FinishCrankType

LEMMA ProcessGCActionsType == ASSUME TypeOK, ProcessGCActions PROVE TypeOK'
<1> DEFINE todo == GCActionsToProcess(k)
           krefs == {a.kref : a \in todo}
           v == (CHOOSE a \in todo : TRUE).vat
           pruned == [k EXCEPT !.gcActions = @ \ GCActionsExamined(k)]
<1>1. k \in KernelState /\ pruned \in KernelState
  BY DEF TypeOK, KernelState
<1>2. todo \subseteq GCAction
  BY <1>1 DEF GCActionsToProcess, KernelState
<1>3. krefs \in SUBSET Objects
  BY <1>2 DEF GCAction
<1>4. todo # {} => v \in Vats
  BY <1>2 DEF GCAction
<1>5. {"dropExports", "retireExports", "retireImports"} \subseteq DeliveryTypes
  BY DEF DeliveryTypes
<1> HIDE DEF todo, pruned, v, krefs
<1>6. CASE k' = [k EXCEPT !.failed = TRUE] /\ UNCHANGED <<saved, crank>>
  <2>1. [k EXCEPT !.failed = TRUE] \in KernelState
    BY <1>1 DEF KernelState
  <2> QED
    BY <1>6, <2>1 DEF TypeOK
<1>7. CASE FinishCrank(pruned)
  BY <1>1, <1>7, FinishCrankType
<1>8. ASSUME todo # {},
             NEW kk \in KernelState, NEW type \in DeliveryTypes,
             BeginDelivery(kk, type, v)
      PROVE  TypeOK'
  BY <1>4, <1>8, BeginDeliveryType
<1>9. ASSUME todo # {}
      PROVE  /\ ClearReachableFlags(pruned, v, krefs) \in KernelState
             /\ DeleteCListEntries(DeleteKernelObjects(pruned, krefs), v, krefs)
                  \in KernelState
             /\ DeleteCListEntries(pruned, v, krefs) \in KernelState
  BY <1>1, <1>3, <1>4, <1>9, ClearReachableFlagsType, DeleteKernelObjectsType,
     DeleteCListEntriesType
<1> QED
  BY <1>5, <1>6, <1>7, <1>8, <1>9 DEF ProcessGCActions, todo, pruned, v, krefs

LEMMA DeliverSendType == ASSUME TypeOK, DeliverSend PROVE TypeOK'
<1> DEFINE m == Head(k.runQueue)
           v == OwnerOfKernelObject(k, m.target)
           taken == [k EXCEPT !.runQueue = Tail(@)]
           released == DecrementSendEventRefCount(taken, m)
           mapped == MapKernelSlotToVatSlot(
                       MapKernelSlotToVatSlot(released, v, m.target), v, m.arg)
<1>1. k \in KernelState /\ m \in Message /\ Tail(k.runQueue) \in Seq(Message)
  BY QueuesType DEF DeliverSend, TypeOK, KernelState
<1>2. taken \in KernelState
  BY <1>1 DEF KernelState
<1> HIDE DEF taken
<1>3. released \in KernelState
  BY <1>1, <1>2, DecrementSendEventType
<1>4. v \in Vats \cup {NoVat}
  BY <1>1 DEF OwnerOfKernelObject, KernelState, Message
<1>5. m.target \in Objects \cup {NoObject} /\ m.arg \in Objects \cup {NoObject}
  BY <1>1 DEF Message
<1> HIDE DEF m, v, released
<1>6. ASSUME v # NoVat
      PROVE  mapped \in KernelState
  BY <1>3, <1>4, <1>5, <1>6, MapKernelSlotToVatSlotType
<1>7. IF v = NoVat THEN FinishCrank(released) ELSE BeginDelivery(mapped, "message", v)
  BY DEF DeliverSend, m, v, released, taken
<1>8. "message" \in DeliveryTypes
  BY DEF DeliveryTypes
<1> QED
  BY <1>3, <1>4, <1>6, <1>7, <1>8, FinishCrankType, BeginDeliveryType

LEMMA SyscallSendType ==
  ASSUME TypeOK, NEW target \in Objects, NEW arg \in Objects \cup {NoObject},
         SyscallSend(target, arg)
  PROVE  TypeOK'
<1> DEFINE v == crank.vat
           m == [target |-> target, arg |-> arg]
           mapped == MapVatSlotToKernelSlot(MapVatSlotToKernelSlot(k, v, target), v, arg)
<1>1. v \in Vats /\ k \in KernelState
  BY DeliveryVat DEF SyscallSend, Syscall, TypeOK
<1>2. m \in Message
  BY DEF Message
<1> HIDE DEF v
<1>3. mapped \in KernelState
  BY <1>1, MapVatSlotToKernelSlotType
<1> HIDE DEF m, mapped
<1>4. DoSend(mapped, m) \in KernelState
  BY <1>2, <1>3, DoSendType
<1>5. Syscall(DoSend(mapped, m))
  BY DEF SyscallSend, v, m, mapped
<1> QED
  BY <1>4, <1>5, SyscallType

LEMMA VatStepType == ASSUME TypeOK, VatStep PROVE TypeOK'
<1> DEFINE v == crank.vat
<1>1. v \in Vats /\ k \in KernelState
  BY DeliveryVat DEF VatStep, SyscallSend, SyscallDropImports, SyscallRetireImports,
     SyscallRetireExports, SyscallAbandonExports, AdminTerminatesVat, Syscall, TypeOK
<1> HIDE DEF v
<1>2. ASSUME NEW o \in Objects, NEW p \in Objects \cup {NoObject}, SyscallSend(o, p)
      PROVE  TypeOK'
  BY <1>2, SyscallSendType
<1>3. ASSUME NEW o \in Objects,
             \/ SyscallDropImports(o) \/ SyscallRetireImports(o)
             \/ SyscallRetireExports(o) \/ SyscallAbandonExports(o)
      PROVE  TypeOK'
  <2>1. ClearReachableFlags(k, v, {o}) \in KernelState
    BY <1>1, ClearReachableFlagsType
  <2>2. DeleteCListEntries(k, v, {o}) \in KernelState
    BY <1>1, DeleteCListEntriesType
  <2>3. RetireKernelObjects(DeleteCListEntries(k, v, {o}), {o}) \in KernelState
    BY <2>2, RetireKernelObjectsType
  <2>4. OrphanKernelObjects(k, {o}, v) \in KernelState
    BY <1>1, OrphanKernelObjectsType
  <2>5. \/ Syscall(ClearReachableFlags(k, v, {o}))
        \/ Syscall(DeleteCListEntries(k, v, {o}))
        \/ Syscall(RetireKernelObjects(DeleteCListEntries(k, v, {o}), {o}))
        \/ Syscall(OrphanKernelObjects(k, {o}, v))
    BY <1>3 DEF SyscallDropImports, SyscallRetireImports, SyscallRetireExports,
       SyscallAbandonExports, v
  <2> QED
    BY <2>1, <2>2, <2>3, <2>4, <2>5, SyscallType
<1>4. ASSUME NEW w \in Vats, AdminTerminatesVat(w)
      PROVE  TypeOK'
  <2>1. PICK cached \in BOOLEAN : Syscall(TerminateVat(k, w, cached, NoObject))
    BY <1>4 DEF AdminTerminatesVat
  <2> QED
    BY <1>1, <2>1, TerminateVatType, SyscallType
<1> QED
  BY <1>2, <1>3, <1>4 DEF VatStep

LEMMA RollbackType == ASSUME TypeOK PROVE RollbackCrank \in KernelState
BY DEF RollbackCrank, TypeOK, KernelState

LEMMA EndDeliveryType == ASSUME TypeOK, EndDelivery PROVE TypeOK'
<1>1. CASE CompleteDelivery
  <2>1. k \in KernelState /\ ReportUpgrade(k) \in KernelState
    BY ReportUpgradeType DEF TypeOK
  <2>2. FinishCrank(k) \/ FinishCrank(ReportUpgrade(k))
    BY <1>1 DEF CompleteDelivery
  <2> QED
    BY <2>1, <2>2, FinishCrankType
<1>2. ASSUME NEW info \in Objects \cup {NoObject}, ExitDelivery(info)
      PROVE  TypeOK'
  <2> DEFINE mapped == MapVatSlotToKernelSlot(k, crank.vat, info)
  <2>1. crank.vat \in Vats /\ FinishCrank(TerminateVat(mapped, crank.vat, FALSE, info))
    BY <1>2, DeliveryVat DEF ExitDelivery, MayRunUserCode
  <2>2. mapped \in KernelState
    BY <2>1, MapVatSlotToKernelSlotType DEF TypeOK
  <2> HIDE DEF mapped
  <2> QED
    BY <2>1, <2>2, TerminateVatType, FinishCrankType
<1>3. ASSUME NEW cached \in BOOLEAN, NEW info \in Objects \cup {NoObject},
             AbortDelivery(cached, info)
      PROVE  TypeOK'
  BY <1>3, DeliveryVat, RollbackType, TerminateVatType, FinishCrankType
  DEF AbortDelivery
<1>4. CASE AbortUpgrade
  BY <1>4, RollbackType, ReportUpgradeType, FinishCrankType DEF AbortUpgrade
<1>5. CASE StartNewIncarnation
  <2> DEFINE v == crank.vat
             kk == OrphanKernelObjects(k, NonDurableObjectExports(v), v)
  <2>1. crank # Idle
    BY <1>5 DEF StartNewIncarnation, Idle
  <2>2. v \in Vats /\ crank \in [type : DeliveryTypes, vat : Vats, syscalls : 0..MaxSyscalls]
    BY <2>1, DeliveryVat DEF TypeOK, CrankType
  <2>3. NonDurableObjectExports(v) \subseteq Objects
    BY <2>2 DEF NonDurableObjectExports, TypeOK, KernelState
  <2> HIDE DEF v
  <2>4. kk \in KernelState
    BY <2>2, <2>3, OrphanKernelObjectsType DEF TypeOK
  <2>5. [crank EXCEPT !.type = "newIncarnation"] \in CrankType
    BY <2>2 DEF CrankType, DeliveryTypes, UpgradeDeliveries
  <2> HIDE DEF kk
  <2> QED
    BY <1>5, <2>4, <2>5 DEF StartNewIncarnation, TypeOK, kk, v
<1> QED
  BY <1>1, <1>2, <1>3, <1>4, <1>5 DEF EndDelivery

\* The kernel's tables keep their shape through every crank, syscall,
\* rollback and restart: no refcount goes negative, and none is written for
\* anything but a kref (kernelKeeper.js, setObjectReferenceCount).
THEOREM KernelTypeCorrect == Spec => []TypeOK
<1>1. TypeOK /\ [Next]_vars => TypeOK'
  <2> SUFFICES ASSUME TypeOK, [Next]_vars
               PROVE  TypeOK'
    OBVIOUS
  <2>1. CASE KernelStep
    BY <2>1, ProcessAcceptanceMessageType, CleanupTerminatedVatType,
       ProcessGCActionsType, DeliverSendType DEF KernelStep
  <2>2. CASE VatStep
    BY <2>2, VatStepType
  <2>3. CASE EndDelivery
    BY <2>3, EndDeliveryType
  <2>4. CASE HostStep
    BY <2>4, HostStepType
  <2>5. CASE UNCHANGED vars
    BY <2>5 DEF vars, TypeOK
  <2> QED
    BY <2>1, <2>2, <2>3, <2>4, <2>5 DEF Next
<1> QED
  BY InitTypeOK, <1>1, PTL DEF Spec

-----------------------------------------------------------------------------
(* A vat on the list of live vats is on no list of terminated ones, as     *)
(* long as no delivery of vatAdmin fails after it terminated a vat:        *)
(* LivesInv.  The list of terminated vats is kept twice, in the database   *)
(* and in RAM, and only the database is rolled back.  So the invariant     *)
(* must hold of both copies, of the savepoint too, and an upgrade, which   *)
(* any failure rolls back, must not have terminated a vat.                 *)

\* The lists of vats are as they were, and the GC actions too.
SameVats(kk, kl) ==
  /\ kl.liveIDs = kk.liveIDs /\ kl.initialized = kk.initialized
  /\ kl.terminatedVats = kk.terminatedVats /\ kl.terminated = kk.terminated
Untouched(kk, kl) ==
  /\ kl.liveIDs = kk.liveIDs /\ kl.initialized = kk.initialized
  /\ kl.terminatedVats = kk.terminatedVats /\ kl.terminated = kk.terminated
  /\ kl.gcActions = kk.gcActions

DeadAreNotLive(kk) ==
  \A v \in kk.liveIDs :
    v \notin Elements(kk.terminatedVats) /\ v \notin Elements(kk.terminated)

\* The inductive invariant.
LivesInv ==
  /\ TypeOK
  /\ DeadAreNotLive(k)
  /\ DeadAreNotLive(saved)
  /\ crank.type \in UpgradeDeliveries => k.terminatedVats = saved.terminatedVats

LEMMA SameVatsStays ==
  ASSUME NEW kk, NEW kl, SameVats(kk, kl), DeadAreNotLive(kk)
  PROVE  DeadAreNotLive(kl)
BY DEF SameVats, DeadAreNotLive

LEMMA UntouchedStays ==
  ASSUME NEW kk, NEW kl, Untouched(kk, kl), DeadAreNotLive(kk)
  PROVE  DeadAreNotLive(kl)
BY DEF Untouched, DeadAreNotLive

-----------------------------------------------------------------------------
\* What counts objects and changes c-lists leaves the lists alone.

LEMMA RefCountsKeepLives ==
  ASSUME NEW kk \in KernelState, NEW S \in SUBSET Objects,
         NEW dReach \in Int, NEW dRecog \in Int
  PROVE  Untouched(kk, SetObjectRefCounts(kk, S, dReach, dRecog))
BY DEF SetObjectRefCounts, Untouched, KernelState

LEMMA DecrementKeepsLives ==
  ASSUME NEW kk \in KernelState, NEW S \in SUBSET Objects, NEW dReach \in {0, 1}
  PROVE  Untouched(kk, DecrementRefCounts(kk, S, dReach))
<1> DEFINE known == {o \in S : KernelObjectExists(kk, o)}
           after == SetObjectRefCounts(kk, known, -dReach, -1)
<1>1. Untouched(kk, after) /\ after \in KernelState
  BY RefCountsKeepLives, SetObjectRefCountsType
<1> HIDE DEF after
<1> QED
  BY <1>1 DEF DecrementRefCounts, Untouched, KernelState, after

LEMMA RefCountStepsKeepLives ==
  ASSUME NEW kk \in KernelState, NEW o \in Objects \cup {NoObject}
  PROVE  /\ Untouched(kk, IncrementRefCount(kk, o))
         /\ Untouched(kk, DecrementRefCount(kk, o))
<1>1. CASE o = NoObject
  BY <1>1 DEF IncrementRefCount, DecrementRefCount, Untouched
<1>2. CASE o \in Objects
  BY <1>2, RefCountsKeepLives, DecrementKeepsLives, ConstantsType
  DEF IncrementRefCount, DecrementRefCount
<1> QED
  BY <1>1, <1>2

LEMMA DeleteObjectsKeepLives ==
  ASSUME NEW kk \in KernelState, NEW S \in SUBSET Objects
  PROVE  Untouched(kk, DeleteKernelObjects(kk, S))
BY DEF DeleteKernelObjects, Untouched, KernelState

\* Deleting what is still recognized tells the live importers, and only them.
LEMMA RetireObjectsKeepLives ==
  ASSUME NEW kk \in KernelState, NEW S \in SUBSET Objects
  PROVE  /\ SameVats(kk, RetireKernelObjects(kk, S))
         /\ \A a \in RetireKernelObjects(kk, S).gcActions \ kk.gcActions :
              a.vat \in kk.liveIDs /\ kk.imports[a.vat] \cap S # {}
<1> DEFINE deleted == DeleteKernelObjects(kk, S)
           actions == UNION {{[vat |-> v, type |-> "retireImport", kref |-> o] :
                                v \in GetImporters(kk, o)} : o \in S}
           b == deleted.failed \/ ~(\A v \in kk.liveIDs : ProvidesVatKeeper(kk, v))
           kl == [deleted EXCEPT !.gcActions = @ \cup actions, !.failed = b]
<1>1. deleted \in KernelState /\ Untouched(kk, deleted)
  BY DeleteKernelObjectsType, DeleteObjectsKeepLives
<1>2. \A a \in actions : a.vat \in kk.liveIDs /\ kk.imports[a.vat] \cap S # {}
  BY DEF GetImporters
<1>3. RetireKernelObjects(kk, S) = IF S = {} THEN kk ELSE kl
  BY DEF RetireKernelObjects
<1> HIDE DEF deleted, actions, b
<1>4. SameVats(deleted, kl) /\ kl.gcActions = deleted.gcActions \cup actions
  BY <1>1 DEF SameVats, KernelState
<1> HIDE DEF kl
<1> QED
  BY <1>1, <1>2, <1>3, <1>4 DEF SameVats, Untouched

LEMMA OrphanObjectsKeepLives ==
  ASSUME NEW kk \in KernelState, NEW S \in SUBSET Objects, NEW v \in Vats
  PROVE  Untouched(kk, OrphanKernelObjects(kk, S, v))
BY DEF OrphanKernelObjects, Untouched, KernelState

LEMMA SetReachableKeepsLives ==
  ASSUME NEW kk \in KernelState, NEW v \in Vats, NEW o \in Objects
  PROVE  Untouched(kk, SetReachableFlag(kk, v, o))
<1> DEFINE flagged == [kk EXCEPT !.reach[v] = @ \cup {o}]
<1>1. flagged \in KernelState /\ Untouched(kk, flagged)
  BY DEF KernelState, Untouched
<1>2. Untouched(flagged, SetObjectRefCounts(flagged, {o}, 1, 0))
  BY <1>1, RefCountsKeepLives
<1> HIDE DEF flagged
<1> QED
  BY <1>1, <1>2 DEF SetReachableFlag, Untouched, flagged

LEMMA ClearReachableKeepsLives ==
  ASSUME NEW kk \in KernelState, NEW v \in Vats, NEW S \in SUBSET Objects
  PROVE  Untouched(kk, ClearReachableFlags(kk, v, S))
<1> DEFINE held    == S \cap kk.imports[v] \cap kk.reach[v]
           counted == {o \in held : KernelObjectExists(kk, o)}
           cleared == [kk EXCEPT !.reach[v] = @ \ S]
           after   == SetObjectRefCounts(cleared, counted, -1, 0)
<1>1. cleared \in KernelState /\ Untouched(kk, cleared)
  BY DEF KernelState, Untouched
<1>2. counted \in SUBSET Objects
  OBVIOUS
<1> HIDE DEF cleared, counted
<1>3. after \in KernelState /\ Untouched(cleared, after)
  BY <1>1, <1>2, SetObjectRefCountsType, RefCountsKeepLives
<1> HIDE DEF after
<1>4. ASSUME NEW T
      PROVE  Untouched(after, [after EXCEPT !.maybeFree = @ \cup T])
  BY <1>3 DEF KernelState, Untouched
<1> QED
  BY <1>1, <1>3, <1>4 DEF ClearReachableFlags, Untouched, after, cleared, counted

LEMMA DeleteCListKeepsLives ==
  ASSUME NEW kk \in KernelState, NEW v \in Vats, NEW S \in SUBSET Objects
  PROVE  Untouched(kk, DeleteCListEntries(kk, v, S))
<1> DEFINE cleared == ClearReachableFlags(kk, v, S)
           decremented == DecrementRefCounts(cleared, S \cap kk.imports[v], 0)
<1>1. cleared \in KernelState /\ Untouched(kk, cleared)
  BY ClearReachableFlagsType, ClearReachableKeepsLives
<1>2. decremented \in KernelState /\ Untouched(cleared, decremented)
  BY <1>1, DecrementRefCountsType, DecrementKeepsLives
<1> HIDE DEF decremented, cleared
<1> QED
  BY <1>1, <1>2 DEF DeleteCListEntries, Untouched, KernelState, decremented, cleared

LEMMA NewEntriesKeepLives ==
  ASSUME NEW kk \in KernelState, NEW v \in Vats, NEW o \in Objects
  PROVE  /\ Untouched(kk, NewExport(kk, v))
         /\ Untouched(kk, NewImport(kk, v, o))
         /\ Untouched(kk, UnreachableExport(kk, v, o))
<1> DEFINE added == AddKernelObject(kk, v)
           counted == SetObjectRefCounts(kk, {o}, 0, 1)
<1>1. added \in KernelState /\ Untouched(kk, added)
  <2>1. ASSUME NEW ow, NEW rc, NEW n, NEW i
        PROVE  Untouched(kk, [kk EXCEPT !.owner = ow, !.refCount = rc,
                                        !.nextKoid = n, !.kernelObjects = i])
    BY DEF Untouched, KernelState
  <2>2. added = [kk EXCEPT
          !.owner = [kk.owner EXCEPT ![kk.nextKoid] = v],
          !.refCount = [kk.refCount EXCEPT ![kk.nextKoid] =
                          [exists |-> TRUE, reachable |-> 0, recognizable |-> 0]],
          !.nextKoid = kk.nextKoid + 1, !.kernelObjects = kk.kernelObjects + 1]
    BY DEF AddKernelObject
  <2> HIDE DEF added
  <2>3. Untouched(kk, added)
    BY <2>1, <2>2
  <2> QED
    BY <2>3, AddKernelObjectType DEF added
<1>2. counted \in KernelState /\ Untouched(kk, counted)
  BY SetObjectRefCountsType, RefCountsKeepLives
<1> HIDE DEF added, counted
<1>3. ASSUME NEW S
      PROVE  /\ Untouched(added, [added EXCEPT !.exports[v] = S])
             /\ Untouched(counted, [counted EXCEPT !.imports[v] = S])
  BY <1>1, <1>2 DEF Untouched, KernelState
<1>4. Untouched(kk, NewExport(kk, v)) /\ Untouched(kk, NewImport(kk, v, o))
  <2>1. /\ NewExport(kk, v)
             = [added EXCEPT !.exports[v] = added.exports[v] \cup {kk.nextKoid}]
        /\ NewImport(kk, v, o)
             = [counted EXCEPT !.imports[v] = counted.imports[v] \cup {o}]
    BY DEF NewExport, NewImport, added, counted
  <2> QED
    BY <1>1, <1>2, <1>3, <2>1 DEF Untouched
<1>5. Untouched(kk, UnreachableExport(kk, v, o))
  BY DEF UnreachableExport, Untouched, KernelState
<1> QED
  BY <1>4, <1>5

LEMMA MapVatSlotKeepsLives ==
  ASSUME NEW kk \in KernelState, NEW v \in Vats, NEW o \in Objects \cup {NoObject}
  PROVE  Untouched(kk, MapVatSlotToKernelSlot(kk, v, o))
<1>1. CASE o = NoObject
  BY <1>1 DEF MapVatSlotToKernelSlot, Untouched
<1>2. CASE o # NoObject /\ o = kk.nextKoid
  <2> DEFINE added == NewExport(kk, v)
  <2>1. added \in KernelState /\ Untouched(kk, added)
    BY <1>2, NewEntriesType, NewEntriesKeepLives
  <2> HIDE DEF added
  <2>2. Untouched(added, SetReachableFlag(added, v, o))
    BY <1>2, <2>1, SetReachableKeepsLives
  <2> QED
    BY <1>2, <2>1, <2>2 DEF MapVatSlotToKernelSlot, Untouched, added
<1>3. CASE o # NoObject /\ o # kk.nextKoid
  BY <1>3, SetReachableKeepsLives DEF MapVatSlotToKernelSlot, Untouched
<1> QED
  BY <1>1, <1>2, <1>3

LEMMA MapKernelSlotKeepsLives ==
  ASSUME NEW kk \in KernelState, NEW v \in Vats, NEW o \in Objects \cup {NoObject}
  PROVE  Untouched(kk, MapKernelSlotToVatSlot(kk, v, o))
<1>1. CASE o = NoObject
  BY <1>1 DEF MapKernelSlotToVatSlot, Untouched
<1>2. CASE o # NoObject
  <2> DEFINE added == NewImport(kk, v, o)
  <2>1. /\ added \in KernelState /\ Untouched(kk, added)
        /\ Untouched(kk, UnreachableExport(kk, v, o))
    BY <1>2, NewEntriesType, NewEntriesKeepLives
  <2> HIDE DEF added
  <2>2. Untouched(added, SetReachableFlag(added, v, o))
    BY <1>2, <2>1, SetReachableKeepsLives
  <2>3. Untouched(kk, SetReachableFlag(kk, v, o))
    BY <1>2, SetReachableKeepsLives
  <2> QED
    BY <1>2, <2>1, <2>2, <2>3 DEF MapKernelSlotToVatSlot, Untouched, added
<1> QED
  BY <1>1, <1>2

LEMMA ProcessRefcountsKeepsLives ==
  ASSUME NEW kk \in KernelState
  PROVE  /\ SameVats(kk, ProcessRefcounts(kk))
         /\ \A a \in ProcessRefcounts(kk).gcActions \ kk.gcActions :
              \/ a.vat \in kk.liveIDs
              \/ /\ a.vat \in Vats /\ ~IsTerminated(kk, a.vat)
                 /\ \E o \in Objects : ProcessRefcounts(kk).owner[o] = a.vat
<1> DEFINE
     unreachable == {o \in kk.maybeFree : kk.refCount[o].reachable = 0}
     owned    == {o \in unreachable : OwnerOfKernelObject(kk, o) # NoVat}
     orphans  == unreachable \ owned
     recog(o) == kk.refCount[o].recognizable > 0
     act(t, o) == [vat |-> kk.owner[o], type |-> t, kref |-> o]
     drops    == {act("dropExport", o) : o \in {x \in owned : x \in kk.reach[kk.owner[x]]}}
     retires  == {act("retireExport", o) : o \in {x \in owned : ~recog(x)}}
     ownedBy(v) == {o \in orphans : kk.owner[o] = v}
     ow == [o \in Objects |-> IF o \in orphans THEN NoVat ELSE kk.owner[o]]
     ex == [v \in Vats |-> kk.exports[v] \ ownedBy(v)]
     re == [v \in Vats |-> kk.reach[v] \ ownedBy(v)]
     detached == [kk EXCEPT !.owner = ow, !.exports = ex, !.reach = re]
     retired  == RetireKernelObjects(detached, {o \in orphans : recog(o)})
     deleted  == DeleteKernelObjects(retired, {o \in orphans : ~recog(o)})
<1>1. unreachable \subseteq Objects
  BY DEF KernelState
<1>2. detached \in KernelState /\ Untouched(kk, detached)
  <2>1. ow \in [Objects -> Vats \cup {NoVat}]
    BY DEF KernelState
  <2>2. ex \in [Vats -> SUBSET Objects] /\ re \in [Vats -> SUBSET Objects]
    BY DEF KernelState
  <2> HIDE DEF ow, ex, re
  <2> QED
    BY <2>1, <2>2 DEF KernelState, Untouched
<1> HIDE DEF detached
<1>7. detached.owner = ow
  BY DEF detached, KernelState
<1> HIDE DEF detached
<1> DEFINE known == {o \in orphans : recog(o)}
           unknown == {o \in orphans : ~recog(o)}
<1>8. known \in SUBSET Objects /\ unknown \in SUBSET Objects
  BY <1>1
<1>9. \A o \in owned : /\ o \in Objects /\ ow[o] = kk.owner[o]
                        /\ kk.owner[o] \in Vats /\ ~IsTerminated(kk, kk.owner[o])
  BY <1>1 DEF OwnerOfKernelObject, KernelState
<1>10. \A a \in drops \cup retires : \E o \in owned : a.vat = kk.owner[o]
  OBVIOUS
<1>13. \A o \in owned : o \notin known /\ o \notin unknown
  OBVIOUS
<1> HIDE DEF known, unknown, ow, drops, retires, owned
<1>3. /\ retired \in KernelState /\ SameVats(detached, retired)
      /\ \A a \in retired.gcActions \ detached.gcActions : a.vat \in detached.liveIDs
  BY <1>2, <1>8, RetireKernelObjectsType, RetireObjectsKeepLives DEF known
<1>11. \A o \in Objects \ known : retired.owner[o] = detached.owner[o]
  <2>1. DeleteKernelObjects(detached, known).owner
          = [o \in Objects |-> IF o \in known THEN NoVat ELSE detached.owner[o]]
    BY <1>2 DEF DeleteKernelObjects, KernelState
  <2>2. DeleteKernelObjects(detached, known) \in KernelState
    BY <1>2, <1>8, DeleteKernelObjectsType
  <2>3. retired.owner = IF known = {} THEN detached.owner
                        ELSE DeleteKernelObjects(detached, known).owner
    BY <2>2 DEF RetireKernelObjects, KernelState, known
  <2> QED
    BY <2>1, <2>3
<1> HIDE DEF retired
<1>4. deleted \in KernelState /\ Untouched(retired, deleted)
  BY <1>3, <1>8, DeleteKernelObjectsType, DeleteObjectsKeepLives DEF unknown
<1>12. \A o \in Objects \ unknown : deleted.owner[o] = retired.owner[o]
  BY <1>3 DEF DeleteKernelObjects, KernelState, deleted, unknown
<1> HIDE DEF deleted
<1> DEFINE final == [deleted EXCEPT !.gcActions = @ \cup drops \cup retires,
                                    !.maybeFree = {}]
<1>5. /\ SameVats(deleted, final) /\ final.owner = deleted.owner
      /\ final.gcActions = deleted.gcActions \cup drops \cup retires
  BY <1>4 DEF SameVats, KernelState
<1>6. ProcessRefcounts(kk) = final
  BY DEF ProcessRefcounts, final, deleted, retired, detached, drops, retires, ow, owned
<1> HIDE DEF final
<1>14. SameVats(kk, final)
  BY <1>2, <1>3, <1>4, <1>5 DEF SameVats, Untouched
<1>15. ASSUME NEW a \in final.gcActions \ kk.gcActions
       PROVE  \/ a.vat \in kk.liveIDs
              \/ /\ a.vat \in Vats /\ ~IsTerminated(kk, a.vat)
                 /\ \E o \in Objects : final.owner[o] = a.vat
  <2>1. CASE a \in drops \cup retires
    <3>1. PICK o \in owned : a.vat = kk.owner[o]
      BY <1>10, <2>1
    <3>2. final.owner[o] = kk.owner[o]
      BY <1>5, <1>7, <1>9, <1>11, <1>12, <1>13
    <3> QED
      BY <1>9, <3>1, <3>2
  <2>2. CASE a \in retired.gcActions
    BY <1>2, <1>3, <2>2 DEF Untouched
  <2> QED
    BY <1>4, <1>5, <1>15, <2>1, <2>2 DEF Untouched
<1> QED
  BY <1>6, <1>14, <1>15

LEMMA DecrementSendEventKeepsLives ==
  ASSUME NEW kk \in KernelState, NEW m \in Message
  PROVE  Untouched(kk, DecrementSendEventRefCount(kk, m))
<1>1. m.target \in Objects \cup {NoObject} /\ m.arg \in Objects \cup {NoObject}
  BY DEF Message
<1> DEFINE first == DecrementRefCount(kk, m.target)
<1>2. first \in KernelState /\ Untouched(kk, first)
  BY <1>1, RefCountStepsType, RefCountStepsKeepLives
<1> HIDE DEF first
<1>3. Untouched(first, DecrementRefCount(first, m.arg))
  BY <1>1, <1>2, RefCountStepsKeepLives
<1> QED
  BY <1>2, <1>3 DEF DecrementSendEventRefCount, Untouched, first

LEMMA DoSendKeepsLives ==
  ASSUME NEW kk \in KernelState, NEW m \in Message
  PROVE  Untouched(kk, DoSend(kk, m))
<1>1. m.target \in Objects \cup {NoObject} /\ m.arg \in Objects \cup {NoObject}
  BY DEF Message
<1> DEFINE first == IncrementRefCount(kk, m.target)
           counted == IncrementRefCount(first, m.arg)
<1>2. first \in KernelState /\ Untouched(kk, first)
  BY <1>1, RefCountStepsType, RefCountStepsKeepLives
<1> HIDE DEF first
<1>3. counted \in KernelState /\ Untouched(first, counted)
  BY <1>1, <1>2, RefCountStepsType, RefCountStepsKeepLives
<1> HIDE DEF counted
<1>4. Untouched(counted, [counted EXCEPT !.acceptanceQueue = Append(@, m)])
  BY <1>3 DEF Untouched, KernelState
<1> QED
  BY <1>2, <1>3, <1>4 DEF DoSend, Untouched, counted, first

-----------------------------------------------------------------------------
\* What ends a vat takes it off one list as it puts it on the other.

LEMMA ListElements ==
  ASSUME NEW s \in Seq(Vats), NEW v \in Vats
  PROVE  /\ Elements(Append(s, v)) = Elements(s) \cup {v}
         /\ s # <<>> => Elements(Tail(s)) \subseteq Elements(s)
<1>1. Elements(Append(s, v)) = Elements(s) \cup {v}
  <2>1. /\ Append(s, v) \in Seq(Vats) /\ Len(Append(s, v)) = Len(s) + 1
        /\ \A i \in 1..Len(s) : Append(s, v)[i] = s[i]
        /\ Append(s, v)[Len(s) + 1] = v
    BY AppendProperties
  <2>2. Len(s) \in Nat
    OBVIOUS
  <2> QED
    BY <2>1, <2>2 DEF Elements
<1>2. ASSUME s # <<>>
      PROVE  Elements(Tail(s)) \subseteq Elements(s)
  <2>1. /\ Len(s) \in Nat /\ Len(s) > 0 /\ Len(Tail(s)) = Len(s) - 1
        /\ \A i \in 1..Len(Tail(s)) : Tail(s)[i] = s[i + 1]
    BY <1>2, HeadTailProperties
  <2> QED
    BY <2>1 DEF Elements
<1> QED
  BY <1>1, <1>2

LEMMA DoSendKeepsDeadDead ==
  ASSUME NEW kk \in KernelState, NEW m \in Message, DeadAreNotLive(kk)
  PROVE  DeadAreNotLive(DoSend(kk, m))
BY DoSendKeepsLives, UntouchedStays

LEMMA MarkVatKeepsDeadDead ==
  ASSUME NEW kk \in KernelState, NEW v \in Vats, NEW cached \in BOOLEAN,
         DeadAreNotLive(kk)
  PROVE  DeadAreNotLive(MarkVatAsTerminated(kk, v, cached))
<1> DEFINE ended == Append(kk.terminatedVats, v)
           kl == MarkVatAsTerminated(kk, v, cached)
<1>1. CASE ~VatIsAlive(kk, v)
  BY <1>1 DEF MarkVatAsTerminated
<1>2. CASE VatIsAlive(kk, v)
  <2>1. Elements(ended) = Elements(kk.terminatedVats) \cup {v}
    BY ListElements DEF KernelState
  <2>2. /\ kl.liveIDs = kk.liveIDs \ {v}
        /\ kl.terminatedVats = ended /\ kl.terminated = ended
    BY <1>2 DEF MarkVatAsTerminated, KernelState
  <2> HIDE DEF ended, kl
  <2>3. DeadAreNotLive(kl)
    BY <2>1, <2>2 DEF DeadAreNotLive
  <2> QED
    BY <2>3 DEF kl
<1> QED
  BY <1>1, <1>2

LEMMA TerminateVatKeepsDeadDead ==
  ASSUME NEW kk \in KernelState, NEW v \in Vats, NEW cached \in BOOLEAN,
         NEW info \in Objects \cup {NoObject}, DeadAreNotLive(kk)
  PROVE  DeadAreNotLive(TerminateVat(kk, v, cached, info))
BY MarkVatKeepsDeadDead, MarkVatAsTerminatedType, NoticeType, DoSendKeepsDeadDead
DEF TerminateVat

LEMMA ReportKeepsDeadDead ==
  ASSUME NEW kk \in KernelState, DeadAreNotLive(kk)
  PROVE  DeadAreNotLive(ReportUpgrade(kk))
BY NoticeType, DoSendKeepsDeadDead DEF ReportUpgrade

-----------------------------------------------------------------------------
\* How a crank ends, begins and goes on.

LEMMA FinishCrankLives ==
  ASSUME NEW kk \in KernelState, DeadAreNotLive(kk), FinishCrank(kk)
  PROVE  LivesInv'
<1>1. TypeOK'
  BY FinishCrankType
<1>2. DeadAreNotLive(ProcessRefcounts(kk))
  BY ProcessRefcountsKeepsLives, SameVatsStays
<1>3. DeadAreNotLive(k') /\ DeadAreNotLive(saved') /\ crank'.type \notin UpgradeDeliveries
  BY <1>2 DEF FinishCrank, Idle, UpgradeDeliveries
<1> QED
  BY <1>1, <1>3 DEF LivesInv

LEMMA BeginDeliveryLives ==
  ASSUME LivesInv, NEW kk \in KernelState, NEW type \in DeliveryTypes, NEW v \in Vats,
         SameVats(k, kk), BeginDelivery(kk, type, v)
  PROVE  LivesInv'
<1>1. TypeOK'
  BY BeginDeliveryType DEF LivesInv
<1>2. k' = kk /\ saved' = k
  BY DEF BeginDelivery
<1>3. DeadAreNotLive(k') /\ DeadAreNotLive(saved')
  BY <1>2, SameVatsStays DEF LivesInv
<1>4. k'.terminatedVats = saved'.terminatedVats
  BY <1>2 DEF SameVats
<1> QED
  BY <1>1, <1>3, <1>4 DEF LivesInv

\* A syscall that ends no vat, whatever the delivery is then called.
LEMMA SyscallLives ==
  ASSUME LivesInv, TypeOK', SameVats(k, k'), saved' = saved,
         crank'.type \in UpgradeDeliveries => crank.type \in UpgradeDeliveries
  PROVE  LivesInv'
<1>1. DeadAreNotLive(k') /\ DeadAreNotLive(saved')
  BY SameVatsStays DEF LivesInv
<1>2. crank'.type \in UpgradeDeliveries => k'.terminatedVats = saved'.terminatedVats
  BY DEF LivesInv, SameVats
<1> QED
  BY <1>1, <1>2 DEF LivesInv

LEMMA RollbackLives ==
  ASSUME LivesInv, k.terminatedVats = saved.terminatedVats
  PROVE  RollbackCrank \in KernelState /\ DeadAreNotLive(RollbackCrank)
<1>1. RollbackCrank \in KernelState
  BY RollbackType DEF LivesInv
<1>2. Untouched(saved, RollbackCrank)
  BY DEF RollbackCrank, Untouched, LivesInv, TypeOK, KernelState
<1> QED
  BY <1>1, <1>2, UntouchedStays DEF LivesInv

-----------------------------------------------------------------------------
\* Each action preserves LivesInv.

LEMMA HostStepLives == ASSUME LivesInv, HostStep PROVE LivesInv'
<1>1. TypeOK /\ TypeOK'
  BY HostStepType DEF LivesInv
<1>2. ASSUME NEW v \in Vats, QueueToVatRoot(v)
      PROVE  LivesInv'
  <2>1. [target |-> v, arg |-> NoObject] \in Message
    BY ConstantsType DEF Message
  <2>2. DeadAreNotLive(k') /\ saved' = k' /\ crank'.type \notin UpgradeDeliveries
    BY <1>1, <1>2, <2>1, DoSendKeepsDeadDead
    DEF QueueToVatRoot, Running, LivesInv, TypeOK, Idle, UpgradeDeliveries
  <2> QED
    BY <1>1, <2>2 DEF LivesInv
<1>3. ASSUME Restart
      PROVE  LivesInv'
  <2>1. /\ k'.liveIDs = k.liveIDs
        /\ k'.terminatedVats = k.terminated /\ k'.terminated = k.terminated
        /\ saved' = k' /\ crank'.type \notin UpgradeDeliveries
    BY <1>1, <1>3 DEF Restart, Running, TypeOK, KernelState, Idle, UpgradeDeliveries
  <2>2. DeadAreNotLive(k')
    BY <2>1 DEF DeadAreNotLive, LivesInv
  <2> QED
    BY <1>1, <2>1, <2>2 DEF LivesInv
<1>4. ASSUME NEW v \in Vats, DeliverBringOutYourDead(v) \/ DeliverUpgradeVat(v)
      PROVE  LivesInv'
  <2>1. "bringOutYourDead" \in DeliveryTypes /\ "oldIncarnation" \in DeliveryTypes
    BY DEF DeliveryTypes, UpgradeDeliveries
  <2>2. k \in KernelState /\ SameVats(k, k)
    BY <1>1 DEF TypeOK, SameVats
  <2>3. PICK type \in DeliveryTypes : BeginDelivery(k, type, v)
    BY <1>4, <2>1 DEF DeliverBringOutYourDead, DeliverUpgradeVat
  <2> QED
    BY <2>2, <2>3, BeginDeliveryLives
<1> QED
  BY <1>2, <1>3, <1>4 DEF HostStep

LEMMA ProcessAcceptanceMessageLists ==
  ASSUME TypeOK, ProcessAcceptanceMessage
  PROVE  \E kk \in KernelState : Untouched(k, kk) /\ FinishCrank(kk)
<1> DEFINE m == Head(k.acceptanceQueue)
           taken == [k EXCEPT !.acceptanceQueue = Tail(@)]
           routed == [taken EXCEPT !.runQueue = Append(@, m)]
<1>1. m \in Message /\ Tail(k.acceptanceQueue) \in Seq(Message)
  BY QueuesType DEF ProcessAcceptanceMessage, LivesInv, TypeOK, KernelState
<1>2. taken \in KernelState /\ Untouched(k, taken)
  BY <1>1 DEF LivesInv, TypeOK, KernelState, Untouched
<1> HIDE DEF m, taken
<1>3. Append(taken.runQueue, m) \in Seq(Message)
  BY <1>1, <1>2, AppendProperties DEF KernelState
<1>4. routed \in KernelState /\ Untouched(k, routed)
  BY <1>2, <1>3 DEF KernelState, Untouched
<1>5. /\ DecrementSendEventRefCount(taken, m) \in KernelState
      /\ Untouched(taken, DecrementSendEventRefCount(taken, m))
  BY <1>1, <1>2, DecrementSendEventType, DecrementSendEventKeepsLives
<1>6. FinishCrank(IF OwnerOfKernelObject(k, m.target) # NoVat
                  THEN routed ELSE DecrementSendEventRefCount(taken, m))
  BY DEF ProcessAcceptanceMessage, m, taken
<1> HIDE DEF routed
<1> QED
  BY <1>2, <1>4, <1>5, <1>6 DEF Untouched

LEMMA ProcessAcceptanceMessageLives ==
  ASSUME LivesInv, ProcessAcceptanceMessage PROVE LivesInv'
BY ProcessAcceptanceMessageLists, UntouchedStays, FinishCrankLives DEF LivesInv

\* A vat is forgotten by both copies of the list at once, and only a vat on
\* the list loses its keys.
Cleaned(kk) ==
  /\ k.terminatedVats # <<>>
  /\ kk.liveIDs = k.liveIDs /\ kk.gcActions = k.gcActions
  /\ k.initialized \ Elements(k.terminatedVats) \subseteq kk.initialized
  /\ \/ kk.terminatedVats = k.terminatedVats /\ kk.terminated = k.terminated
     \/ /\ kk.terminatedVats = Tail(k.terminatedVats)
        /\ kk.terminated = Tail(k.terminatedVats)

LEMMA CleanupTerminatedVatLists ==
  ASSUME TypeOK, CleanupTerminatedVat
  PROVE  \E kk \in KernelState :
           /\ FinishCrank(kk) /\ Cleaned(kk)
           /\ kk.liveIDs = k.liveIDs /\ kk.gcActions = k.gcActions
<1> DEFINE v == Head(k.terminatedVats)
           Good(kk) == kk \in KernelState /\ Cleaned(kk)
           Orphan(kk, S) == OrphanKernelObjects(kk, S, v)
           Abandon(kk, S) == DeleteCListEntries(kk, v, S)
           DeleteKeys(kk) == [kk EXCEPT !.initialized = @ \ {v}]
           Forget(kk) == [kk EXCEPT !.terminatedVats = Tail(k.terminatedVats),
                                    !.terminated = Tail(k.terminatedVats)]
<1>1. /\ Good(k) /\ v \in Vats /\ Tail(k.terminatedVats) \in Seq(Vats)
      /\ v \in Elements(k.terminatedVats)
  <2>1. k.terminatedVats \in Seq(Vats) /\ k.terminatedVats # <<>>
    BY DEF CleanupTerminatedVat, TypeOK, KernelState
  <2>2. v \in Vats /\ Tail(k.terminatedVats) \in Seq(Vats)
    BY <2>1, HeadTailProperties
  <2>3. v = k.terminatedVats[1] /\ 1 \in 1..Len(k.terminatedVats)
    BY <2>1, HeadTailProperties
  <2> QED
    BY <2>1, <2>2, <2>3 DEF Cleaned, Elements, TypeOK
<1> DEFINE rest == Tail(k.terminatedVats)
<1>2. ASSUME NEW kk, Good(kk), NEW S \in SUBSET Objects
      PROVE  Good(Orphan(kk, S)) /\ Good(Abandon(kk, S))
  <2>1. Orphan(kk, S) \in KernelState /\ Abandon(kk, S) \in KernelState
    BY <1>1, <1>2, OrphanKernelObjectsType, DeleteCListEntriesType
  <2>2. Untouched(kk, Orphan(kk, S)) /\ Untouched(kk, Abandon(kk, S))
    BY <1>1, <1>2, OrphanObjectsKeepLives, DeleteCListKeepsLives
  <2> HIDE DEF Orphan, Abandon
  <2> QED
    BY <1>2, <2>1, <2>2 DEF Untouched, Cleaned
<1>3. ASSUME NEW kk, Good(kk)
      PROVE  Good(DeleteKeys(kk))
  <2> DEFINE kl == [kk EXCEPT !.initialized = kk.initialized \ {v}]
  <2>1. /\ kl \in KernelState /\ kl.initialized = kk.initialized \ {v}
        /\ kl.liveIDs = kk.liveIDs /\ kl.gcActions = kk.gcActions
        /\ kl.terminatedVats = kk.terminatedVats /\ kl.terminated = kk.terminated
    BY <1>3 DEF KernelState
  <2> HIDE DEF kl, v
  <2>2. Good(kl)
    BY <1>1, <1>3, <2>1 DEF Cleaned
  <2> QED
    BY <2>2 DEF kl
<1>4. ASSUME NEW kk, Good(kk)
      PROVE  Good(Forget(kk))
  <2>1. rest \in Seq(Vats)
    BY <1>1
  <2> HIDE DEF rest
  <2> DEFINE kl == [kk EXCEPT !.terminatedVats = rest, !.terminated = rest]
  <2>4. /\ kl \in KernelState /\ kl.liveIDs = kk.liveIDs
        /\ kl.gcActions = kk.gcActions /\ kl.initialized = kk.initialized
        /\ kl.terminatedVats = rest /\ kl.terminated = rest
    BY <1>4, <2>1 DEF KernelState
  <2> HIDE DEF kl
  <2>5. Good(kl)
    BY <1>4, <2>4 DEF Cleaned, rest
  <2> QED
    BY <2>5 DEF kl, rest
<1>5. k.exports[v] \in SUBSET Objects /\ k.imports[v] \in SUBSET Objects
  BY <1>1 DEF KernelState
<1> HIDE DEF Good
<1>6. Good(Forget(DeleteKeys(Abandon(Orphan(k, k.exports[v]), k.imports[v]))))
  <2>1. Good(Abandon(Orphan(k, k.exports[v]), k.imports[v]))
    <3>1. Good(Orphan(k, k.exports[v]))
      BY <1>1, <1>2, <1>5
    <3> HIDE DEF Orphan, Abandon
    <3> QED
      BY <3>1, <1>2, <1>5
  <2> HIDE DEF Orphan, Abandon, DeleteKeys, Forget
  <2> QED
    BY <2>1, <1>3, <1>4
<1>7. \A o \in k.exports[v] : Good(Orphan(k, {o}))
  BY <1>1, <1>2, <1>5
<1>8. \A o \in k.imports[v] : Good(Abandon(k, {o}))
  BY <1>1, <1>2, <1>5
<1>9. Good(IF v \in k.initialized THEN DeleteKeys(k) ELSE Forget(k))
  BY <1>1, <1>3, <1>4
<1>10. \E kk : Good(kk) /\ FinishCrank(kk)
  BY <1>6, <1>7, <1>8, <1>9 DEF CleanupTerminatedVat
<1> QED
  BY <1>10 DEF Good, Cleaned

LEMMA CleanedDeadDead ==
  ASSUME TypeOK, NEW kk, Cleaned(kk), DeadAreNotLive(k)
  PROVE  DeadAreNotLive(kk)
<1>1. Elements(Tail(k.terminatedVats)) \subseteq Elements(k.terminatedVats)
  <2>1. NVats \in Vats /\ k.terminatedVats \in Seq(Vats) /\ k.terminatedVats # <<>>
    BY VatsAssumption DEF Vats, TypeOK, KernelState, Cleaned
  <2> QED
    BY <2>1, ListElements
<1> QED
  BY <1>1 DEF Cleaned, DeadAreNotLive

LEMMA CleanupTerminatedVatLives ==
  ASSUME LivesInv, CleanupTerminatedVat PROVE LivesInv'
BY CleanupTerminatedVatLists, CleanedDeadDead, FinishCrankLives DEF LivesInv

\* The examined actions are taken off, and what is delivered adds none.
LEMMA ProcessGCActionsLists ==
  ASSUME TypeOK, ProcessGCActions
  PROVE  \E kk \in KernelState :
           /\ SameVats(k, kk) /\ kk.gcActions \subseteq k.gcActions
           /\ \/ k' = kk /\ UNCHANGED <<saved, crank>>
              \/ FinishCrank(kk)
              \/ \E type \in {"dropExports", "retireExports", "retireImports"} :
                   \E v \in Vats : BeginDelivery(kk, type, v)
<1> DEFINE todo == GCActionsToProcess(k)
           krefs == {a.kref : a \in todo}
           v == (CHOOSE a \in todo : TRUE).vat
           pruned == [k EXCEPT !.gcActions = @ \ GCActionsExamined(k)]
           Fewer(kk) == /\ kk \in KernelState
                        /\ SameVats(k, kk) /\ kk.gcActions \subseteq k.gcActions
<1>1. k \in KernelState /\ Fewer(pruned)
  BY DEF LivesInv, TypeOK, KernelState, SameVats
<1>2. todo \subseteq GCAction
  BY <1>1 DEF GCActionsToProcess, KernelState
<1>3. krefs \in SUBSET Objects
  BY <1>2 DEF GCAction
<1>4. todo # {} => v \in Vats
  BY <1>2 DEF GCAction
<1> HIDE DEF todo, pruned, v, krefs
<1>5. Fewer([k EXCEPT !.failed = TRUE])
  BY <1>1 DEF SameVats, KernelState
<1>6. ASSUME todo # {}
      PROVE  /\ Fewer(ClearReachableFlags(pruned, v, krefs))
             /\ Fewer(DeleteCListEntries(DeleteKernelObjects(pruned, krefs), v, krefs))
             /\ Fewer(DeleteCListEntries(pruned, v, krefs))
  <2>1. v \in Vats
    BY <1>4, <1>6
  <2> DEFINE deleted == DeleteKernelObjects(pruned, krefs)
  <2>2. deleted \in KernelState /\ Untouched(pruned, deleted)
    BY <1>1, <1>3, DeleteKernelObjectsType, DeleteObjectsKeepLives
  <2> HIDE DEF deleted
  <2>3. /\ DeleteCListEntries(deleted, v, krefs) \in KernelState
        /\ Untouched(deleted, DeleteCListEntries(deleted, v, krefs))
    BY <1>3, <2>1, <2>2, DeleteCListEntriesType, DeleteCListKeepsLives
  <2>4. /\ ClearReachableFlags(pruned, v, krefs) \in KernelState
        /\ Untouched(pruned, ClearReachableFlags(pruned, v, krefs))
        /\ DeleteCListEntries(pruned, v, krefs) \in KernelState
        /\ Untouched(pruned, DeleteCListEntries(pruned, v, krefs))
    BY <1>1, <1>3, <2>1, ClearReachableFlagsType, ClearReachableKeepsLives,
       DeleteCListEntriesType, DeleteCListKeepsLives
  <2> QED
    BY <1>1, <2>2, <2>3, <2>4 DEF Untouched, SameVats, deleted
<1>7. \/ k' = [k EXCEPT !.failed = TRUE] /\ UNCHANGED <<saved, crank>>
      \/ FinishCrank(pruned)
      \/ /\ todo # {}
         /\ \/ BeginDelivery(ClearReachableFlags(pruned, v, krefs), "dropExports", v)
            \/ BeginDelivery(DeleteCListEntries(DeleteKernelObjects(pruned, krefs),
                                                v, krefs), "retireExports", v)
            \/ BeginDelivery(DeleteCListEntries(pruned, v, krefs), "retireImports", v)
  BY DEF ProcessGCActions, todo, pruned, v, krefs
<1> QED
  BY <1>1, <1>4, <1>5, <1>6, <1>7

LEMMA ProcessGCActionsLives == ASSUME LivesInv, ProcessGCActions PROVE LivesInv'
<1>1. {"dropExports", "retireExports", "retireImports"} \subseteq DeliveryTypes
  BY DEF DeliveryTypes
<1>2. PICK kk \in KernelState :
        /\ SameVats(k, kk)
        /\ \/ k' = kk /\ UNCHANGED <<saved, crank>>
           \/ FinishCrank(kk)
           \/ \E type \in DeliveryTypes : \E v \in Vats : BeginDelivery(kk, type, v)
  BY <1>1, ProcessGCActionsLists DEF LivesInv
<1>3. TypeOK'
  BY ProcessGCActionsType DEF LivesInv
<1>4. DeadAreNotLive(kk)
  BY <1>2, SameVatsStays DEF LivesInv
<1>5. ASSUME k' = kk, UNCHANGED <<saved, crank>>
      PROVE  LivesInv'
  BY <1>2, <1>3, <1>5, SyscallLives
<1> QED
  BY <1>2, <1>4, <1>5, FinishCrankLives, BeginDeliveryLives

LEMMA DeliverSendLists ==
  ASSUME TypeOK, DeliverSend
  PROVE  \E kk \in KernelState :
           /\ Untouched(k, kk)
           /\ FinishCrank(kk) \/ \E v \in Vats : BeginDelivery(kk, "message", v)
<1> DEFINE m == Head(k.runQueue)
           v == OwnerOfKernelObject(k, m.target)
           taken == [k EXCEPT !.runQueue = Tail(@)]
           released == DecrementSendEventRefCount(taken, m)
           target == MapKernelSlotToVatSlot(released, v, m.target)
           mapped == MapKernelSlotToVatSlot(target, v, m.arg)
<1>1. k \in KernelState /\ m \in Message /\ Tail(k.runQueue) \in Seq(Message)
  BY QueuesType DEF DeliverSend, LivesInv, TypeOK, KernelState
<1>2. taken \in KernelState /\ Untouched(k, taken)
  BY <1>1 DEF KernelState, Untouched
<1> HIDE DEF taken
<1>3. released \in KernelState /\ Untouched(taken, released)
  BY <1>1, <1>2, DecrementSendEventType, DecrementSendEventKeepsLives
<1>4. v \in Vats \cup {NoVat}
  BY <1>1 DEF OwnerOfKernelObject, KernelState, Message
<1>5. m.target \in Objects \cup {NoObject} /\ m.arg \in Objects \cup {NoObject}
  BY <1>1 DEF Message
<1> HIDE DEF m, v, released
<1>6. ASSUME v # NoVat
      PROVE  mapped \in KernelState /\ Untouched(k, mapped)
  <2>1. v \in Vats
    BY <1>4, <1>6
  <2>2. target \in KernelState /\ Untouched(released, target)
    BY <1>3, <1>5, <2>1, MapKernelSlotToVatSlotType, MapKernelSlotKeepsLives
  <2> HIDE DEF target
  <2>3. mapped \in KernelState /\ Untouched(target, mapped)
    BY <1>5, <2>1, <2>2, MapKernelSlotToVatSlotType, MapKernelSlotKeepsLives
  <2> QED
    BY <1>2, <1>3, <2>2, <2>3 DEF Untouched
<1>7. IF v = NoVat THEN FinishCrank(released) ELSE BeginDelivery(mapped, "message", v)
  BY DEF DeliverSend, m, v, released, taken, mapped, target
<1> HIDE DEF mapped
<1> QED
  BY <1>2, <1>3, <1>4, <1>6, <1>7 DEF Untouched

LEMMA DeliverSendLives == ASSUME LivesInv, DeliverSend PROVE LivesInv'
<1>1. PICK kk \in KernelState :
        /\ Untouched(k, kk)
        /\ FinishCrank(kk) \/ \E v \in Vats : BeginDelivery(kk, "message", v)
  BY DeliverSendLists DEF LivesInv
<1>2. SameVats(k, kk) /\ DeadAreNotLive(kk) /\ "message" \in DeliveryTypes
  BY <1>1, UntouchedStays DEF LivesInv, SameVats, Untouched, DeliveryTypes
<1> QED
  BY <1>1, <1>2, FinishCrankLives, BeginDeliveryLives

\* A syscall touches nothing of it, or retires an export, or ends another vat.
RetiresExport(kk) ==
  /\ MayCollect
  /\ \E o \in k.exports[crank.vat] :
       kk = RetireKernelObjects(DeleteCListEntries(k, crank.vat, {o}), {o})
EndsAnother(kk) ==
  /\ crank.vat = AdminVat /\ crank.type = "message"
  /\ \E w \in Vats \ {AdminVat} : \E cached \in BOOLEAN :
       kk = TerminateVat(k, w, cached, NoObject)

LEMMA VatStepLists ==
  ASSUME TypeOK, VatStep
  PROVE  /\ crank.vat \in Vats
         /\ \E kk : /\ Syscall(kk)
                    /\ Untouched(k, kk) \/ RetiresExport(kk) \/ EndsAnother(kk)
<1> DEFINE v == crank.vat
<1>1. v \in Vats /\ k \in KernelState
  BY DeliveryVat DEF VatStep, SyscallSend, SyscallDropImports, SyscallRetireImports,
     SyscallRetireExports, SyscallAbandonExports, AdminTerminatesVat, Syscall,
     LivesInv, TypeOK
<1> DEFINE Does(kk) == /\ Syscall(kk)
                       /\ Untouched(k, kk) \/ RetiresExport(kk) \/ EndsAnother(kk)
<1>2. ASSUME NEW o \in Objects, NEW p \in Objects \cup {NoObject}, SyscallSend(o, p)
      PROVE  \E kk : Does(kk)
  <2> DEFINE m == [target |-> o, arg |-> p]
             target == MapVatSlotToKernelSlot(k, v, o)
             mapped == MapVatSlotToKernelSlot(target, v, p)
  <2>1. m \in Message
    BY DEF Message
  <2>2. target \in KernelState /\ Untouched(k, target)
    BY <1>1, MapVatSlotToKernelSlotType, MapVatSlotKeepsLives
  <2> HIDE DEF target, m
  <2>3. mapped \in KernelState /\ Untouched(target, mapped)
    BY <1>1, <2>2, MapVatSlotToKernelSlotType, MapVatSlotKeepsLives
  <2> HIDE DEF mapped
  <2>4. Untouched(mapped, DoSend(mapped, m))
    BY <2>1, <2>3, DoSendKeepsLives
  <2>5. Untouched(k, DoSend(mapped, m))
    BY <2>2, <2>3, <2>4 DEF Untouched
  <2>6. Syscall(DoSend(mapped, m))
    BY <1>2 DEF SyscallSend, m, mapped, target
  <2> QED
    BY <2>5, <2>6
<1>3. ASSUME NEW o \in Objects, SyscallRetireExports(o)
      PROVE  \E kk : Does(kk)
  BY <1>3 DEF SyscallRetireExports, RetiresExport
<1>4. ASSUME NEW o \in Objects,
             SyscallDropImports(o) \/ SyscallRetireImports(o) \/ SyscallAbandonExports(o)
      PROVE  \E kk : Does(kk)
  <2> HIDE DEF v
  <2>1. /\ Untouched(k, ClearReachableFlags(k, v, {o}))
        /\ Untouched(k, DeleteCListEntries(k, v, {o}))
        /\ Untouched(k, OrphanKernelObjects(k, {o}, v))
    BY <1>1, ClearReachableKeepsLives, DeleteCListKeepsLives, OrphanObjectsKeepLives
  <2>2. \/ Syscall(ClearReachableFlags(k, v, {o}))
        \/ Syscall(DeleteCListEntries(k, v, {o}))
        \/ Syscall(OrphanKernelObjects(k, {o}, v))
    BY <1>4 DEF SyscallDropImports, SyscallRetireImports, SyscallAbandonExports, v
  <2> QED
    BY <2>1, <2>2
<1>5. ASSUME NEW w \in Vats, AdminTerminatesVat(w)
      PROVE  \E kk : Does(kk)
  BY <1>5 DEF AdminTerminatesVat, EndsAnother
<1> QED
  BY <1>1, <1>2, <1>3, <1>4, <1>5 DEF VatStep

LEMMA VatStepLives == ASSUME LivesInv, VatStep PROVE LivesInv'
<1>1. k \in KernelState /\ TypeOK'
  BY VatStepType DEF LivesInv, TypeOK
<1>2. PICK kk : /\ crank.vat \in Vats /\ Syscall(kk)
                /\ Untouched(k, kk) \/ RetiresExport(kk) \/ EndsAnother(kk)
  BY VatStepLists DEF LivesInv
<1>3. k' = kk /\ saved' = saved /\ crank'.type = crank.type
  BY <1>2 DEF Syscall, LivesInv, TypeOK, CrankType, Idle
<1>4. CASE Untouched(k, kk)
  <2>1. SameVats(k, k')
    BY <1>3, <1>4 DEF Untouched, SameVats
  <2> QED
    BY <1>1, <1>3, <2>1, SyscallLives
<1>5. CASE RetiresExport(kk)
  <2>1. PICK o \in k.exports[crank.vat] :
          kk = RetireKernelObjects(DeleteCListEntries(k, crank.vat, {o}), {o})
    BY <1>5 DEF RetiresExport
  <2>2. {o} \in SUBSET Objects
    BY <1>1, <1>2 DEF KernelState
  <2>3. /\ DeleteCListEntries(k, crank.vat, {o}) \in KernelState
        /\ Untouched(k, DeleteCListEntries(k, crank.vat, {o}))
    BY <1>1, <1>2, <2>2, DeleteCListEntriesType, DeleteCListKeepsLives
  <2>4. SameVats(DeleteCListEntries(k, crank.vat, {o}), kk)
    BY <2>1, <2>2, <2>3, RetireObjectsKeepLives
  <2>5. SameVats(k, k')
    BY <1>3, <2>3, <2>4 DEF Untouched, SameVats
  <2> QED
    BY <1>1, <1>3, <2>5, SyscallLives
<1>6. CASE EndsAnother(kk)
  <2>1. DeadAreNotLive(k') /\ DeadAreNotLive(saved')
    BY <1>1, <1>3, <1>6, TerminateVatKeepsDeadDead DEF EndsAnother, LivesInv
  <2>2. crank'.type \notin UpgradeDeliveries
    BY <1>3, <1>6 DEF EndsAnother, UpgradeDeliveries
  <2> QED
    BY <1>1, <2>1, <2>2 DEF LivesInv
<1> QED
  BY <1>2, <1>4, <1>5, <1>6

LEMMA EndDeliveryLives ==
  ASSUME LivesInv, EndDelivery, "afterAdminTerminate" \notin Faults
  PROVE  LivesInv'
<1>1. k \in KernelState /\ DeadAreNotLive(k)
  BY DEF LivesInv, TypeOK
<1>2. CASE CompleteDelivery
  <2>1. ReportUpgrade(k) \in KernelState /\ DeadAreNotLive(ReportUpgrade(k))
    BY <1>1, ReportUpgradeType, ReportKeepsDeadDead
  <2>2. FinishCrank(k) \/ FinishCrank(ReportUpgrade(k))
    BY <1>2 DEF CompleteDelivery
  <2> QED
    BY <1>1, <2>1, <2>2, FinishCrankLives
<1>3. ASSUME NEW info \in Objects \cup {NoObject}, ExitDelivery(info)
      PROVE  LivesInv'
  <2> DEFINE mapped == MapVatSlotToKernelSlot(k, crank.vat, info)
             ended == TerminateVat(mapped, crank.vat, FALSE, info)
  <2>1. crank.vat \in Vats /\ FinishCrank(ended)
    BY <1>3, DeliveryVat DEF ExitDelivery, MayRunUserCode, LivesInv
  <2>2. mapped \in KernelState /\ DeadAreNotLive(mapped)
    BY <1>1, <2>1, MapVatSlotToKernelSlotType, MapVatSlotKeepsLives, UntouchedStays
  <2> HIDE DEF mapped
  <2>3. ended \in KernelState /\ DeadAreNotLive(ended)
    BY <2>1, <2>2, TerminateVatType, TerminateVatKeepsDeadDead
  <2> QED
    BY <2>1, <2>3, FinishCrankLives
<1>4. ASSUME NEW cached \in BOOLEAN, NEW info \in Objects \cup {NoObject},
             AbortDelivery(cached, info)
      PROVE  LivesInv'
  <2>1. crank.vat \in Vats /\ k.terminatedVats = saved.terminatedVats
    BY <1>4, DeliveryVat DEF AbortDelivery, MayAbort, LivesInv
  <2>2. RollbackCrank \in KernelState /\ DeadAreNotLive(RollbackCrank)
    BY <2>1, RollbackLives
  <2> DEFINE ended == TerminateVat(RollbackCrank, crank.vat, cached, info)
  <2>3. ended \in KernelState /\ DeadAreNotLive(ended)
    BY <2>1, <2>2, TerminateVatType, TerminateVatKeepsDeadDead
  <2>4. FinishCrank(ended)
    BY <1>4 DEF AbortDelivery
  <2> QED
    BY <2>3, <2>4, FinishCrankLives
<1>5. CASE AbortUpgrade
  <2>1. k.terminatedVats = saved.terminatedVats
    BY <1>5 DEF AbortUpgrade, LivesInv
  <2>2. RollbackCrank \in KernelState /\ DeadAreNotLive(RollbackCrank)
    BY <2>1, RollbackLives
  <2>3. /\ ReportUpgrade(RollbackCrank) \in KernelState
        /\ DeadAreNotLive(ReportUpgrade(RollbackCrank))
    BY <2>2, ReportUpgradeType, ReportKeepsDeadDead
  <2>4. FinishCrank(ReportUpgrade(RollbackCrank))
    BY <1>5 DEF AbortUpgrade
  <2> QED
    BY <2>3, <2>4, FinishCrankLives
<1>6. CASE StartNewIncarnation
  <2> DEFINE v == crank.vat
  <2>1. crank # Idle /\ crank.type \in UpgradeDeliveries
    BY <1>6 DEF StartNewIncarnation, Idle, UpgradeDeliveries
  <2>2. v \in Vats
    BY <2>1, DeliveryVat DEF LivesInv
  <2>3. NonDurableObjectExports(v) \subseteq Objects
    BY <1>1, <2>2 DEF NonDurableObjectExports, KernelState
  <2>4. Untouched(k, k') /\ saved' = saved
    BY <1>1, <1>6, <2>2, <2>3, OrphanObjectsKeepLives DEF StartNewIncarnation
  <2>5. TypeOK'
    BY <1>6, EndDeliveryType DEF LivesInv, EndDelivery
  <2>6. SameVats(k, k')
    BY <2>4 DEF Untouched, SameVats
  <2> QED
    BY <2>1, <2>4, <2>5, <2>6, SyscallLives
<1> QED
  BY <1>2, <1>3, <1>4, <1>5, <1>6 DEF EndDelivery

LEMMA InitLives == Init => LivesInv
<1> SUFFICES ASSUME Init
             PROVE  LivesInv
  OBVIOUS
<1>1. TypeOK
  BY InitTypeOK
<1>2. Elements(<<>>) = {}
  BY DEF Elements
<1>3. DeadAreNotLive(k) /\ saved = k /\ crank.type \notin UpgradeDeliveries
  BY <1>2 DEF Init, DeadAreNotLive, Idle, UpgradeDeliveries
<1> QED
  BY <1>1, <1>3 DEF LivesInv

LEMMA LivesInvInductive ==
  ASSUME "afterAdminTerminate" \notin Faults, LivesInv, [Next]_vars
  PROVE  LivesInv'
<1>1. CASE KernelStep
  BY <1>1, ProcessAcceptanceMessageLives, CleanupTerminatedVatLives,
     ProcessGCActionsLives, DeliverSendLives DEF KernelStep
<1>2. CASE VatStep
  BY <1>2, VatStepLives
<1>3. CASE EndDelivery
  BY <1>3, EndDeliveryLives
<1>4. CASE HostStep
  BY <1>4, HostStepLives
<1>5. CASE UNCHANGED vars
  BY <1>5 DEF vars, LivesInv, TypeOK
<1> QED
  BY <1>1, <1>2, <1>3, <1>4, <1>5 DEF Next

-----------------------------------------------------------------------------
(* When vatAdmin fails after it terminated another vat, the two lists come *)
(* apart, and the end of vatAdmin itself makes them one again, with a live *)
(* vat on it: the invariant LiveVatsAreNotTerminated, whatever may fail.   *)

ListsInv(kk) ==
  /\ Elements(kk.terminated) \subseteq Elements(kk.terminatedVats)
  /\ AdminVat \in kk.liveIDs =>
       /\ AdminVat \in kk.initialized
       /\ kk.terminated = kk.terminatedVats
       /\ DeadAreNotLive(kk)

\* The inductive invariant: only a message to vatAdmin makes the list in RAM
\* longer than it was at the savepoint, and never by vatAdmin.
AdminInv ==
  /\ TypeOK
  /\ ListsInv(k)
  /\ ListsInv(saved)
  /\ Elements(saved.terminated) \subseteq Elements(k.terminatedVats)
  /\ AdminVat \in saved.liveIDs => AdminVat \notin Elements(k.terminatedVats)
  /\ k.terminatedVats # saved.terminatedVats =>
       crank.vat = AdminVat /\ crank.type = "message"

LEMMA SameVatsLists ==
  ASSUME NEW kk, NEW kl, SameVats(kk, kl) \/ Untouched(kk, kl), ListsInv(kk)
  PROVE  ListsInv(kl)
BY DEF SameVats, Untouched, ListsInv, DeadAreNotLive

\* What a vat's end makes of the lists.
LEMMA MarkVatLists ==
  ASSUME NEW kk \in KernelState, NEW v \in Vats, NEW cached \in BOOLEAN, VatIsAlive(kk, v)
  PROVE  LET kl == MarkVatAsTerminated(kk, v, cached)
         IN /\ kl.liveIDs = kk.liveIDs \ {v} /\ kl.initialized = kk.initialized
            /\ kl.terminated = kl.terminatedVats
            /\ Elements(kl.terminatedVats) = Elements(kk.terminatedVats) \cup {v}
<1> DEFINE ended == Append(kk.terminatedVats, v)
           kl == MarkVatAsTerminated(kk, v, cached)
<1>1. Elements(ended) = Elements(kk.terminatedVats) \cup {v}
  BY ListElements DEF KernelState
<1>2. /\ kl.liveIDs = kk.liveIDs \ {v} /\ kl.initialized = kk.initialized
      /\ kl.terminatedVats = ended /\ kl.terminated = ended
  BY DEF MarkVatAsTerminated, KernelState
<1> HIDE DEF ended, kl
<1>3. /\ kl.liveIDs = kk.liveIDs \ {v} /\ kl.initialized = kk.initialized
      /\ kl.terminated = kl.terminatedVats
      /\ Elements(kl.terminatedVats) = Elements(kk.terminatedVats) \cup {v}
  BY <1>1, <1>2
<1> QED
  BY <1>3 DEF kl

LEMMA MarkVatKeepsLists ==
  ASSUME NEW kk \in KernelState, NEW v \in Vats, NEW cached \in BOOLEAN, ListsInv(kk)
  PROVE  ListsInv(MarkVatAsTerminated(kk, v, cached))
<1> DEFINE kl == MarkVatAsTerminated(kk, v, cached)
<1>1. CASE ~VatIsAlive(kk, v)
  BY <1>1 DEF MarkVatAsTerminated
<1>2. CASE VatIsAlive(kk, v)
  <2>1. /\ kl.liveIDs = kk.liveIDs \ {v} /\ kl.initialized = kk.initialized
        /\ kl.terminated = kl.terminatedVats
        /\ Elements(kl.terminatedVats) = Elements(kk.terminatedVats) \cup {v}
    BY <1>2, MarkVatLists
  <2> HIDE DEF kl
  <2>2. ListsInv(kl)
    BY <2>1 DEF ListsInv, DeadAreNotLive
  <2> QED
    BY <2>2 DEF kl
<1> QED
  BY <1>1, <1>2

\* vatAdmin is told of the end, which changes no list.
LEMMA NoticeKeepsLists ==
  ASSUME NEW kk \in KernelState, NEW v \in Vats, NEW cached \in BOOLEAN,
         NEW info \in Objects \cup {NoObject},
         ListsInv(MarkVatAsTerminated(kk, v, cached))
  PROVE  ListsInv(TerminateVat(kk, v, cached, info))
<1> DEFINE marked == MarkVatAsTerminated(kk, v, cached)
<1>1. marked \in KernelState
  BY MarkVatAsTerminatedType
<1> HIDE DEF marked
<1>2. Untouched(marked, DoSend(marked, [target |-> AdminVat, arg |-> info]))
  BY <1>1, NoticeType, DoSendKeepsLives
<1> QED
  BY <1>2, SameVatsLists DEF TerminateVat, marked

LEMMA ReportKeepsLists ==
  ASSUME NEW kk \in KernelState, ListsInv(kk)
  PROVE  ReportUpgrade(kk) \in KernelState /\ ListsInv(ReportUpgrade(kk))
BY NoticeType, DoSendKeepsLives, SameVatsLists, ReportUpgradeType DEF ReportUpgrade

-----------------------------------------------------------------------------
\* How a crank ends, begins and goes on.

LEMMA SettledAdmin ==
  ASSUME TypeOK', ListsInv(k'), saved' = k'
  PROVE  AdminInv'
BY DEF AdminInv, ListsInv, DeadAreNotLive

LEMMA FinishCrankAdmin ==
  ASSUME NEW kk \in KernelState, ListsInv(kk), FinishCrank(kk)
  PROVE  AdminInv'
<1>1. TypeOK'
  BY FinishCrankType
<1>2. ListsInv(ProcessRefcounts(kk))
  BY ProcessRefcountsKeepsLives, SameVatsLists
<1>3. k' = ProcessRefcounts(kk) /\ saved' = k'
  BY DEF FinishCrank
<1> QED
  BY <1>1, <1>2, <1>3, SettledAdmin

LEMMA BeginDeliveryAdmin ==
  ASSUME AdminInv, NEW kk \in KernelState, NEW type \in DeliveryTypes, NEW v \in Vats,
         SameVats(k, kk), BeginDelivery(kk, type, v)
  PROVE  AdminInv'
<1>1. TypeOK'
  BY BeginDeliveryType DEF AdminInv
<1>2. k' = kk /\ saved' = k
  BY DEF BeginDelivery
<1>3. ListsInv(k') /\ ListsInv(saved')
  BY <1>2, SameVatsLists DEF AdminInv
<1>4. k'.terminatedVats = saved'.terminatedVats
  BY <1>2 DEF SameVats
<1> QED
  BY <1>1, <1>3, <1>4 DEF AdminInv, ListsInv, DeadAreNotLive

LEMMA SyscallAdmin ==
  ASSUME AdminInv, TypeOK', SameVats(k, k') \/ Untouched(k, k'), saved' = saved,
         \/ crank'.vat = crank.vat /\ crank'.type = crank.type
         \/ crank.type # "message"
  PROVE  AdminInv'
<1>1. ListsInv(k') /\ ListsInv(saved') /\ k'.terminatedVats = k.terminatedVats
  BY SameVatsLists DEF AdminInv, SameVats, Untouched
<1> QED
  BY <1>1 DEF AdminInv

\* Back to the savepoint, when the crank ended no vat.
LEMMA RollbackAdmin ==
  ASSUME AdminInv, k.terminatedVats = saved.terminatedVats
  PROVE  RollbackCrank \in KernelState /\ ListsInv(RollbackCrank)
<1>1. RollbackCrank \in KernelState
  BY RollbackType DEF AdminInv
<1>2. Untouched(saved, RollbackCrank)
  BY DEF RollbackCrank, Untouched, AdminInv, TypeOK, KernelState
<1> QED
  BY <1>1, <1>2, SameVatsLists DEF AdminInv

-----------------------------------------------------------------------------
\* Each action preserves AdminInv.

LEMMA HostStepAdmin == ASSUME AdminInv, HostStep PROVE AdminInv'
<1>1. TypeOK /\ TypeOK' /\ k \in KernelState
  BY HostStepType DEF AdminInv, TypeOK
<1>2. ASSUME NEW v \in Vats, QueueToVatRoot(v)
      PROVE  AdminInv'
  <2>1. [target |-> v, arg |-> NoObject] \in Message
    BY ConstantsType DEF Message
  <2>2. Untouched(k, k') /\ saved' = k'
    BY <1>1, <1>2, <2>1, DoSendKeepsLives DEF QueueToVatRoot
  <2> QED
    BY <1>1, <2>2, SameVatsLists, SettledAdmin DEF AdminInv
<1>3. ASSUME Restart
      PROVE  AdminInv'
  <2>1. /\ k'.liveIDs = k.liveIDs /\ k'.initialized = k.initialized
        /\ k'.terminatedVats = k.terminated /\ k'.terminated = k.terminated
        /\ saved' = k'
    BY <1>1, <1>3 DEF Restart, KernelState
  <2>2. ListsInv(k')
    BY <2>1 DEF ListsInv, DeadAreNotLive, AdminInv
  <2> QED
    BY <1>1, <2>1, <2>2, SettledAdmin
<1>4. ASSUME NEW v \in Vats, DeliverBringOutYourDead(v) \/ DeliverUpgradeVat(v)
      PROVE  AdminInv'
  <2>1. "bringOutYourDead" \in DeliveryTypes /\ "oldIncarnation" \in DeliveryTypes
    BY DEF DeliveryTypes, UpgradeDeliveries
  <2>2. SameVats(k, k)
    BY DEF SameVats
  <2>3. PICK type \in DeliveryTypes : BeginDelivery(k, type, v)
    BY <1>4, <2>1 DEF DeliverBringOutYourDead, DeliverUpgradeVat
  <2> QED
    BY <1>1, <2>2, <2>3, BeginDeliveryAdmin
<1> QED
  BY <1>2, <1>3, <1>4 DEF HostStep

LEMMA KernelStepAdmin == ASSUME AdminInv, KernelStep PROVE AdminInv'
<1>1. TypeOK
  BY DEF AdminInv
<1>2. CASE ProcessAcceptanceMessage
  BY <1>1, <1>2, ProcessAcceptanceMessageLists, SameVatsLists, FinishCrankAdmin
  DEF AdminInv
<1>3. CASE CleanupTerminatedVat
  <2>1. PICK kk \in KernelState : FinishCrank(kk) /\ Cleaned(kk)
    BY <1>1, <1>3, CleanupTerminatedVatLists
  <2>2. ListsInv(kk)
    <3>1. DeadAreNotLive(k) => DeadAreNotLive(kk)
      BY <1>1, <2>1, CleanedDeadDead
    <3> QED
      BY <2>1, <3>1 DEF Cleaned, ListsInv, DeadAreNotLive, AdminInv
  <2> QED
    BY <2>1, <2>2, FinishCrankAdmin
<1>4. CASE ProcessGCActions
  <2>1. {"dropExports", "retireExports", "retireImports"} \subseteq DeliveryTypes
    BY DEF DeliveryTypes
  <2>2. PICK kk \in KernelState :
          /\ SameVats(k, kk)
          /\ \/ k' = kk /\ UNCHANGED <<saved, crank>>
             \/ FinishCrank(kk)
             \/ \E type \in DeliveryTypes : \E v \in Vats : BeginDelivery(kk, type, v)
    BY <1>1, <1>4, <2>1, ProcessGCActionsLists
  <2>3. ListsInv(kk)
    BY <2>2, SameVatsLists DEF AdminInv
  <2>4. TypeOK'
    BY <1>1, <1>4, ProcessGCActionsType
  <2>5. ASSUME k' = kk, UNCHANGED <<saved, crank>>
        PROVE  AdminInv'
    BY <2>2, <2>4, <2>5, SyscallAdmin
  <2> QED
    BY <2>2, <2>3, <2>5, FinishCrankAdmin, BeginDeliveryAdmin
<1>5. CASE DeliverSend
  <2>1. PICK kk \in KernelState :
          /\ Untouched(k, kk)
          /\ FinishCrank(kk) \/ \E v \in Vats : BeginDelivery(kk, "message", v)
    BY <1>1, <1>5, DeliverSendLists
  <2>2. SameVats(k, kk) /\ ListsInv(kk) /\ "message" \in DeliveryTypes
    BY <2>1, SameVatsLists DEF AdminInv, SameVats, Untouched, DeliveryTypes
  <2> QED
    BY <2>1, <2>2, FinishCrankAdmin, BeginDeliveryAdmin
<1> QED
  BY <1>2, <1>3, <1>4, <1>5 DEF KernelStep

LEMMA VatStepAdmin == ASSUME AdminInv, VatStep PROVE AdminInv'
<1>1. TypeOK /\ k \in KernelState /\ TypeOK'
  BY VatStepType DEF AdminInv, TypeOK
<1>2. PICK kk : /\ crank.vat \in Vats /\ Syscall(kk)
                /\ Untouched(k, kk) \/ RetiresExport(kk) \/ EndsAnother(kk)
  BY <1>1, VatStepLists
<1>3. /\ k' = kk /\ saved' = saved
      /\ crank'.type = crank.type /\ crank'.vat = crank.vat
  BY <1>1, <1>2 DEF Syscall, TypeOK, CrankType, Idle
<1>4. CASE Untouched(k, kk)
  BY <1>1, <1>3, <1>4, SyscallAdmin
<1>5. CASE RetiresExport(kk)
  <2>1. PICK o \in k.exports[crank.vat] :
          kk = RetireKernelObjects(DeleteCListEntries(k, crank.vat, {o}), {o})
    BY <1>5 DEF RetiresExport
  <2>2. {o} \in SUBSET Objects
    BY <1>1, <1>2 DEF KernelState
  <2>3. /\ DeleteCListEntries(k, crank.vat, {o}) \in KernelState
        /\ Untouched(k, DeleteCListEntries(k, crank.vat, {o}))
    BY <1>1, <1>2, <2>2, DeleteCListEntriesType, DeleteCListKeepsLives
  <2>4. SameVats(DeleteCListEntries(k, crank.vat, {o}), kk)
    BY <2>1, <2>2, <2>3, RetireObjectsKeepLives
  <2>5. SameVats(k, k')
    BY <1>3, <2>3, <2>4 DEF Untouched, SameVats
  <2> QED
    BY <1>1, <1>3, <2>5, SyscallAdmin
<1>6. CASE EndsAnother(kk)
  <2>1. PICK w \in Vats \ {AdminVat}, cached \in BOOLEAN :
          kk = TerminateVat(k, w, cached, NoObject)
    BY <1>6 DEF EndsAnother
  <2> DEFINE marked == MarkVatAsTerminated(k, w, cached)
  <2>2. ListsInv(k')
    BY <1>1, <1>3, <2>1, MarkVatKeepsLists, NoticeKeepsLists DEF AdminInv
  <2>3. /\ Elements(k.terminatedVats) \subseteq Elements(marked.terminatedVats)
        /\ Elements(marked.terminatedVats) \subseteq Elements(k.terminatedVats) \cup {w}
    <3>1. CASE VatIsAlive(k, w)
      BY <1>1, <3>1, MarkVatLists
    <3>2. CASE ~VatIsAlive(k, w)
      BY <3>2 DEF MarkVatAsTerminated
    <3> QED
      BY <3>1, <3>2
  <2>4. marked \in KernelState
    BY <1>1, MarkVatAsTerminatedType
  <2> HIDE DEF marked
  <2>5. Untouched(marked, DoSend(marked, [target |-> AdminVat, arg |-> NoObject]))
    BY <2>4, NoticeType, DoSendKeepsLives
  <2>6. k'.terminatedVats = marked.terminatedVats
    BY <1>3, <2>1, <2>5 DEF TerminateVat, Untouched, marked
  <2>7. crank'.vat = AdminVat /\ crank'.type = "message"
    BY <1>3, <1>6 DEF EndsAnother
  <2> QED
    BY <1>1, <1>3, <2>1, <2>2, <2>3, <2>6, <2>7 DEF AdminInv
<1> QED
  BY <1>2, <1>4, <1>5, <1>6

\* An abort that finds the lists apart ends vatAdmin, and nobody else can.
LEMMA AbortDeliveryAdmin ==
  ASSUME AdminInv, NEW cached \in BOOLEAN, NEW info \in Objects \cup {NoObject},
         AbortDelivery(cached, info)
  PROVE  AdminInv'
<1> DEFINE back == RollbackCrank
           marked == MarkVatAsTerminated(back, crank.vat, cached)
           ended == TerminateVat(back, crank.vat, cached, info)
<1>1. crank.vat \in Vats /\ FinishCrank(ended)
  BY DeliveryVat DEF AbortDelivery, AdminInv
<1>2. back \in KernelState
  BY RollbackType DEF AdminInv
<1>3. /\ back.liveIDs = saved.liveIDs /\ back.initialized = saved.initialized
      /\ back.terminated = saved.terminated /\ back.terminatedVats = k.terminatedVats
  BY DEF RollbackCrank, AdminInv, TypeOK, KernelState
<1>4. ListsInv(marked)
  <2>1. CASE k.terminatedVats = saved.terminatedVats
    BY <1>1, <2>1, RollbackAdmin, MarkVatKeepsLists
  <2>2. CASE k.terminatedVats # saved.terminatedVats
    <3>1. crank.vat = AdminVat
      BY <2>2 DEF AdminInv
    <3>2. CASE VatIsAlive(back, AdminVat)
      <4>1. /\ marked.liveIDs = back.liveIDs \ {AdminVat}
            /\ marked.terminated = marked.terminatedVats
        BY <1>1, <1>2, <3>1, <3>2, MarkVatLists
      <4> HIDE DEF marked
      <4> QED
        BY <4>1 DEF ListsInv
    <3>3. CASE ~VatIsAlive(back, AdminVat)
      <4>1. AdminVat \notin saved.liveIDs
        BY <1>3, <3>3 DEF VatIsAlive, IsTerminated, AdminInv, ListsInv
      <4>2. marked = back
        BY <3>1, <3>3 DEF MarkVatAsTerminated
      <4> HIDE DEF marked, back
      <4> QED
        BY <1>3, <4>1, <4>2 DEF ListsInv, AdminInv
    <3> QED
      BY <3>2, <3>3
  <2> QED
    BY <2>1, <2>2
<1>5. ended \in KernelState /\ ListsInv(ended)
  BY <1>1, <1>2, <1>4, TerminateVatType, NoticeKeepsLists
<1> QED
  BY <1>1, <1>5, FinishCrankAdmin

LEMMA EndDeliveryAdmin == ASSUME AdminInv, EndDelivery PROVE AdminInv'
<1>1. k \in KernelState /\ ListsInv(k) /\ TypeOK
  BY DEF AdminInv, TypeOK
<1>2. CASE CompleteDelivery
  <2>1. ReportUpgrade(k) \in KernelState /\ ListsInv(ReportUpgrade(k))
    BY <1>1, ReportKeepsLists
  <2>2. FinishCrank(k) \/ FinishCrank(ReportUpgrade(k))
    BY <1>2 DEF CompleteDelivery
  <2> QED
    BY <1>1, <2>1, <2>2, FinishCrankAdmin
<1>3. ASSUME NEW info \in Objects \cup {NoObject}, ExitDelivery(info)
      PROVE  AdminInv'
  <2> DEFINE mapped == MapVatSlotToKernelSlot(k, crank.vat, info)
             ended == TerminateVat(mapped, crank.vat, FALSE, info)
  <2>1. crank.vat \in Vats /\ FinishCrank(ended)
    BY <1>1, <1>3, DeliveryVat DEF ExitDelivery, MayRunUserCode
  <2>2. mapped \in KernelState /\ ListsInv(mapped)
    BY <1>1, <2>1, MapVatSlotToKernelSlotType, MapVatSlotKeepsLives, SameVatsLists
  <2> HIDE DEF mapped
  <2>3. ended \in KernelState /\ ListsInv(ended)
    BY <2>1, <2>2, TerminateVatType, MarkVatKeepsLists, NoticeKeepsLists
  <2> QED
    BY <2>1, <2>3, FinishCrankAdmin
<1>4. CASE AbortUpgrade
  <2>1. k.terminatedVats = saved.terminatedVats
    BY <1>4 DEF AbortUpgrade, UpgradeDeliveries, AdminInv
  <2>2. RollbackCrank \in KernelState /\ ListsInv(RollbackCrank)
    BY <2>1, RollbackAdmin
  <2>3. /\ ReportUpgrade(RollbackCrank) \in KernelState
        /\ ListsInv(ReportUpgrade(RollbackCrank))
    BY <2>2, ReportKeepsLists
  <2>4. FinishCrank(ReportUpgrade(RollbackCrank))
    BY <1>4 DEF AbortUpgrade
  <2> QED
    BY <2>3, <2>4, FinishCrankAdmin
<1>5. CASE StartNewIncarnation
  <2>1. crank # Idle /\ crank.type # "message"
    BY <1>5 DEF StartNewIncarnation, Idle
  <2>2. crank.vat \in Vats
    BY <1>1, <2>1, DeliveryVat
  <2>3. NonDurableObjectExports(crank.vat) \subseteq Objects
    BY <1>1, <2>2 DEF NonDurableObjectExports, KernelState
  <2>4. Untouched(k, k') /\ saved' = saved
    BY <1>1, <1>5, <2>2, <2>3, OrphanObjectsKeepLives DEF StartNewIncarnation
  <2>5. TypeOK'
    BY <1>1, <1>5, EndDeliveryType DEF EndDelivery
  <2> QED
    BY <2>1, <2>4, <2>5, SyscallAdmin
<1> QED
  BY <1>2, <1>3, <1>4, <1>5, AbortDeliveryAdmin DEF EndDelivery

LEMMA InitAdmin == Init => AdminInv
<1> SUFFICES ASSUME Init
             PROVE  AdminInv
  OBVIOUS
<1>1. TypeOK
  BY InitTypeOK
<1>2. Elements(<<>>) = {}
  BY DEF Elements
<1>3. /\ k.terminated = <<>> /\ k.terminatedVats = <<>> /\ saved = k
      /\ k.liveIDs = Vats /\ k.initialized = Vats
  BY DEF Init
<1>4. ListsInv(k)
  BY <1>2, <1>3 DEF ListsInv, DeadAreNotLive
<1> QED
  BY <1>1, <1>2, <1>3, <1>4 DEF AdminInv

LEMMA AdminInvInductive == AdminInv /\ [Next]_vars => AdminInv'
<1> SUFFICES ASSUME AdminInv, [Next]_vars
             PROVE  AdminInv'
  OBVIOUS
<1>1. CASE UNCHANGED vars
  BY <1>1 DEF vars, AdminInv, ListsInv, DeadAreNotLive, TypeOK
<1> QED
  BY <1>1, KernelStepAdmin, VatStepAdmin, EndDeliveryAdmin, HostStepAdmin DEF Next

\* Whatever fails, the running kernel takes for dead every vat that its
\* database marks for deletion, and as long as vatAdmin lives the two lists
\* are one and no live vat is on it: markVatAsTerminated takes a vat off one
\* list as it puts it on the other (kernelKeeper.js), no abort, upgrade or
\* restart brings back one list without the other, and the one failure that
\* does, of vatAdmin after it terminated another vat, ends vatAdmin.
THEOREM LiveVatsAreNotTerminatedHolds == Spec => []LiveVatsAreNotTerminated
<1>1. AdminInv => LiveVatsAreNotTerminated
  BY DEF AdminInv, ListsInv, DeadAreNotLive, LiveVatsAreNotTerminated
<1> QED
  BY InitAdmin, AdminInvInductive, <1>1, PTL DEF Spec

-----------------------------------------------------------------------------
(***************************************************************************)
(* The owner keys of the object table and the exporters' c-lists agree,    *)
(* for any number of vats and objects: the invariant OwnerMatchesCList.    *)
(*                                                                         *)
(* The invariant is strengthened to TableInv: a kref that was not          *)
(* allocated yet has no owner, no importer and no message that names it,   *)
(* so that a new export is nobody else's; no vat imports what it exports;  *)
(* and a dropExport or retireExport action, however old, names the owner   *)
(* of its object, or an object that has lost its owner: an object never    *)
(* changes hands, so carrying the action out removes both halves.  The     *)
(* same holds of the savepoint, to which an abort returns.                 *)
(***************************************************************************)

OwnersMatch(kk) ==
  \A o \in Objects, v \in Vats : kk.owner[o] = v <=> o \in kk.exports[v]

UnallocatedHasNoOwner(kk) ==
  \A o \in Objects : o >= kk.nextKoid => kk.owner[o] = NoVat

ActionsNameOwner(kk) ==
  \A a \in kk.gcActions :
    /\ a.kref < kk.nextKoid
    /\ a.type # "retireImport" => kk.owner[a.kref] \in {a.vat, NoVat}
    /\ a.type = "retireImport" => kk.owner[a.kref] # a.vat

ImportsAreForeign(kk) ==
  \A v \in Vats : \A o \in kk.imports[v] : o < kk.nextKoid /\ kk.owner[o] # v

Messages(kk) == Elements(kk.acceptanceQueue) \cup Elements(kk.runQueue)

MessagesAllocated(kk) ==
  /\ NVats < kk.nextKoid
  /\ \A m \in Messages(kk) : m.target < kk.nextKoid /\ m.arg < kk.nextKoid

TableInv(kk) ==
  /\ OwnersMatch(kk)
  /\ UnallocatedHasNoOwner(kk)
  /\ ActionsNameOwner(kk)
  /\ ImportsAreForeign(kk)
  /\ MessagesAllocated(kk)

\* The inductive invariant.
OwnerInv == TypeOK /\ TableInv(k) /\ TableInv(saved)

\* The part of the state TableInv speaks of.
SameTable(kk, kl) ==
  /\ kl.owner = kk.owner /\ kl.exports = kk.exports /\ kl.imports = kk.imports
  /\ kl.gcActions = kk.gcActions /\ kl.nextKoid = kk.nextKoid
  /\ kl.acceptanceQueue = kk.acceptanceQueue /\ kl.runQueue = kk.runQueue

\* The same table, but for imports, actions and messages that are gone.
Shrinks(kk, kl) ==
  /\ kl.owner = kk.owner /\ kl.exports = kk.exports /\ kl.nextKoid = kk.nextKoid
  /\ \A v \in Vats : kl.imports[v] \subseteq kk.imports[v]
  /\ kl.gcActions \subseteq kk.gcActions
  /\ Messages(kl) \subseteq Messages(kk)

\* The objects of S lose their owner; actions are added to the set, for the
\* owner of an export or for an importer.
Disowns(kk, kl, S) ==
  /\ kl.owner = [o \in Objects |-> IF o \in S THEN NoVat ELSE kk.owner[o]]
  /\ \A v \in Vats : kl.exports[v] = {o \in kk.exports[v] : o \notin S}
  /\ \A v \in Vats : kl.imports[v] \subseteq kk.imports[v]
  /\ kl.nextKoid = kk.nextKoid
  /\ kl.acceptanceQueue = kk.acceptanceQueue /\ kl.runQueue = kk.runQueue
  /\ \A a \in kl.gcActions \ kk.gcActions :
       IF a.type = "retireImport" THEN a.kref \in kk.imports[a.vat]
                                  ELSE kl.owner[a.kref] = a.vat

LEMMA ShrinksInv ==
  ASSUME NEW kk, NEW kl, TableInv(kk), Shrinks(kk, kl)
  PROVE  TableInv(kl)
BY DEF Shrinks, TableInv, OwnersMatch, UnallocatedHasNoOwner, ActionsNameOwner,
   ImportsAreForeign, MessagesAllocated

LEMMA SameTableInv ==
  ASSUME NEW kk, NEW kl, TableInv(kk), SameTable(kk, kl)
  PROVE  TableInv(kl)
BY ShrinksInv DEF SameTable, Shrinks, Messages

LEMMA DisownsInv ==
  ASSUME NEW kk \in KernelState, NEW kl \in KernelState, NEW S \in SUBSET Objects,
         TableInv(kk), Disowns(kk, kl, S)
  PROVE  TableInv(kl)
<1>1. OwnersMatch(kl)
  <2> SUFFICES ASSUME NEW o \in Objects, NEW v \in Vats
               PROVE  kl.owner[o] = v <=> o \in kl.exports[v]
    BY DEF OwnersMatch
  <2>1. kk.owner[o] = v <=> o \in kk.exports[v]
    BY DEF TableInv, OwnersMatch
  <2> QED
    BY <2>1, ConstantsType DEF Disowns
<1>2. UnallocatedHasNoOwner(kl)
  BY DEF Disowns, TableInv, UnallocatedHasNoOwner
<1>3. ActionsNameOwner(kl)
  <2> SUFFICES ASSUME NEW a \in kl.gcActions
               PROVE  /\ a.kref < kl.nextKoid
                      /\ a.type # "retireImport" => kl.owner[a.kref] \in {a.vat, NoVat}
                      /\ a.type = "retireImport" => kl.owner[a.kref] # a.vat
    BY DEF ActionsNameOwner
  <2>1. a.kref \in Objects /\ a.vat \in Vats /\ kl.nextKoid \in Nat /\ a.kref \in Nat
    BY DEF KernelState, GCAction, Objects
  <2>2. CASE a \in kk.gcActions
    BY <2>1, <2>2, ConstantsType DEF Disowns, TableInv, ActionsNameOwner
  <2>3. CASE a \notin kk.gcActions /\ a.type = "retireImport"
    BY <2>1, <2>3, ConstantsType DEF Disowns, TableInv, ImportsAreForeign
  <2>4. CASE a \notin kk.gcActions /\ a.type # "retireImport"
    <3>1. kl.owner[a.kref] = a.vat
      BY <2>4 DEF Disowns
    <3>2. ~(a.kref >= kl.nextKoid)
      BY <1>2, <2>1, <3>1, ConstantsType DEF UnallocatedHasNoOwner
    <3> QED
      BY <2>1, <2>4, <3>1, <3>2
  <2> QED
    BY <2>2, <2>3, <2>4
<1>4. ImportsAreForeign(kl)
  <2> SUFFICES ASSUME NEW v \in Vats, NEW o \in kl.imports[v]
               PROVE  o < kl.nextKoid /\ kl.owner[o] # v
    BY DEF ImportsAreForeign
  <2>1. o \in Objects /\ o \in kk.imports[v]
    BY DEF Disowns, KernelState
  <2> QED
    BY <2>1, ConstantsType DEF Disowns, TableInv, ImportsAreForeign
<1>5. MessagesAllocated(kl)
  BY DEF Disowns, TableInv, MessagesAllocated, Messages
<1> QED
  BY <1>1, <1>2, <1>3, <1>4, <1>5 DEF TableInv

-----------------------------------------------------------------------------
\* What the operators of KernelObjects do to the table.

LEMMA RefCountsKeepTable ==
  ASSUME NEW kk \in KernelState, NEW S \in SUBSET Objects,
         NEW dReach \in Int, NEW dRecog \in Int
  PROVE  SameTable(kk, SetObjectRefCounts(kk, S, dReach, dRecog))
BY DEF SetObjectRefCounts, SameTable, KernelState

LEMMA DecrementKeepsTable ==
  ASSUME NEW kk \in KernelState, NEW S \in SUBSET Objects, NEW dReach \in {0, 1}
  PROVE  SameTable(kk, DecrementRefCounts(kk, S, dReach))
<1> DEFINE known == {o \in S : KernelObjectExists(kk, o)}
           after == SetObjectRefCounts(kk, known, -dReach, -1)
<1>1. SameTable(kk, after) /\ after \in KernelState
  BY RefCountsKeepTable, SetObjectRefCountsType
<1> HIDE DEF after
<1> QED
  BY <1>1 DEF DecrementRefCounts, SameTable, KernelState, after

LEMMA RefCountStepsKeepTable ==
  ASSUME NEW kk \in KernelState, NEW o \in Objects \cup {NoObject}
  PROVE  /\ SameTable(kk, IncrementRefCount(kk, o))
         /\ SameTable(kk, DecrementRefCount(kk, o))
<1>1. CASE o = NoObject
  BY <1>1 DEF IncrementRefCount, DecrementRefCount, SameTable
<1>2. CASE o \in Objects
  BY <1>2, RefCountsKeepTable, DecrementKeepsTable, ConstantsType
  DEF IncrementRefCount, DecrementRefCount
<1> QED
  BY <1>1, <1>2

LEMMA SetReachableKeepsTable ==
  ASSUME NEW kk \in KernelState, NEW v \in Vats, NEW o \in Objects
  PROVE  SameTable(kk, SetReachableFlag(kk, v, o))
<1> DEFINE flagged == [kk EXCEPT !.reach[v] = @ \cup {o}]
<1>1. flagged \in KernelState /\ SameTable(kk, flagged)
  BY DEF KernelState, SameTable
<1>2. SameTable(flagged, SetObjectRefCounts(flagged, {o}, 1, 0))
  BY <1>1, RefCountsKeepTable
<1> HIDE DEF flagged
<1> QED
  BY <1>1, <1>2 DEF SetReachableFlag, SameTable, flagged

LEMMA ClearReachableKeepsTable ==
  ASSUME NEW kk \in KernelState, NEW v \in Vats, NEW S \in SUBSET Objects
  PROVE  SameTable(kk, ClearReachableFlags(kk, v, S))
<1> DEFINE counted == {o \in S \cap kk.imports[v] \cap kk.reach[v] : KernelObjectExists(kk, o)}
           cleared == [kk EXCEPT !.reach[v] = @ \ S]
           after   == SetObjectRefCounts(cleared, counted, -1, 0)
<1>1. cleared \in KernelState /\ SameTable(kk, cleared)
  BY DEF KernelState, SameTable
<1>2. counted \in SUBSET Objects
  OBVIOUS
<1> HIDE DEF cleared, counted
<1>3. after \in KernelState /\ SameTable(cleared, after)
  BY <1>1, <1>2, SetObjectRefCountsType, RefCountsKeepTable
<1> HIDE DEF after
<1>4. ASSUME NEW T
      PROVE  SameTable(after, [after EXCEPT !.maybeFree = @ \cup T])
  BY <1>3 DEF KernelState, SameTable
<1> QED
  BY <1>1, <1>3, <1>4 DEF ClearReachableFlags, SameTable, after, cleared, counted

LEMMA DeleteCListTable ==
  ASSUME NEW kk \in KernelState, NEW v \in Vats, NEW S \in SUBSET Objects
  PROVE  LET kl == DeleteCListEntries(kk, v, S)
         IN  /\ kl.owner = kk.owner /\ kl.gcActions = kk.gcActions
             /\ kl.nextKoid = kk.nextKoid
             /\ kl.acceptanceQueue = kk.acceptanceQueue /\ kl.runQueue = kk.runQueue
             /\ kl.imports = [kk.imports EXCEPT ![v] = @ \ S]
             /\ kl.exports = [kk.exports EXCEPT ![v] = @ \ S]
<1> DEFINE cleared == ClearReachableFlags(kk, v, S)
           decremented == DecrementRefCounts(cleared, S \cap kk.imports[v], 0)
<1>1. cleared \in KernelState /\ SameTable(kk, cleared)
  BY ClearReachableFlagsType, ClearReachableKeepsTable
<1>2. decremented \in KernelState /\ SameTable(cleared, decremented)
  BY <1>1, DecrementRefCountsType, DecrementKeepsTable
<1> HIDE DEF decremented, cleared
<1> QED
  BY <1>1, <1>2 DEF DeleteCListEntries, SameTable, KernelState, decremented, cleared

LEMMA DeleteObjectsTable ==
  ASSUME NEW kk \in KernelState, NEW S \in SUBSET Objects
  PROVE  LET kl == DeleteKernelObjects(kk, S)
         IN  /\ kl.owner = [o \in Objects |-> IF o \in S THEN NoVat ELSE kk.owner[o]]
             /\ kl.exports = kk.exports /\ kl.gcActions = kk.gcActions
             /\ kl.nextKoid = kk.nextKoid /\ kl.imports = kk.imports
             /\ kl.acceptanceQueue = kk.acceptanceQueue /\ kl.runQueue = kk.runQueue
BY DEF DeleteKernelObjects, KernelState

LEMMA RetireObjectsTable ==
  ASSUME NEW kk \in KernelState, NEW S \in SUBSET Objects
  PROVE  LET kl == RetireKernelObjects(kk, S)
         IN  /\ kl.owner = [o \in Objects |-> IF o \in S THEN NoVat ELSE kk.owner[o]]
             /\ kl.exports = kk.exports /\ kl.nextKoid = kk.nextKoid
             /\ kl.imports = kk.imports
             /\ kl.acceptanceQueue = kk.acceptanceQueue /\ kl.runQueue = kk.runQueue
             /\ \A a \in kl.gcActions \ kk.gcActions :
                  a.type = "retireImport" /\ a.kref \in kk.imports[a.vat]
<1> DEFINE actions == UNION {{[vat |-> v, type |-> "retireImport", kref |-> o] :
                                v \in GetImporters(kk, o)} : o \in S}
           deleted == DeleteKernelObjects(kk, S)
           marked(b) == [deleted EXCEPT !.gcActions = @ \cup actions, !.failed = b]
           scanned == \A v \in kk.liveIDs : ProvidesVatKeeper(kk, v)
<1>1. CASE S = {}
  <2>1. kk.owner = [o \in Objects |-> kk.owner[o]]
    BY DEF KernelState
  <2> QED
    BY <1>1, <2>1 DEF RetireKernelObjects
<1>2. CASE S # {}
  <2>1. /\ deleted.owner = [o \in Objects |-> IF o \in S THEN NoVat ELSE kk.owner[o]]
        /\ deleted.exports = kk.exports /\ deleted.gcActions = kk.gcActions
        /\ deleted.nextKoid = kk.nextKoid /\ deleted \in KernelState
        /\ deleted.imports = kk.imports
        /\ deleted.acceptanceQueue = kk.acceptanceQueue /\ deleted.runQueue = kk.runQueue
    BY DeleteObjectsTable, DeleteKernelObjectsType
  <2>2. \A a \in actions : a.type = "retireImport" /\ a.kref \in kk.imports[a.vat]
    BY DEF GetImporters
  <2>3. RetireKernelObjects(kk, S) = marked(deleted.failed \/ ~scanned)
    BY <1>2 DEF RetireKernelObjects
  <2> HIDE DEF deleted, actions, scanned
  <2>4. ASSUME NEW b
        PROVE  /\ marked(b).owner = deleted.owner /\ marked(b).exports = deleted.exports
               /\ marked(b).nextKoid = deleted.nextKoid
               /\ marked(b).imports = deleted.imports
               /\ marked(b).acceptanceQueue = deleted.acceptanceQueue
               /\ marked(b).runQueue = deleted.runQueue
               /\ marked(b).gcActions = deleted.gcActions \cup actions
    BY <2>1 DEF KernelState
  <2> HIDE DEF marked
  <2> QED
    BY <2>1, <2>2, <2>3, <2>4
<1> QED
  BY <1>1, <1>2

LEMMA OrphanObjectsInv ==
  ASSUME NEW kk \in KernelState, NEW S \in SUBSET Objects, NEW v \in Vats, TableInv(kk)
  PROVE  TableInv(OrphanKernelObjects(kk, S, v))
<1> DEFINE kl == OrphanKernelObjects(kk, S, v)
<1>1. CASE \A o \in S : kk.owner[o] = v
  <2>1. kl = [kk EXCEPT !.owner = [o \in Objects |-> IF o \in S THEN NoVat
                                                    ELSE kk.owner[o]],
                        !.exports[v] = @ \ S,
                        !.reach[v] = @ \ S,
                        !.maybeFree = @ \cup S]
    BY <1>1 DEF OrphanKernelObjects
  <2>2. /\ kl.owner = [o \in Objects |-> IF o \in S THEN NoVat ELSE kk.owner[o]]
        /\ kl.exports = [kk.exports EXCEPT ![v] = @ \ S]
        /\ kl.gcActions = kk.gcActions /\ kl.nextKoid = kk.nextKoid
        /\ kl.imports = kk.imports
        /\ kl.acceptanceQueue = kk.acceptanceQueue /\ kl.runQueue = kk.runQueue
    BY <2>1 DEF KernelState
  <2>3. \A w \in Vats : kl.exports[w] = {o \in kk.exports[w] : o \notin S}
    <3> SUFFICES ASSUME NEW w \in Vats
                 PROVE  kl.exports[w] = {o \in kk.exports[w] : o \notin S}
      OBVIOUS
    <3>1. kk.exports[w] \subseteq Objects
      BY DEF KernelState
    <3>2. CASE w = v
      BY <2>2, <3>2 DEF KernelState
    <3>3. CASE w # v
      <4>1. \A o \in S : o \notin kk.exports[w]
        BY <1>1, <3>3 DEF TableInv, OwnersMatch
      <4>2. kl.exports[w] = kk.exports[w]
        BY <2>2, <3>3 DEF KernelState
      <4> QED
        BY <4>1, <4>2
    <3> QED
      BY <3>2, <3>3
  <2>4. kl \in KernelState
    BY OrphanKernelObjectsType
  <2> HIDE DEF kl
  <2>5. Disowns(kk, kl, S)
    BY <2>2, <2>3 DEF Disowns
  <2> QED
    BY <2>4, <2>5, DisownsInv DEF kl
<1>2. CASE ~(\A o \in S : kk.owner[o] = v)
  <2>1. SameTable(kk, kl)
    BY <1>2 DEF OrphanKernelObjects, SameTable, KernelState
  <2> QED
    BY <2>1, SameTableInv
<1> QED
  BY <1>1, <1>2

\* Retiring exports of v, in either order of the two halves.
LEMMA RetiredExportsInv ==
  ASSUME NEW kk \in KernelState, NEW kl \in KernelState, NEW v \in Vats,
         NEW S \in SUBSET Objects,
         TableInv(kk),
         \A o \in S : kk.owner[o] \in {v, NoVat},
         kl.owner = [o \in Objects |-> IF o \in S THEN NoVat ELSE kk.owner[o]],
         kl.exports = [kk.exports EXCEPT ![v] = @ \ S],
         kl.nextKoid = kk.nextKoid,
         \A w \in Vats : kl.imports[w] \subseteq kk.imports[w],
         kl.acceptanceQueue = kk.acceptanceQueue, kl.runQueue = kk.runQueue,
         \A a \in kl.gcActions \ kk.gcActions :
           a.type = "retireImport" /\ a.kref \in kk.imports[a.vat]
  PROVE  TableInv(kl)
<1>1. \A w \in Vats : kl.exports[w] = {o \in kk.exports[w] : o \notin S}
  <2> SUFFICES ASSUME NEW w \in Vats
               PROVE  kl.exports[w] = {o \in kk.exports[w] : o \notin S}
    OBVIOUS
  <2>1. CASE w = v
    BY <2>1 DEF KernelState
  <2>2. CASE w # v
    <3>1. \A o \in S : o \notin kk.exports[w]
      BY <2>2, ConstantsType DEF TableInv, OwnersMatch
    <3>2. kl.exports[w] = kk.exports[w]
      BY <2>2 DEF KernelState
    <3> QED
      BY <3>1, <3>2
  <2> QED
    BY <2>1, <2>2
<1>2. Disowns(kk, kl, S)
  BY <1>1 DEF Disowns
<1> QED
  BY <1>2, DisownsInv

LEMMA NewExportInv ==
  ASSUME NEW kk \in KernelState, NEW v \in Vats, TableInv(kk), kk.nextKoid \in Objects
  PROVE  TableInv(NewExport(kk, v))
<1> DEFINE n == kk.nextKoid
           kl == NewExport(kk, v)
<1>1. /\ kl.owner = [kk.owner EXCEPT ![n] = v]
      /\ kl.exports = [kk.exports EXCEPT ![v] = @ \cup {n}]
      /\ kl.gcActions = kk.gcActions /\ kl.nextKoid = n + 1
      /\ kl.imports = kk.imports
      /\ kl.acceptanceQueue = kk.acceptanceQueue /\ kl.runQueue = kk.runQueue
  <2> DEFINE ow == [kk.owner EXCEPT ![n] = v]
             rc == [kk.refCount EXCEPT ![n] =
                      [exists |-> TRUE, reachable |-> 0, recognizable |-> 0]]
             added == AddKernelObject(kk, v)
  <2>1. added = [kk EXCEPT !.owner = ow, !.refCount = rc,
                           !.nextKoid = @ + 1, !.kernelObjects = @ + 1]
    BY DEF AddKernelObject, KernelState
  <2> HIDE DEF ow, rc
  <2>2. added.owner = ow /\ added.exports = kk.exports
        /\ added.gcActions = kk.gcActions /\ added.nextKoid = n + 1
        /\ added.imports = kk.imports
        /\ added.acceptanceQueue = kk.acceptanceQueue /\ added.runQueue = kk.runQueue
    BY <2>1 DEF KernelState
  <2>3. added \in KernelState
    BY AddKernelObjectType
  <2> HIDE DEF added
  <2> QED
    BY <2>2, <2>3 DEF NewExport, KernelState, added, ow
<1>2. n \in Nat /\ kk.owner[n] = NoVat
  BY DEF TableInv, UnallocatedHasNoOwner, KernelState, Objects
<1> HIDE DEF kl
<1>3. OwnersMatch(kl)
  <2> SUFFICES ASSUME NEW o \in Objects, NEW w \in Vats
               PROVE  kl.owner[o] = w <=> o \in kl.exports[w]
    BY DEF OwnersMatch
  <2>1. kk.owner[o] = w <=> o \in kk.exports[w]
    BY DEF TableInv, OwnersMatch
  <2>2. CASE o = n
    BY <1>1, <1>2, <2>1, <2>2, ConstantsType DEF KernelState
  <2>3. CASE o # n
    BY <1>1, <2>1, <2>3 DEF KernelState
  <2> QED
    BY <2>2, <2>3
<1>4. UnallocatedHasNoOwner(kl)
  BY <1>1, <1>2 DEF TableInv, UnallocatedHasNoOwner, KernelState, Objects
<1>5. ActionsNameOwner(kl)
  <2> SUFFICES ASSUME NEW a \in kl.gcActions
               PROVE  /\ a.kref < kl.nextKoid
                      /\ a.type # "retireImport" => kl.owner[a.kref] \in {a.vat, NoVat}
                      /\ a.type = "retireImport" => kl.owner[a.kref] # a.vat
    BY DEF ActionsNameOwner
  <2>1. /\ a.kref < n
        /\ a.type # "retireImport" => kk.owner[a.kref] \in {a.vat, NoVat}
        /\ a.type = "retireImport" => kk.owner[a.kref] # a.vat
    BY <1>1 DEF TableInv, ActionsNameOwner
  <2>2. a.kref \in Nat
    BY <1>1 DEF KernelState, GCAction, Objects
  <2>3. a.kref # n /\ kl.owner[a.kref] = kk.owner[a.kref]
    BY <1>1, <1>2, <2>1, <2>2 DEF KernelState
  <2> QED
    BY <1>1, <1>2, <2>1, <2>2, <2>3
<1>6. ImportsAreForeign(kl)
  <2> SUFFICES ASSUME NEW w \in Vats, NEW o \in kl.imports[w]
               PROVE  o < kl.nextKoid /\ kl.owner[o] # w
    BY DEF ImportsAreForeign
  <2>1. o \in Objects /\ o \in Nat /\ o < n /\ kk.owner[o] # w
    BY <1>1 DEF TableInv, ImportsAreForeign, KernelState, Objects
  <2> QED
    BY <1>1, <1>2, <2>1 DEF KernelState
<1>7. MessagesAllocated(kl)
  <2> SUFFICES ASSUME NEW m \in Messages(kl)
               PROVE  NVats < n + 1 /\ m.target < n + 1 /\ m.arg < n + 1
    BY <1>1, <1>2, VatsAssumption DEF MessagesAllocated, TableInv
  <2>1. m \in Message
    BY ElementOfSeq, <1>1 DEF Messages, Elements, KernelState
  <2>2. NVats < n /\ m.target < n /\ m.arg < n
    BY <1>1 DEF TableInv, MessagesAllocated, Messages
  <2>3. m.target \in Nat /\ m.arg \in Nat
    BY <2>1 DEF Message, Objects, NoObject
  <2> QED
    BY <1>2, <2>2, <2>3, VatsAssumption
<1> QED
  BY <1>3, <1>4, <1>5, <1>6, <1>7 DEF TableInv, kl

LEMMA NewImportInv ==
  ASSUME NEW kk \in KernelState, NEW v \in Vats, NEW o \in Objects, TableInv(kk),
         o < kk.nextKoid, o \notin kk.exports[v]
  PROVE  TableInv(NewImport(kk, v, o))
<1> DEFINE counted == SetObjectRefCounts(kk, {o}, 0, 1)
           kl == NewImport(kk, v, o)
<1>1. counted \in KernelState /\ TableInv(counted) /\ SameTable(kk, counted)
  BY SetObjectRefCountsType, RefCountsKeepTable, SameTableInv
<1>2. kl = [counted EXCEPT !.imports[v] = @ \cup {o}]
  BY DEF NewImport
<1> HIDE DEF counted
<1>3. /\ kl.owner = counted.owner /\ kl.exports = counted.exports
      /\ kl.imports = [counted.imports EXCEPT ![v] = @ \cup {o}]
      /\ kl.gcActions = counted.gcActions /\ kl.nextKoid = counted.nextKoid
      /\ kl.acceptanceQueue = counted.acceptanceQueue /\ kl.runQueue = counted.runQueue
  BY <1>1, <1>2 DEF KernelState
<1> HIDE DEF kl
<1>4. kl.owner[o] # v /\ o < kl.nextKoid
  BY <1>1, <1>3 DEF SameTable, TableInv, OwnersMatch
<1>5. ImportsAreForeign(kl)
  BY <1>1, <1>3, <1>4 DEF TableInv, ImportsAreForeign, KernelState
<1>6. OwnersMatch(kl) /\ UnallocatedHasNoOwner(kl) /\ ActionsNameOwner(kl)
  BY <1>1, <1>3 DEF TableInv, OwnersMatch, UnallocatedHasNoOwner, ActionsNameOwner
<1>7. MessagesAllocated(kl)
  BY <1>1, <1>3 DEF TableInv, MessagesAllocated, Messages
<1> QED
  BY <1>5, <1>6, <1>7 DEF TableInv, kl

LEMMA MapVatSlotInv ==
  ASSUME NEW kk \in KernelState, NEW v \in Vats, NEW o \in Objects \cup {NoObject},
         TableInv(kk)
  PROVE  TableInv(MapVatSlotToKernelSlot(kk, v, o))
<1>1. CASE o = NoObject
  BY <1>1 DEF MapVatSlotToKernelSlot
<1>2. CASE o # NoObject /\ o = kk.nextKoid
  <2> DEFINE entered == NewExport(kk, v)
  <2>1. entered \in KernelState /\ TableInv(entered)
    BY <1>2, NewEntriesType, NewExportInv
  <2> HIDE DEF entered
  <2>2. TableInv(SetReachableFlag(entered, v, o))
    BY <1>2, <2>1, SetReachableKeepsTable, SetReachableFlagType, SameTableInv
  <2> QED
    BY <1>2, <2>2 DEF MapVatSlotToKernelSlot, entered
<1>3. CASE o # NoObject /\ o # kk.nextKoid
  BY <1>3, SetReachableKeepsTable, SetReachableFlagType, SameTableInv
  DEF MapVatSlotToKernelSlot
<1> QED
  BY <1>1, <1>2, <1>3

LEMMA MapKernelSlotInv ==
  ASSUME NEW kk \in KernelState, NEW v \in Vats, NEW o \in Objects \cup {NoObject},
         TableInv(kk), o < kk.nextKoid
  PROVE  LET kl == MapKernelSlotToVatSlot(kk, v, o)
         IN  TableInv(kl) /\ kl.nextKoid = kk.nextKoid
<1>1. CASE o = NoObject
  BY <1>1 DEF MapKernelSlotToVatSlot
<1>2. CASE o # NoObject /\ o \in kk.exports[v]
  <2>1. SameTable(kk, UnreachableExport(kk, v, o))
    BY DEF UnreachableExport, KernelState, SameTable
  <2> QED
    BY <1>2, <2>1, SameTableInv DEF MapKernelSlotToVatSlot, SameTable
<1>3. CASE o # NoObject /\ o \notin kk.exports[v] /\ o \in kk.imports[v]
  BY <1>3, SetReachableKeepsTable, SameTableInv DEF MapKernelSlotToVatSlot, SameTable
<1>4. CASE o # NoObject /\ o \notin kk.exports[v] /\ o \notin kk.imports[v]
  <2> DEFINE kl == NewImport(kk, v, o)
             counted == SetObjectRefCounts(kk, {o}, 0, 1)
  <2>1. kl \in KernelState /\ TableInv(kl)
    BY <1>4, NewEntriesType, NewImportInv
  <2>2. kl.nextKoid = kk.nextKoid
    <3>1. counted \in KernelState /\ SameTable(kk, counted)
      BY <1>4, SetObjectRefCountsType, RefCountsKeepTable
    <3> HIDE DEF counted
    <3> QED
      BY <3>1 DEF NewImport, SameTable, KernelState, counted
  <2> HIDE DEF kl
  <2>3. SameTable(kl, SetReachableFlag(kl, v, o))
    BY <1>4, <2>1, SetReachableKeepsTable
  <2>4. MapKernelSlotToVatSlot(kk, v, o) = SetReachableFlag(kl, v, o)
    BY <1>4 DEF MapKernelSlotToVatSlot, kl
  <2> QED
    BY <2>1, <2>2, <2>3, <2>4, SameTableInv DEF SameTable
<1> QED
  BY <1>1, <1>2, <1>3, <1>4

LEMMA ProcessRefcountsInv ==
  ASSUME NEW kk \in KernelState, TableInv(kk)
  PROVE  TableInv(ProcessRefcounts(kk))
<1> DEFINE
     unreachable == {o \in kk.maybeFree : kk.refCount[o].reachable = 0}
     owned    == {o \in unreachable : OwnerOfKernelObject(kk, o) # NoVat}
     orphans  == unreachable \ owned
     recog(o) == kk.refCount[o].recognizable > 0
     act(t, o) == [vat |-> kk.owner[o], type |-> t, kref |-> o]
     drops    == {act("dropExport", o) : o \in {x \in owned : x \in kk.reach[kk.owner[x]]}}
     retires  == {act("retireExport", o) : o \in {x \in owned : ~recog(x)}}
     ownedBy(v) == {o \in orphans : kk.owner[o] = v}
     ow == [o \in Objects |-> IF o \in orphans THEN NoVat ELSE kk.owner[o]]
     ex == [v \in Vats |-> kk.exports[v] \ ownedBy(v)]
     re == [v \in Vats |-> kk.reach[v] \ ownedBy(v)]
     detached == [kk EXCEPT !.owner = ow, !.exports = ex, !.reach = re]
     kept     == {o \in orphans : recog(o)}
     gone     == {o \in orphans : ~recog(o)}
     retired  == RetireKernelObjects(detached, kept)
     deleted  == DeleteKernelObjects(retired, gone)
     kl == [deleted EXCEPT !.gcActions = @ \cup drops \cup retires, !.maybeFree = {}]
<1>1. /\ unreachable \in SUBSET Objects /\ orphans \in SUBSET Objects
      /\ kept \in SUBSET Objects /\ gone \in SUBSET Objects
  BY DEF KernelState
<1>2. ow \in [Objects -> Vats \cup {NoVat}]
  BY DEF KernelState
<1>3. ex \in [Vats -> SUBSET Objects] /\ re \in [Vats -> SUBSET Objects]
  BY DEF KernelState
<1>4. \A o \in kept \cup gone : ow[o] = NoVat
  BY <1>1
<1>5. \A v \in Vats : ex[v] = {o \in kk.exports[v] : o \notin orphans}
  BY DEF TableInv, OwnersMatch, KernelState
<1>6. \A a \in drops \cup retires : ow[a.kref] = a.vat /\ a.type # "retireImport"
  BY <1>1
<1> HIDE DEF ow, ex, re, kept, gone, orphans, drops, retires
<1>7. /\ detached \in KernelState
      /\ detached.owner = ow /\ detached.exports = ex
      /\ detached.gcActions = kk.gcActions /\ detached.nextKoid = kk.nextKoid
      /\ detached.imports = kk.imports
      /\ detached.acceptanceQueue = kk.acceptanceQueue /\ detached.runQueue = kk.runQueue
  BY <1>2, <1>3 DEF KernelState
<1> HIDE DEF detached
<1>8. /\ retired \in KernelState
      /\ retired.owner = ow /\ retired.exports = ex /\ retired.nextKoid = kk.nextKoid
      /\ retired.imports = kk.imports
      /\ retired.acceptanceQueue = kk.acceptanceQueue /\ retired.runQueue = kk.runQueue
      /\ \A a \in retired.gcActions \ kk.gcActions :
           a.type = "retireImport" /\ a.kref \in kk.imports[a.vat]
  <2>1. ow = [o \in Objects |-> IF o \in kept THEN NoVat ELSE ow[o]]
    BY <1>2, <1>4
  <2> QED
    BY <1>1, <1>7, <2>1, RetireObjectsTable, RetireKernelObjectsType
<1> HIDE DEF retired
<1>9. /\ deleted \in KernelState
      /\ deleted.owner = ow /\ deleted.exports = ex /\ deleted.nextKoid = kk.nextKoid
      /\ deleted.gcActions = retired.gcActions
      /\ deleted.imports = kk.imports
      /\ deleted.acceptanceQueue = kk.acceptanceQueue /\ deleted.runQueue = kk.runQueue
  <2>1. ow = [o \in Objects |-> IF o \in gone THEN NoVat ELSE ow[o]]
    BY <1>2, <1>4
  <2> QED
    BY <1>1, <1>8, <2>1, DeleteObjectsTable, DeleteKernelObjectsType
<1> HIDE DEF deleted
<1>10. /\ kl.owner = ow /\ kl.exports = ex /\ kl.nextKoid = kk.nextKoid
       /\ kl.gcActions = retired.gcActions \cup drops \cup retires
       /\ kl.imports = kk.imports
       /\ kl.acceptanceQueue = kk.acceptanceQueue /\ kl.runQueue = kk.runQueue
  BY <1>9 DEF KernelState
<1>11. kl = ProcessRefcounts(kk)
  BY DEF ProcessRefcounts, deleted, retired, detached, ow, ex, re, kept, gone,
     orphans, drops, retires
<1>12. kl \in KernelState
  BY <1>11, ProcessRefcountsType
<1> HIDE DEF kl
<1>13. Disowns(kk, kl, orphans)
  <2>1. kl.owner = [o \in Objects |-> IF o \in orphans THEN NoVat ELSE kk.owner[o]]
    BY <1>10 DEF ow
  <2> QED
    BY <1>5, <1>6, <1>8, <1>10, <2>1 DEF Disowns
<1> QED
  BY <1>1, <1>11, <1>12, <1>13, DisownsInv

-----------------------------------------------------------------------------
\* What the helpers of KernelGC do to the table.

LEMMA DecrementSendEventKeepsTable ==
  ASSUME NEW kk \in KernelState, NEW m \in Message
  PROVE  SameTable(kk, DecrementSendEventRefCount(kk, m))
<1> DEFINE first == DecrementRefCount(kk, m.target)
<1>1. m.target \in Objects \cup {NoObject} /\ m.arg \in Objects \cup {NoObject}
  BY DEF Message
<1>2. first \in KernelState /\ SameTable(kk, first)
  BY <1>1, RefCountStepsType, RefCountStepsKeepTable
<1> HIDE DEF first
<1>3. SameTable(first, DecrementRefCount(first, m.arg))
  BY <1>1, <1>2, RefCountStepsKeepTable
<1> QED
  BY <1>2, <1>3 DEF DecrementSendEventRefCount, SameTable, first

LEMMA QueueElements ==
  ASSUME NEW q \in Seq(Message), NEW m \in Message
  PROVE  /\ Elements(Append(q, m)) = Elements(q) \cup {m}
         /\ q # <<>> => Head(q) \in Elements(q) /\ Elements(Tail(q)) \subseteq Elements(q)
<1>1. Elements(Append(q, m)) = Elements(q) \cup {m}
  <2>1. /\ Append(q, m) \in Seq(Message) /\ Len(Append(q, m)) = Len(q) + 1
        /\ \A i \in 1..Len(q) : Append(q, m)[i] = q[i]
        /\ Append(q, m)[Len(q) + 1] = m
    BY AppendProperties
  <2>2. Len(q) \in Nat
    OBVIOUS
  <2> QED
    BY <2>1, <2>2 DEF Elements
<1>2. ASSUME q # <<>>
      PROVE  Head(q) \in Elements(q) /\ Elements(Tail(q)) \subseteq Elements(q)
  <2>1. /\ Len(q) \in Nat /\ Len(q) > 0 /\ Len(Tail(q)) = Len(q) - 1
        /\ \A i \in 1..Len(Tail(q)) : Tail(q)[i] = q[i + 1]
        /\ Head(q) = q[1]
    BY <1>2, HeadTailProperties
  <2> QED
    BY <2>1 DEF Elements
<1> QED
  BY <1>1, <1>2

LEMMA DoSendInv ==
  ASSUME NEW kk \in KernelState, NEW m \in Message, TableInv(kk),
         m.target < kk.nextKoid, m.arg < kk.nextKoid
  PROVE  TableInv(DoSend(kk, m))
<1> DEFINE first == IncrementRefCount(kk, m.target)
           counted == IncrementRefCount(first, m.arg)
           kl == [counted EXCEPT !.acceptanceQueue = Append(@, m)]
<1>1. m.target \in Objects \cup {NoObject} /\ m.arg \in Objects \cup {NoObject}
  BY DEF Message
<1>2. first \in KernelState /\ SameTable(kk, first)
  BY <1>1, RefCountStepsType, RefCountStepsKeepTable
<1> HIDE DEF first
<1>3. counted \in KernelState /\ SameTable(first, counted)
  BY <1>1, <1>2, RefCountStepsType, RefCountStepsKeepTable
<1> HIDE DEF counted
<1>4. TableInv(counted) /\ counted.nextKoid = kk.nextKoid
  BY <1>2, <1>3, SameTableInv DEF SameTable
<1>5. /\ kl.owner = counted.owner /\ kl.exports = counted.exports
      /\ kl.imports = counted.imports /\ kl.gcActions = counted.gcActions
      /\ kl.nextKoid = counted.nextKoid /\ kl.runQueue = counted.runQueue
      /\ kl.acceptanceQueue = Append(counted.acceptanceQueue, m)
  BY <1>3 DEF KernelState
<1> HIDE DEF kl
<1>6. Messages(kl) = Messages(counted) \cup {m}
  <2>1. counted.acceptanceQueue \in Seq(Message)
    BY <1>3 DEF KernelState
  <2> QED
    BY <1>5, <2>1, QueueElements DEF Messages
<1>7. MessagesAllocated(kl)
  BY <1>4, <1>5, <1>6 DEF TableInv, MessagesAllocated
<1>8. TableInv(kl)
  BY <1>4, <1>5, <1>7 DEF TableInv, OwnersMatch, UnallocatedHasNoOwner,
     ActionsNameOwner, ImportsAreForeign
<1>9. kl = DoSend(kk, m)
  BY DEF DoSend, kl, counted, first
<1> QED
  BY <1>8, <1>9

LEMMA MarkVatKeepsTable ==
  ASSUME NEW kk \in KernelState, NEW v \in Vats, NEW cached \in BOOLEAN
  PROVE  SameTable(kk, MarkVatAsTerminated(kk, v, cached))
BY DEF MarkVatAsTerminated, SameTable, KernelState

LEMMA TerminateVatInv ==
  ASSUME NEW kk \in KernelState, NEW v \in Vats, NEW cached \in BOOLEAN,
         NEW info \in Objects \cup {NoObject}, TableInv(kk), info < kk.nextKoid
  PROVE  TerminateVat(kk, v, cached, info) \in KernelState
         /\ TableInv(TerminateVat(kk, v, cached, info))
<1> DEFINE marked == MarkVatAsTerminated(kk, v, cached)
           m == [target |-> AdminVat, arg |-> info]
<1>1. /\ marked \in KernelState /\ TableInv(marked)
      /\ marked.nextKoid = kk.nextKoid
  BY MarkVatAsTerminatedType, MarkVatKeepsTable, SameTableInv DEF SameTable
<1>2. m \in Message /\ m.target = AdminVat /\ m.arg = info
  BY NoticeType
<1>3. AdminVat < kk.nextKoid
  BY VatsAssumption DEF AdminVat, TableInv, MessagesAllocated, KernelState
<1> HIDE DEF marked, m
<1>4. DoSend(marked, m) \in KernelState /\ TableInv(DoSend(marked, m))
  BY <1>1, <1>2, <1>3, DoSendType, DoSendInv
<1> QED
  BY <1>4 DEF TerminateVat, marked, m

LEMMA ReportUpgradeInv ==
  ASSUME NEW kk \in KernelState, TableInv(kk)
  PROVE  ReportUpgrade(kk) \in KernelState /\ TableInv(ReportUpgrade(kk))
<1>1. AdminVat < kk.nextKoid /\ NoObject < kk.nextKoid
  BY VatsAssumption DEF AdminVat, NoObject, TableInv, MessagesAllocated, KernelState
<1> DEFINE m == [target |-> AdminVat, arg |-> NoObject]
<1>2. m \in Message /\ m.target = AdminVat /\ m.arg = NoObject
  BY NoticeType
<1> HIDE DEF m
<1>3. TableInv(DoSend(kk, m))
  BY <1>1, <1>2, DoSendInv
<1> QED
  BY <1>3, ReportUpgradeType DEF ReportUpgrade, m

LEMMA FinishCrankInv ==
  ASSUME NEW kk \in KernelState, TableInv(kk), FinishCrank(kk)
  PROVE  OwnerInv'
<1>1. TypeOK'
  BY FinishCrankType
<1>2. TableInv(ProcessRefcounts(kk))
  BY ProcessRefcountsInv
<1>3. k' = ProcessRefcounts(kk) /\ saved' = ProcessRefcounts(kk)
  BY DEF FinishCrank
<1>4. TableInv(k') /\ TableInv(saved')
  BY <1>2, <1>3
<1> QED
  BY <1>1, <1>4 DEF OwnerInv, TableInv, OwnersMatch, UnallocatedHasNoOwner, ActionsNameOwner,
     ImportsAreForeign, MessagesAllocated, Messages

LEMMA BeginDeliveryInv ==
  ASSUME OwnerInv, NEW kk \in KernelState, TableInv(kk),
         NEW type \in DeliveryTypes, NEW v \in Vats, BeginDelivery(kk, type, v)
  PROVE  OwnerInv'
<1>1. TypeOK'
  BY BeginDeliveryType DEF OwnerInv
<1>2. k' = kk /\ saved' = k
  BY DEF BeginDelivery
<1> QED
  BY <1>1, <1>2 DEF OwnerInv, TableInv, OwnersMatch, UnallocatedHasNoOwner, ActionsNameOwner,
     ImportsAreForeign, MessagesAllocated, Messages

LEMMA SyscallInv ==
  ASSUME OwnerInv, NEW kk \in KernelState, TableInv(kk), Syscall(kk)
  PROVE  OwnerInv'
<1>1. TypeOK'
  BY SyscallType DEF OwnerInv
<1>2. k' = kk /\ saved' = saved
  BY DEF Syscall
<1> QED
  BY <1>1, <1>2 DEF OwnerInv, TableInv, OwnersMatch, UnallocatedHasNoOwner, ActionsNameOwner,
     ImportsAreForeign, MessagesAllocated, Messages

-----------------------------------------------------------------------------
\* The initial states, and each action.

LEMMA InitOwnerInv == Init => OwnerInv
<1> SUFFICES ASSUME Init
             PROVE  OwnerInv
  OBVIOUS
<1>1. /\ k.owner = [o \in Objects |-> IF o \in Vats THEN o ELSE NoVat]
      /\ k.exports = [v \in Vats |-> {v}]
      /\ k.imports = [v \in Vats |-> IF v = 1 THEN Vats \ {1} ELSE {}]
      /\ k.gcActions = {} /\ k.nextKoid = NVats + 1 /\ saved = k
      /\ k.acceptanceQueue = <<>> /\ k.runQueue = <<>>
  BY DEF Init
<1>2. OwnersMatch(k) /\ UnallocatedHasNoOwner(k)
  BY <1>1, ConstantsType, VatsAssumption
  DEF OwnersMatch, UnallocatedHasNoOwner, Vats, Objects, NoVat
<1>3. ActionsNameOwner(k)
  BY <1>1 DEF ActionsNameOwner
<1>4. ImportsAreForeign(k)
  BY <1>1, ConstantsType, VatsAssumption DEF ImportsAreForeign, Vats
<1>5. Messages(k) = {}
  BY <1>1, EmptySeq DEF Messages, Elements
<1>6. MessagesAllocated(k)
  BY <1>1, <1>5, VatsAssumption DEF MessagesAllocated
<1>7. TableInv(k)
  BY <1>2, <1>3, <1>4, <1>6 DEF TableInv
<1> QED
  BY <1>1, <1>7, InitTypeOK DEF OwnerInv

LEMMA HostStepInv == ASSUME OwnerInv, HostStep PROVE OwnerInv'
<1>1. k \in KernelState /\ TableInv(k) /\ TypeOK'
  BY HostStepType DEF OwnerInv, TypeOK
<1>2. ASSUME NEW kl, k' = kl, TableInv(kl), saved' = k' \/ saved' = k
      PROVE  OwnerInv'
  BY <1>1, <1>2
  DEF OwnerInv, TableInv, OwnersMatch, UnallocatedHasNoOwner, ActionsNameOwner,
      ImportsAreForeign, MessagesAllocated, Messages
<1>3. ASSUME NEW v \in Vats, QueueToVatRoot(v)
      PROVE  OwnerInv'
  <2> DEFINE m == [target |-> v, arg |-> NoObject]
  <2>1. m \in Message /\ m.target = v /\ m.arg = 0
    BY ConstantsType DEF Message, NoObject
  <2>2. v \in Nat /\ v <= NVats /\ NVats \in Nat /\ k.nextKoid \in Nat
    BY <1>1, VatsAssumption DEF Vats, KernelState
  <2>3. m.target < k.nextKoid /\ m.arg < k.nextKoid
    BY <1>1, <2>1, <2>2 DEF TableInv, MessagesAllocated
  <2> HIDE DEF m
  <2>4. TableInv(DoSend(k, m))
    BY <1>1, <2>1, <2>3, DoSendInv
  <2>5. k' = DoSend(k, m) /\ saved' = k'
    BY <1>3 DEF QueueToVatRoot, m
  <2> QED
    BY <1>2, <2>4, <2>5
<1>4. CASE Restart
  <2> DEFINE kl == [k EXCEPT !.vatKeepers = {}, !.maybeFree = {},
                             !.terminatedVats = k.terminated]
  <2>1. SameTable(k, kl)
    BY <1>1 DEF KernelState, SameTable
  <2>2. TableInv(kl)
    BY <1>1, <2>1, SameTableInv
  <2> QED
    BY <1>2, <1>4, <2>2 DEF Restart
<1>5. ASSUME NEW v \in Vats, DeliverBringOutYourDead(v)
      PROVE  OwnerInv'
  BY <1>1, <1>2, <1>5 DEF DeliverBringOutYourDead, BeginDelivery
<1>6. ASSUME NEW v \in Vats, DeliverUpgradeVat(v)
      PROVE  OwnerInv'
  BY <1>1, <1>2, <1>6 DEF DeliverUpgradeVat, BeginDelivery
<1> QED
  BY <1>3, <1>4, <1>5, <1>6 DEF HostStep

LEMMA ProcessAcceptanceMessageInv ==
  ASSUME OwnerInv, ProcessAcceptanceMessage PROVE OwnerInv'
<1> DEFINE q == k.acceptanceQueue
           m == Head(q)
           taken == [k EXCEPT !.acceptanceQueue = Tail(@)]
           routed == [taken EXCEPT !.runQueue = Append(@, m)]
           splat == DecrementSendEventRefCount(taken, m)
<1>1. k \in KernelState /\ TableInv(k) /\ q \in Seq(Message) /\ q # <<>>
  BY DEF OwnerInv, TypeOK, ProcessAcceptanceMessage, KernelState
<1>2. m \in Message /\ Tail(q) \in Seq(Message)
      /\ m \in Elements(q) /\ Elements(Tail(q)) \subseteq Elements(q)
  BY <1>1, QueuesType, QueueElements
<1>3. taken \in KernelState /\ Shrinks(k, taken) /\ taken.runQueue = k.runQueue
      /\ taken.acceptanceQueue = Tail(q)
  BY <1>1, <1>2 DEF KernelState, Shrinks, Messages
<1> HIDE DEF m, taken
<1>4. taken.runQueue \in Seq(Message)
  BY <1>3 DEF KernelState
<1>5. Append(taken.runQueue, m) \in Seq(Message)
  BY <1>2, <1>4, AppendProperties
<1>6. routed \in KernelState /\ routed.runQueue = Append(taken.runQueue, m)
      /\ routed.owner = k.owner /\ routed.exports = k.exports
      /\ routed.nextKoid = k.nextKoid /\ routed.acceptanceQueue = Tail(q)
      /\ (\A v \in Vats : routed.imports[v] \subseteq k.imports[v])
      /\ routed.gcActions \subseteq k.gcActions
  BY <1>3, <1>5 DEF KernelState, Shrinks
<1>7. Shrinks(k, routed)
  <2>1. Elements(routed.runQueue) = Elements(taken.runQueue) \cup {m}
    BY <1>2, <1>4, <1>6, QueueElements
  <2> QED
    BY <1>2, <1>3, <1>6, <2>1 DEF Shrinks, Messages
<1>8. splat \in KernelState /\ SameTable(taken, splat)
  BY <1>2, <1>3, DecrementSendEventType, DecrementSendEventKeepsTable
<1>9. FinishCrank(routed) \/ FinishCrank(splat)
  BY DEF ProcessAcceptanceMessage, m, taken
<1> HIDE DEF routed, splat
<1> QED
  BY <1>1, <1>3, <1>6, <1>7, <1>8, <1>9, ShrinksInv, SameTableInv, FinishCrankInv

LEMMA DeliverSendInv == ASSUME OwnerInv, DeliverSend PROVE OwnerInv'
<1> DEFINE q == k.runQueue
           m == Head(q)
           v == OwnerOfKernelObject(k, m.target)
           taken == [k EXCEPT !.runQueue = Tail(@)]
           released == DecrementSendEventRefCount(taken, m)
           entered == MapKernelSlotToVatSlot(released, v, m.target)
           mapped == MapKernelSlotToVatSlot(entered, v, m.arg)
<1>1. k \in KernelState /\ TableInv(k) /\ q \in Seq(Message) /\ q # <<>>
  BY DEF OwnerInv, TypeOK, DeliverSend, KernelState
<1>2. m \in Message /\ Tail(q) \in Seq(Message)
      /\ m \in Elements(q) /\ Elements(Tail(q)) \subseteq Elements(q)
  BY <1>1, QueuesType, QueueElements
<1>3. taken \in KernelState /\ Shrinks(k, taken)
  BY <1>1, <1>2 DEF KernelState, Shrinks, Messages
<1>4. m.target < k.nextKoid /\ m.arg < k.nextKoid
  BY <1>1, <1>2 DEF TableInv, MessagesAllocated, Messages
<1> HIDE DEF taken
<1>5. v \in Vats \cup {NoVat}
  BY <1>1, <1>2 DEF OwnerOfKernelObject, KernelState, Message
<1>6. m.target \in Objects \cup {NoObject} /\ m.arg \in Objects \cup {NoObject}
  BY <1>2 DEF Message
<1> HIDE DEF m, v
<1>7. released \in KernelState /\ SameTable(taken, released)
  BY <1>2, <1>3, DecrementSendEventType, DecrementSendEventKeepsTable
<1> HIDE DEF released
<1>8. TableInv(released) /\ released.nextKoid = k.nextKoid
  BY <1>1, <1>3, <1>7, ShrinksInv, SameTableInv DEF Shrinks, SameTable
<1>9. ASSUME v # NoVat
      PROVE  mapped \in KernelState /\ TableInv(mapped)
  <2>1. entered \in KernelState /\ TableInv(entered)
        /\ entered.nextKoid = released.nextKoid
    BY <1>4, <1>5, <1>6, <1>7, <1>8, <1>9, MapKernelSlotToVatSlotType, MapKernelSlotInv
  <2> HIDE DEF entered
  <2> QED
    BY <1>4, <1>5, <1>6, <1>8, <1>9, <2>1, MapKernelSlotToVatSlotType, MapKernelSlotInv
<1>10. IF v = NoVat THEN FinishCrank(released) ELSE BeginDelivery(mapped, "message", v)
  BY DEF DeliverSend, m, v, released, taken
<1>11. "message" \in DeliveryTypes
  BY DEF DeliveryTypes
<1> QED
  BY <1>5, <1>7, <1>8, <1>9, <1>10, <1>11, FinishCrankInv, BeginDeliveryInv

\* Deleting c-list entries that are not exports.
LEMMA DeleteImportsInv ==
  ASSUME NEW kk \in KernelState, NEW v \in Vats, NEW S \in SUBSET Objects,
         TableInv(kk), S \cap kk.exports[v] = {}
  PROVE  TableInv(DeleteCListEntries(kk, v, S))
<1> DEFINE kl == DeleteCListEntries(kk, v, S)
<1>1. /\ kl.owner = kk.owner /\ kl.gcActions = kk.gcActions
      /\ kl.nextKoid = kk.nextKoid
      /\ kl.acceptanceQueue = kk.acceptanceQueue /\ kl.runQueue = kk.runQueue
      /\ kl.imports = [kk.imports EXCEPT ![v] = @ \ S]
      /\ kl.exports = [kk.exports EXCEPT ![v] = @ \ S]
  BY DeleteCListTable
<1> HIDE DEF kl
<1>2. kl.exports = kk.exports
  <2>1. kk.exports[v] \ S = kk.exports[v]
    OBVIOUS
  <2> QED
    BY <1>1, <2>1 DEF KernelState
<1>3. Shrinks(kk, kl)
  BY <1>1, <1>2 DEF Shrinks, Messages, KernelState
<1> QED
  BY <1>3, ShrinksInv DEF kl

LEMMA CleanupTerminatedVatInv == ASSUME OwnerInv, CleanupTerminatedVat PROVE OwnerInv'
<1> DEFINE v == Head(k.terminatedVats)
           Orphan(kk, S) == OrphanKernelObjects(kk, S, v)
           Abandon(kk, S) == DeleteCListEntries(kk, v, S)
           DeleteKeys(kk) == [kk EXCEPT !.initialized = @ \ {v}]
           Forget(kk) == [kk EXCEPT !.terminatedVats = Tail(k.terminatedVats),
                                    !.terminated = Tail(k.terminatedVats)]
           Good(kk) == kk \in KernelState /\ TableInv(kk)
<1>1. Good(k) /\ v \in Vats /\ Tail(k.terminatedVats) \in Seq(Vats)
  BY HeadTailProperties DEF CleanupTerminatedVat, OwnerInv, TypeOK, KernelState
<1>2. ASSUME NEW kk, NEW S \in SUBSET Objects, Good(kk)
      PROVE  /\ Good(Orphan(kk, S))
             /\ S \cap kk.exports[v] = {} => Good(Abandon(kk, S))
  BY <1>1, <1>2, OrphanKernelObjectsType, OrphanObjectsInv, DeleteCListEntriesType,
     DeleteImportsInv
<1>3. ASSUME NEW kk, Good(kk)
      PROVE  Good(DeleteKeys(kk)) /\ Good(Forget(kk))
  <2>1. DeleteKeys(kk) \in KernelState /\ Forget(kk) \in KernelState
    BY <1>1, <1>3 DEF KernelState
  <2>2. SameTable(kk, DeleteKeys(kk)) /\ SameTable(kk, Forget(kk))
    BY <1>3 DEF KernelState, SameTable
  <2> HIDE DEF DeleteKeys, Forget
  <2> QED
    BY <1>3, <2>1, <2>2, SameTableInv
<1>4. k.exports[v] \in SUBSET Objects /\ k.imports[v] \in SUBSET Objects
  BY <1>1 DEF KernelState
<1>5. k.imports[v] \cap Orphan(k, k.exports[v]).exports[v] = {}
  <2>1. \A o \in k.exports[v] : k.owner[o] = v
    BY <1>1, <1>4 DEF TableInv, OwnersMatch
  <2> QED
    BY <1>1, <2>1 DEF OrphanKernelObjects, KernelState
<1>6. Good(Abandon(Orphan(k, k.exports[v]), k.imports[v]))
  BY <1>1, <1>2, <1>4, <1>5
<1>7. Good(Forget(DeleteKeys(Abandon(Orphan(k, k.exports[v]), k.imports[v]))))
  BY <1>3, <1>6
<1>8. \A o \in k.exports[v] : Good(Orphan(k, {o}))
  BY <1>1, <1>2, <1>4
<1>9. k.exports[v] = {} => \A o \in k.imports[v] : Good(Abandon(k, {o}))
  BY <1>1, <1>2, <1>4
<1>10. Good(IF v \in k.initialized THEN DeleteKeys(k) ELSE Forget(k))
  BY <1>1, <1>3
<1>11. \E kk : Good(kk) /\ FinishCrank(kk)
  <2> HIDE DEF Good
  <2> QED
    BY <1>7, <1>8, <1>9, <1>10 DEF CleanupTerminatedVat
<1> QED
  BY <1>11, FinishCrankInv

\* The actions that are delivered together are for one vat and of one type.
LEMMA OneGroup ==
  ASSUME NEW kk \in KernelState
  PROVE  \A a, b \in GCActionsToProcess(kk) : a.vat = b.vat /\ a.type = b.type
<1> SUFFICES ASSUME NEW a \in GCActionsToProcess(kk), NEW b \in GCActionsToProcess(kk)
             PROVE  a.vat = b.vat /\ a.type = b.type
  OBVIOUS
<1>1. a \in GCAction /\ b \in GCAction /\ ~GroupBefore(a, b) /\ ~GroupBefore(b, a)
  BY DEF GCActionsToProcess, KernelState
<1>2. a.vat \in Int /\ b.vat \in Int /\ a.type \in ActionTypes /\ b.type \in ActionTypes
  BY <1>1 DEF GCAction, Vats
<1> QED
  BY <1>1, <1>2 DEF GroupBefore, TypePriority, ActionTypes

LEMMA ProcessGCActionsInv == ASSUME OwnerInv, ProcessGCActions PROVE OwnerInv'
<1> DEFINE todo == GCActionsToProcess(k)
           krefs == {a.kref : a \in todo}
           first == CHOOSE a \in todo : TRUE
           v == first.vat
           type == first.type
           pruned == [k EXCEPT !.gcActions = @ \ GCActionsExamined(k)]
           dropped == ClearReachableFlags(pruned, v, krefs)
           deleted == DeleteKernelObjects(pruned, krefs)
           retired == DeleteCListEntries(deleted, v, krefs)
           forgotten == DeleteCListEntries(pruned, v, krefs)
<1>1. k \in KernelState /\ TableInv(k)
  BY DEF OwnerInv, TypeOK
<1>2. pruned \in KernelState /\ Shrinks(k, pruned)
  BY <1>1 DEF KernelState, Shrinks, Messages
<1>3. pruned.owner = k.owner /\ pruned.exports = k.exports
  BY <1>2 DEF Shrinks
<1>4. todo \subseteq GCAction /\ todo \subseteq k.gcActions
  BY <1>1 DEF GCActionsToProcess, KernelState
<1>5. krefs \in SUBSET Objects
  BY <1>4 DEF GCAction
<1>6. todo # {} => first \in todo /\ v \in Vats
  BY <1>4 DEF GCAction
<1>7. todo # {} => \A a \in todo : a.vat = v /\ a.type = type
  BY <1>1, <1>6, OneGroup
<1>8. {"dropExports", "retireExports", "retireImports"} \subseteq DeliveryTypes
  BY DEF DeliveryTypes
<1>9. \/ k' = [k EXCEPT !.failed = TRUE] /\ UNCHANGED <<saved, crank>>
      \/ FinishCrank(pruned)
      \/ /\ todo # {} /\ type = "dropExport"
         /\ BeginDelivery(dropped, "dropExports", v)
      \/ /\ todo # {} /\ type = "retireExport"
         /\ BeginDelivery(retired, "retireExports", v)
      \/ /\ todo # {} /\ type = "retireImport"
         /\ BeginDelivery(forgotten, "retireImports", v)
  BY DEF ProcessGCActions
<1> HIDE DEF todo, pruned, krefs, first, dropped, retired, forgotten
<1>10. TableInv(pruned)
  BY <1>1, <1>2, ShrinksInv
<1>11. CASE k' = [k EXCEPT !.failed = TRUE] /\ UNCHANGED <<saved, crank>>
  <2>1. SameTable(k, k')
    BY <1>1, <1>11 DEF KernelState, SameTable
  <2>2. TableInv(k') /\ TypeOK'
    BY <1>1, <2>1, SameTableInv, ProcessGCActionsType DEF OwnerInv
  <2> QED
    BY <1>11, <2>2 DEF OwnerInv, TableInv, OwnersMatch, UnallocatedHasNoOwner,
       ActionsNameOwner, ImportsAreForeign, MessagesAllocated, Messages
<1>12. CASE FinishCrank(pruned)
  BY <1>2, <1>10, <1>12, FinishCrankInv
<1>13. CASE todo # {} /\ type = "dropExport" /\ BeginDelivery(dropped, "dropExports", v)
  <2>1. dropped \in KernelState /\ SameTable(pruned, dropped)
    BY <1>2, <1>5, <1>6, <1>13, ClearReachableFlagsType, ClearReachableKeepsTable DEF dropped
  <2> QED
    BY <1>6, <1>8, <1>10, <1>13, <2>1, SameTableInv, BeginDeliveryInv
<1>14. CASE todo # {} /\ type = "retireExport" /\ BeginDelivery(retired, "retireExports", v)
  <2>1. \A o \in krefs : pruned.owner[o] \in {v, NoVat}
    BY <1>1, <1>3, <1>4, <1>7, <1>14 DEF krefs, TableInv, ActionsNameOwner
  <2>2. /\ deleted \in KernelState
        /\ deleted.owner = [o \in Objects |-> IF o \in krefs THEN NoVat ELSE pruned.owner[o]]
        /\ deleted.exports = pruned.exports /\ deleted.gcActions = pruned.gcActions
        /\ deleted.nextKoid = pruned.nextKoid /\ deleted.imports = pruned.imports
        /\ deleted.acceptanceQueue = pruned.acceptanceQueue
        /\ deleted.runQueue = pruned.runQueue
    BY <1>2, <1>5, DeleteKernelObjectsType, DeleteObjectsTable
  <2> HIDE DEF deleted
  <2>3. /\ retired \in KernelState
        /\ retired.owner = deleted.owner /\ retired.gcActions = deleted.gcActions
        /\ retired.nextKoid = deleted.nextKoid
        /\ retired.acceptanceQueue = deleted.acceptanceQueue
        /\ retired.runQueue = deleted.runQueue
        /\ retired.imports = [deleted.imports EXCEPT ![v] = @ \ krefs]
        /\ retired.exports = [deleted.exports EXCEPT ![v] = @ \ krefs]
    BY <1>5, <1>6, <1>14, <2>2, DeleteCListEntriesType, DeleteCListTable DEF retired
  <2>4. \A w \in Vats : retired.imports[w] \subseteq pruned.imports[w]
    BY <1>2, <2>2, <2>3 DEF KernelState
  <2>5. TableInv(retired)
    <3>1. /\ retired.owner = [o \in Objects |-> IF o \in krefs THEN NoVat
                                                ELSE pruned.owner[o]]
          /\ retired.exports = [pruned.exports EXCEPT ![v] = @ \ krefs]
          /\ retired.nextKoid = pruned.nextKoid
          /\ retired.acceptanceQueue = pruned.acceptanceQueue
          /\ retired.runQueue = pruned.runQueue
          /\ retired.gcActions \ pruned.gcActions = {}
      BY <2>2, <2>3
    <3>2. v \in Vats
      BY <1>6, <1>14
    <3> HIDE DEF v
    <3> QED
      BY <1>2, <1>5, <1>10, <2>1, <2>3, <2>4, <3>1, <3>2, RetiredExportsInv
  <2> QED
    BY <1>6, <1>8, <1>14, <2>3, <2>5, BeginDeliveryInv
<1>15. CASE todo # {} /\ type = "retireImport" /\ BeginDelivery(forgotten, "retireImports", v)
  <2>1. \A o \in krefs : pruned.owner[o] # v
    BY <1>1, <1>3, <1>4, <1>7, <1>15 DEF krefs, TableInv, ActionsNameOwner
  <2>2. krefs \cap pruned.exports[v] = {}
    BY <1>5, <1>6, <1>10, <1>15, <2>1 DEF TableInv, OwnersMatch
  <2>3. forgotten \in KernelState /\ TableInv(forgotten)
    BY <1>2, <1>5, <1>6, <1>10, <1>15, <2>2, DeleteCListEntriesType, DeleteImportsInv
    DEF forgotten
  <2> QED
    BY <1>6, <1>8, <1>15, <2>3, BeginDeliveryInv
<1> QED
  BY <1>9, <1>11, <1>12, <1>13, <1>14, <1>15

LEMMA MapVatSlotNext ==
  ASSUME NEW kk \in KernelState, NEW v \in Vats, NEW o \in Objects \cup {NoObject}
  PROVE  MapVatSlotToKernelSlot(kk, v, o).nextKoid =
           IF o # NoObject /\ o = kk.nextKoid THEN kk.nextKoid + 1 ELSE kk.nextKoid
<1>1. CASE o = NoObject
  BY <1>1 DEF MapVatSlotToKernelSlot
<1>2. CASE o # NoObject /\ o = kk.nextKoid
  <2> DEFINE added == AddKernelObject(kk, v)
             entered == NewExport(kk, v)
  <2>1. added \in KernelState /\ added.nextKoid = kk.nextKoid + 1
    <3> DEFINE ow == [kk.owner EXCEPT ![kk.nextKoid] = v]
               rc == [kk.refCount EXCEPT ![kk.nextKoid] =
                        [exists |-> TRUE, reachable |-> 0, recognizable |-> 0]]
    <3>1. added = [kk EXCEPT !.owner = ow, !.refCount = rc,
                             !.nextKoid = @ + 1, !.kernelObjects = @ + 1]
      BY DEF AddKernelObject, KernelState
    <3>2. added \in KernelState
      BY AddKernelObjectType
    <3> HIDE DEF ow, rc, added
    <3> QED
      BY <3>1, <3>2 DEF KernelState
  <2> HIDE DEF added
  <2>2. entered.nextKoid = added.nextKoid
    BY <2>1 DEF NewExport, KernelState, added
  <2>3. entered \in KernelState
    BY <1>2, NewEntriesType
  <2> HIDE DEF entered
  <2>4. SetReachableFlag(entered, v, o).nextKoid = entered.nextKoid
    BY <1>2, <2>3, SetReachableKeepsTable DEF SameTable
  <2> QED
    BY <1>2, <2>1, <2>2, <2>4 DEF MapVatSlotToKernelSlot, entered
<1>3. CASE o # NoObject /\ o # kk.nextKoid
  BY <1>3, SetReachableKeepsTable DEF MapVatSlotToKernelSlot, SameTable
<1> QED
  BY <1>1, <1>2, <1>3

LEMMA MentionedIsAllocated ==
  ASSUME NEW kk \in KernelState, NEW v \in Vats, TableInv(kk), NEW o \in MayMention(kk, v)
  PROVE  o \in Nat /\ o < kk.nextKoid
<1>1. o \in Objects /\ o \in Nat /\ kk.nextKoid \in Nat
  BY DEF MayMention, KernelState, Objects
<1>2. CASE o \in kk.exports[v]
  <2>1. kk.owner[o] = v
    BY <1>1, <1>2 DEF TableInv, OwnersMatch
  <2>2. ~(o >= kk.nextKoid)
    BY <1>1, <2>1, ConstantsType DEF TableInv, UnallocatedHasNoOwner
  <2> QED
    BY <1>1, <2>2
<1>3. CASE o \in kk.imports[v]
  BY <1>1, <1>3 DEF TableInv, ImportsAreForeign
<1> QED
  BY <1>2, <1>3 DEF MayMention

\* What a vat may pass on is allocated once it has been translated.
LEMMA PassedIsAllocated ==
  ASSUME NEW kk \in KernelState, NEW v \in Vats, TableInv(kk),
         NEW o \in Objects \cup {NoObject},
         o \in MayMention(kk, v) \cup {NoObject} \cup {kk.nextKoid}
  PROVE  LET kl == MapVatSlotToKernelSlot(kk, v, o)
         IN  /\ kl \in KernelState /\ TableInv(kl)
             /\ kk.nextKoid <= kl.nextKoid /\ o < kl.nextKoid
<1> DEFINE kl == MapVatSlotToKernelSlot(kk, v, o)
<1>1. /\ kl \in KernelState /\ TableInv(kl)
      /\ kl.nextKoid = IF o # NoObject /\ o = kk.nextKoid
                       THEN kk.nextKoid + 1 ELSE kk.nextKoid
  BY MapVatSlotToKernelSlotType, MapVatSlotInv, MapVatSlotNext
<1> HIDE DEF kl
<1>2. kk.nextKoid \in Nat /\ kk.nextKoid > 0
  BY VatsAssumption DEF KernelState, TableInv, MessagesAllocated
<1>3. o \in MayMention(kk, v) => o \in Nat /\ o < kk.nextKoid
  BY MentionedIsAllocated
<1>4. kk.nextKoid <= kl.nextKoid /\ o < kl.nextKoid
  BY <1>1, <1>2, <1>3 DEF NoObject
<1> QED
  BY <1>1, <1>4 DEF kl

LEMMA SyscallSendInv ==
  ASSUME OwnerInv, NEW target \in Objects, NEW arg \in Objects \cup {NoObject},
         SyscallSend(target, arg)
  PROVE  OwnerInv'
<1> DEFINE v == crank.vat
           m == [target |-> target, arg |-> arg]
           first == MapVatSlotToKernelSlot(k, v, target)
           mapped == MapVatSlotToKernelSlot(first, v, arg)
<1>1. v \in Vats /\ k \in KernelState /\ TableInv(k)
  BY DeliveryVat DEF SyscallSend, Syscall, OwnerInv, TypeOK
<1>2. m \in Message /\ m.target = target /\ m.arg = arg
  BY DEF Message
<1>3. Syscall(DoSend(mapped, m)) /\ target \in MayMention(k, v)
      /\ arg \in MayMention(k, v) \cup {NoObject} \cup {k.nextKoid}
  BY DEF SyscallSend, MayPass
<1> HIDE DEF v, m
<1>4. \A o \in MayMention(k, v) : o \in Nat /\ o < k.nextKoid
  BY <1>1, MentionedIsAllocated
<1>5. first \in KernelState /\ TableInv(first) /\ first.nextKoid = k.nextKoid
  <2>1. target \in Nat /\ target < k.nextKoid
    BY <1>3, <1>4
  <2>2. target # k.nextKoid
    BY <2>1
  <2> QED
    BY <1>1, <2>2, MapVatSlotToKernelSlotType, MapVatSlotInv, MapVatSlotNext
<1> HIDE DEF first
<1>6. /\ mapped \in KernelState /\ TableInv(mapped)
      /\ mapped.nextKoid = IF arg # NoObject /\ arg = first.nextKoid
                           THEN first.nextKoid + 1 ELSE first.nextKoid
  BY <1>1, <1>5, MapVatSlotToKernelSlotType, MapVatSlotInv, MapVatSlotNext
<1> HIDE DEF mapped
<1>7. m.target < mapped.nextKoid /\ m.arg < mapped.nextKoid
  <2>1. k.nextKoid \in Nat /\ k.nextKoid > 0
    BY <1>1, VatsAssumption DEF KernelState, TableInv, MessagesAllocated
  <2> QED
    BY <1>2, <1>3, <1>4, <1>5, <1>6, <2>1 DEF NoObject
<1>8. DoSend(mapped, m) \in KernelState /\ TableInv(DoSend(mapped, m))
  BY <1>2, <1>6, <1>7, DoSendType, DoSendInv
<1> QED
  BY <1>3, <1>8, SyscallInv

LEMMA SyscallRetireExportsInv ==
  ASSUME OwnerInv, NEW o \in Objects, SyscallRetireExports(o)
  PROVE  OwnerInv'
<1> DEFINE v == crank.vat
           S == {o}
           cut == DeleteCListEntries(k, v, S)
           kl == RetireKernelObjects(cut, S)
<1>1. v \in Vats /\ k \in KernelState /\ TableInv(k)
  BY DeliveryVat DEF SyscallRetireExports, Syscall, OwnerInv, TypeOK
<1>2. o \in k.exports[v] /\ Syscall(kl)
  BY DEF SyscallRetireExports
<1> HIDE DEF v
<1>3. S \in SUBSET Objects /\ \A p \in S : k.owner[p] \in {v, NoVat}
  BY <1>1, <1>2 DEF TableInv, OwnersMatch
<1> HIDE DEF S
<1>4. /\ cut \in KernelState
      /\ cut.owner = k.owner /\ cut.gcActions = k.gcActions /\ cut.nextKoid = k.nextKoid
      /\ cut.acceptanceQueue = k.acceptanceQueue /\ cut.runQueue = k.runQueue
      /\ cut.imports = [k.imports EXCEPT ![v] = @ \ S]
      /\ cut.exports = [k.exports EXCEPT ![v] = @ \ S]
  BY <1>1, <1>3, DeleteCListEntriesType, DeleteCListTable
<1> HIDE DEF cut
<1>5. /\ kl \in KernelState
      /\ kl.owner = [p \in Objects |-> IF p \in S THEN NoVat ELSE k.owner[p]]
      /\ kl.exports = [k.exports EXCEPT ![v] = @ \ S]
      /\ kl.imports = cut.imports /\ kl.nextKoid = k.nextKoid
      /\ kl.acceptanceQueue = k.acceptanceQueue /\ kl.runQueue = k.runQueue
      /\ \A a \in kl.gcActions \ k.gcActions :
           a.type = "retireImport" /\ a.kref \in cut.imports[a.vat]
  <2>1. kl \in KernelState
    BY <1>3, <1>4, RetireKernelObjectsType
  <2>2. /\ kl.owner = [p \in Objects |-> IF p \in S THEN NoVat ELSE cut.owner[p]]
        /\ kl.exports = cut.exports /\ kl.nextKoid = cut.nextKoid
        /\ kl.imports = cut.imports
        /\ kl.acceptanceQueue = cut.acceptanceQueue /\ kl.runQueue = cut.runQueue
        /\ \A a \in kl.gcActions \ cut.gcActions :
             a.type = "retireImport" /\ a.kref \in cut.imports[a.vat]
    BY <1>3, <1>4, RetireObjectsTable
  <2> HIDE DEF kl
  <2> QED
    BY <1>4, <2>1, <2>2
<1> HIDE DEF kl
<1>6. \A w \in Vats : kl.imports[w] \subseteq k.imports[w]
  BY <1>1, <1>4, <1>5 DEF KernelState
<1>7. \A a \in kl.gcActions \ k.gcActions :
        a.type = "retireImport" /\ a.kref \in k.imports[a.vat]
  <2> SUFFICES ASSUME NEW a \in kl.gcActions \ k.gcActions
               PROVE  a.type = "retireImport" /\ a.kref \in k.imports[a.vat]
    OBVIOUS
  <2>1. a.vat \in Vats
    BY <1>5 DEF KernelState, GCAction
  <2> QED
    BY <1>5, <1>6, <2>1
<1>8. TableInv(kl)
  BY <1>1, <1>3, <1>5, <1>6, <1>7, RetiredExportsInv
<1> QED
  BY <1>2, <1>5, <1>8, SyscallInv

LEMMA VatStepInv == ASSUME OwnerInv, VatStep PROVE OwnerInv'
<1> DEFINE v == crank.vat
<1>1. v \in Vats /\ k \in KernelState /\ TableInv(k)
  BY DeliveryVat DEF VatStep, SyscallSend, SyscallDropImports, SyscallRetireImports,
     SyscallRetireExports, SyscallAbandonExports, AdminTerminatesVat, Syscall,
     OwnerInv, TypeOK
<1>2. ASSUME NEW o \in Objects, SyscallDropImports(o)
      PROVE  OwnerInv'
  <2>1. Syscall(ClearReachableFlags(k, v, {o}))
    BY <1>2 DEF SyscallDropImports
  <2> DEFINE kl == ClearReachableFlags(k, v, {o})
  <2>2. kl \in KernelState /\ SameTable(k, kl)
    BY <1>1, ClearReachableFlagsType, ClearReachableKeepsTable
  <2> HIDE DEF kl
  <2>3. TableInv(kl)
    BY <1>1, <2>2, SameTableInv
  <2> QED
    BY <2>1, <2>2, <2>3, SyscallInv DEF kl
<1>3. ASSUME NEW o \in Objects, SyscallRetireImports(o)
      PROVE  OwnerInv'
  <2>1. Syscall(DeleteCListEntries(k, v, {o})) /\ o \in k.imports[v]
    BY <1>3 DEF SyscallRetireImports
  <2>2. {o} \cap k.exports[v] = {}
    BY <1>1, <2>1 DEF TableInv, ImportsAreForeign, OwnersMatch
  <2>3. DeleteCListEntries(k, v, {o}) \in KernelState /\ TableInv(DeleteCListEntries(k, v, {o}))
    BY <1>1, <2>2, DeleteCListEntriesType, DeleteImportsInv
  <2> QED
    BY <2>1, <2>3, SyscallInv
<1>4. ASSUME NEW o \in Objects, SyscallAbandonExports(o)
      PROVE  OwnerInv'
  BY <1>1, <1>4, OrphanKernelObjectsType, OrphanObjectsInv, SyscallInv
  DEF SyscallAbandonExports
<1>5. ASSUME NEW w \in Vats, AdminTerminatesVat(w)
      PROVE  OwnerInv'
  <2>1. PICK cached \in BOOLEAN : Syscall(TerminateVat(k, w, cached, NoObject))
    BY <1>5 DEF AdminTerminatesVat
  <2>2. NoObject < k.nextKoid
    BY <1>1, VatsAssumption DEF NoObject, KernelState, TableInv, MessagesAllocated
  <2> DEFINE kl == TerminateVat(k, w, cached, NoObject)
  <2>3. kl \in KernelState /\ TableInv(kl)
    BY <1>1, <2>2, TerminateVatInv
  <2> HIDE DEF kl
  <2> QED
    BY <2>1, <2>3, SyscallInv DEF kl
<1> QED
  BY <1>2, <1>3, <1>4, <1>5, SyscallSendInv, SyscallRetireExportsInv DEF VatStep

LEMMA EndDeliveryInv ==
  ASSUME "failureReason" \notin Faults, OwnerInv, EndDelivery
  PROVE  OwnerInv'
<1>1. k \in KernelState /\ TableInv(k) /\ saved \in KernelState /\ TableInv(saved)
  BY DEF OwnerInv, TypeOK
<1>2. CASE CompleteDelivery
  <2>1. FinishCrank(k) \/ FinishCrank(ReportUpgrade(k))
    BY <1>2 DEF CompleteDelivery
  <2> QED
    BY <1>1, <2>1, ReportUpgradeInv, FinishCrankInv
<1>3. ASSUME NEW info \in Objects \cup {NoObject}, ExitDelivery(info)
      PROVE  OwnerInv'
  <2> DEFINE v == crank.vat
             mapped == MapVatSlotToKernelSlot(k, v, info)
             kl == TerminateVat(mapped, v, FALSE, info)
  <2>1. v \in Vats /\ FinishCrank(kl)
    BY <1>3, DeliveryVat DEF ExitDelivery, MayRunUserCode, OwnerInv
  <2>2. info \in MayMention(k, v) \cup {NoObject} \cup {k.nextKoid}
    BY <1>3 DEF ExitDelivery, MayPass
  <2> HIDE DEF v
  <2>3. mapped \in KernelState /\ TableInv(mapped) /\ info < mapped.nextKoid
    BY <1>1, <2>1, <2>2, PassedIsAllocated
  <2> HIDE DEF mapped
  <2>4. kl \in KernelState /\ TableInv(kl)
    BY <2>1, <2>3, TerminateVatInv
  <2> HIDE DEF kl
  <2> QED
    BY <2>1, <2>4, FinishCrankInv
<1>4. RollbackCrank \in KernelState /\ TableInv(RollbackCrank)
  <2>1. RollbackCrank \in KernelState
    BY RollbackType DEF OwnerInv
  <2>2. SameTable(saved, RollbackCrank)
    BY <1>1 DEF RollbackCrank, SameTable, KernelState
  <2> QED
    BY <1>1, <2>1, <2>2, SameTableInv
<1>5. ASSUME NEW cached \in BOOLEAN, NEW info \in Objects \cup {NoObject},
             AbortDelivery(cached, info)
      PROVE  OwnerInv'
  <2> DEFINE kl == TerminateVat(RollbackCrank, crank.vat, cached, NoObject)
  <2>4. crank.vat \in Vats /\ FinishCrank(kl)
    BY <1>5, DeliveryVat DEF AbortDelivery, OwnerInv
  <2>5. NoObject < RollbackCrank.nextKoid
    BY <1>4, VatsAssumption DEF NoObject, KernelState, TableInv, MessagesAllocated
  <2>6. kl \in KernelState /\ TableInv(kl)
    BY <1>4, <2>4, <2>5, TerminateVatInv
  <2> HIDE DEF kl
  <2> QED
    BY <2>4, <2>6, FinishCrankInv
<1>6. CASE AbortUpgrade
  BY <1>4, <1>6, ReportUpgradeInv, FinishCrankInv DEF AbortUpgrade
<1>7. CASE StartNewIncarnation
  <2> DEFINE v == crank.vat
             kk == OrphanKernelObjects(k, NonDurableObjectExports(v), v)
  <2>1. crank # Idle /\ k' = kk /\ saved' = saved
    BY <1>7 DEF StartNewIncarnation, Idle
  <2>2. v \in Vats /\ NonDurableObjectExports(v) \subseteq Objects
    BY <1>1, <2>1, DeliveryVat DEF NonDurableObjectExports, OwnerInv, KernelState
  <2> HIDE DEF v
  <2>3. TableInv(kk)
    BY <1>1, <2>2, OrphanObjectsInv
  <2> HIDE DEF kk
  <2>4. TableInv(k') /\ TableInv(saved')
    BY <1>1, <2>1, <2>3
  <2>5. TypeOK'
    BY EndDeliveryType DEF OwnerInv
  <2> QED
    BY <2>4, <2>5 DEF OwnerInv, TableInv, OwnersMatch, UnallocatedHasNoOwner, ActionsNameOwner,
       ImportsAreForeign, MessagesAllocated, Messages
<1> QED
  BY <1>2, <1>3, <1>5, <1>6, <1>7 DEF EndDelivery

LEMMA OwnerInvInductive ==
  ASSUME "failureReason" \notin Faults, OwnerInv, [Next]_vars
  PROVE  OwnerInv'
<1>1. CASE KernelStep
  BY <1>1, ProcessAcceptanceMessageInv, CleanupTerminatedVatInv,
     ProcessGCActionsInv, DeliverSendInv DEF KernelStep
<1>2. CASE VatStep
  BY <1>2, VatStepInv
<1>3. CASE EndDelivery
  BY <1>3, EndDeliveryInv
<1>4. CASE HostStep
  BY <1>4, HostStepInv
<1>5. CASE UNCHANGED vars
  BY <1>5 DEF vars, OwnerInv, TypeOK, TableInv, OwnersMatch, UnallocatedHasNoOwner,
     ActionsNameOwner, ImportsAreForeign, MessagesAllocated, Messages
<1> QED
  BY <1>1, <1>2, <1>3, <1>4, <1>5 DEF Next

\* `${kref}.owner` names a vat exactly when that vat's c-list has the kref as
\* an export, after every sequence of exports, retirements, abandonments,
\* aborted cranks, terminations and slow deletions; so an object has at most
\* one exporter, and orphanKernelObject's check of the owner never fails.
\* The reason of an exit with failure must name no object.
THEOREM OwnerMatchesCListHolds ==
  ASSUME "failureReason" \notin Faults
  PROVE  Spec => []OwnerMatchesCList
<1>1. OwnerInv /\ [Next]_vars => OwnerInv'
  BY OwnerInvInductive
<1>2. OwnerInv => OwnerMatchesCList
  BY DEF OwnerInv, TableInv, OwnersMatch, OwnerMatchesCList
<1> QED
  BY InitOwnerInv, <1>1, <1>2, PTL DEF Spec
=============================================================================

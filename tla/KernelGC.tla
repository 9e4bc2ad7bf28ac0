------------------------------- MODULE KernelGC -------------------------------
(***************************************************************************)
(* The crank machinery of the SwingSet kernel (kernel.js), over the object *)
(* table, c-lists and GC action set of KernelObjects: the routing of sends *)
(* through the two queues, deliveries and the syscalls vats make in them,  *)
(* GC deliveries, abort and rollback of a crank, upgrade of a vat,         *)
(* termination of a vat and its slow deletion.                             *)
(***************************************************************************)
EXTENDS KernelObjects

CONSTANTS
  MaxQueue,      \* bound on the sends in both queues together
  MaxSyscalls,   \* bound on the syscalls of one delivery
  CleanupBudget, \* "unlimited", or "one" c-list entry per cleanup crank
  Faults,        \* the exceptional failures of a delivery: see MayAbort
  LiveslotsVats, \* vats that run user code on top of liveslots
  CriticalVats,  \* vats whose termination stops the whole kernel
  UpgradedVats,  \* bound: vats that are upgraded
  DurableObjects, \* objects that an upgrade of their exporter keeps
  KeptRoots      \* bound: root objects that no vat passes on or drops

ASSUME BoundsAssumption == MaxQueue \in Nat /\ MaxSyscalls \in Nat
ASSUME CleanupAssumption == CleanupBudget \in {"unlimited", "one"}
ASSUME FaultsAssumption == Faults \subseteq
  {"gcDelivery", "afterAdminTerminate", "failureReason"}
ASSUME VatOptionsAssumption ==
  /\ LiveslotsVats \subseteq Vats /\ CriticalVats \subseteq Vats
  /\ UpgradedVats \subseteq Vats /\ DurableObjects \subseteq Objects
ASSUME KeptRootsAssumption == KeptRoots \subseteq Vats

VARIABLES
  k,       \* the kernel state
  saved,   \* the kernel state at the 'start' savepoint of the crank
  crank    \* what the crank is doing

vars == <<k, saved, crank>>

AdminVat == 1    \* vatAdmin, which alone may terminate another vat

\* An upgrade makes two deliveries: bringOutYourDead to the old incarnation and
\* startVat to the new one.
UpgradeDeliveries == {"oldIncarnation", "newIncarnation"}
DeliveryTypes ==
  {"message", "dropExports", "retireExports", "retireImports", "bringOutYourDead"}
    \cup UpgradeDeliveries
Idle == [type |-> "idle", vat |-> NoVat, syscalls |-> 0]
CrankType == {Idle} \cup
  [type : DeliveryTypes, vat : Vats, syscalls : 0..MaxSyscalls]

\* After bootstrap: every root object is pinned by the host, and the
\* bootstrap vat has received the root of every other vat.
Init ==
  /\ k = [ owner    |-> [o \in Objects |-> IF o \in Vats THEN o ELSE NoVat],
           refCount |-> [o \in Objects |->
              [exists       |-> o \in Vats,
               reachable    |-> IF o \in Vats THEN (IF o = 1 THEN 1 ELSE 2) ELSE 0,
               recognizable |-> IF o \in Vats THEN (IF o = 1 THEN 1 ELSE 2) ELSE 0]],
           exports  |-> [v \in Vats |-> {v}],
           imports  |-> [v \in Vats |-> IF v = 1 THEN Vats \ {1} ELSE {}],
           reach    |-> [v \in Vats |-> IF v = 1 THEN Vats ELSE {v}],
           acceptanceQueue |-> <<>>, runQueue |-> <<>>, gcActions |-> {},
           nextKoid |-> NVats + 1, kernelObjects |-> NVats,
           initialized |-> Vats, liveIDs |-> Vats,
           terminated |-> <<>>, terminatedVats |-> <<>>,
           vatKeepers |-> {}, maybeFree |-> {}, failed |-> FALSE ]
  /\ saved = k
  /\ crank = Idle

-----------------------------------------------------------------------------
\* Helpers of several actions.

Running == crank = Idle /\ ~k.failed

\* The crank ends without a delivery, or after one.
FinishCrank(kk) ==
  /\ k' = ProcessRefcounts(kk)
  /\ saved' = k'
  /\ crank' = Idle

BeginDelivery(kk, type, v) ==
  /\ k' = kk
  /\ crank' = [type |-> type, vat |-> v, syscalls |-> 0]
  /\ saved' = k

\* Mutant: the references from the argument slots are not released.
DecrementTargetRefCount(kk, m) == DecrementRefCount(kk, m.target)

\* Mutant: the reference from the target is released twice.
DecrementTargetTwice(kk, m) == DecrementRefCount(DecrementRefCount(kk, m.target), m.target)

DecrementSendEventRefCount(kk, m) == DecrementRefCount(DecrementRefCount(kk, m.target), m.arg)

QueueRoom == Len(k.acceptanceQueue) + Len(k.runQueue) < MaxQueue

DoSend(kk, m) ==
  [IncrementRefCount(IncrementRefCount(kk, m.target), m.arg)
     EXCEPT !.acceptanceQueue = Append(@, m)]

\* Mutant: the vat stays on the list of live vats.
MarkVatStaysListed(kk, v, keeperCached) ==
  IF ~VatIsAlive(kk, v) THEN kk
  ELSE [kk EXCEPT !.terminatedVats = Append(@, v),
                  !.terminated = Append(kk.terminatedVats, v)]

\* A vat already terminated is left alone.  keeperCached says whether the
\* worker had been evicted before, so that the keeper fetched here stays in
\* the cache.
MarkVatAsTerminated(kk, v, keeperCached) ==
  IF ~VatIsAlive(kk, v) THEN kk
  ELSE [kk EXCEPT !.liveIDs = @ \ {v},
                  !.terminatedVats = Append(@, v),
                  !.terminated = Append(kk.terminatedVats, v),
                  !.vatKeepers = IF keeperCached THEN @ \cup {v} ELSE @ \ {v}]

\* terminateVat: vatAdmin is told in any case, with the info of the exit.
TerminateVat(kk, v, keeperCached, info) ==
  DoSend(MarkVatAsTerminated(kk, v, keeperCached), [target |-> AdminVat, arg |-> info])

\* Mutant: what the aborted delivery had sent stays queued.
RollbackKeepingSends ==
  [saved EXCEPT !.acceptanceQueue = k.acceptanceQueue,
                !.terminatedVats = k.terminatedVats,
                !.vatKeepers = k.vatKeepers,
                !.maybeFree = k.maybeFree]

\* rollbackCrank('start') restores the database, and only that.
RollbackCrank ==
  [saved EXCEPT !.terminatedVats = k.terminatedVats,
                !.vatKeepers = k.vatKeepers,
                !.maybeFree = k.maybeFree,
                !.failed = k.failed]

-----------------------------------------------------------------------------
\* Between cranks.

\* The host queues a message to a vat's (pinned) root object, one that the vat
\* has not given up (bound: exportRootObject would make a new object of it).
QueueToVatRoot(v) ==
  /\ Running
  /\ QueueRoom
  /\ v \in k.liveIDs
  /\ v \in k.exports[v]
  /\ k' = DoSend(k, [target |-> v, arg |-> NoObject])
  /\ saved' = k'
  /\ UNCHANGED crank

\* The host restarts the kernel: RAM is rebuilt from the database.
Restart ==
  /\ Running
  /\ k' = [k EXCEPT !.vatKeepers = {}, !.maybeFree = {}, !.terminatedVats = k.terminated]
  /\ saved' = k'
  /\ UNCHANGED crank

\* processAcceptanceMessage of a send: to the run-queue, or splat.
ProcessAcceptanceMessage ==
  /\ Running
  /\ k.acceptanceQueue # <<>>
  /\ LET m == Head(k.acceptanceQueue)
         taken == [k EXCEPT !.acceptanceQueue = Tail(@)]
     IN FinishCrank(
          IF OwnerOfKernelObject(k, m.target) # NoVat
          THEN [taken EXCEPT !.runQueue = Append(@, m)]
          ELSE DecrementSendEventRefCount(taken, m))

\* cleanupAfterTerminatedVat, a crank of its own, when the run policy's
\* allowCleanup() lets it run.  With a budget of one, the vat's keys go
\* one crank before the vat is forgotten.
CleanupTerminatedVat ==
  /\ Running
  /\ k.acceptanceQueue = <<>>
  /\ k.terminatedVats # <<>>
  /\ LET v == Head(k.terminatedVats)
         Orphan(kk, S) == OrphanKernelObjects(kk, S, v)
         Abandon(kk, S) == DeleteCListEntries(kk, v, S)
         DeleteKeys(kk) == [kk EXCEPT !.initialized = @ \ {v}]
         Forget(kk) == [kk EXCEPT !.terminatedVats = Tail(k.terminatedVats),
                                  !.terminated = Tail(k.terminatedVats)]
     IN \/ /\ CleanupBudget = "unlimited"
           /\ FinishCrank(Forget(DeleteKeys(
                Abandon(Orphan(k, k.exports[v]), k.imports[v]))))
        \/ /\ CleanupBudget = "one"
           /\ \E o \in k.exports[v] : FinishCrank(Orphan(k, {o}))
        \/ /\ CleanupBudget = "one" /\ k.exports[v] = {}
           /\ \E o \in k.imports[v] : FinishCrank(Abandon(k, {o}))
        \/ /\ CleanupBudget = "one" /\ k.exports[v] \cup k.imports[v] = {}
           /\ FinishCrank(IF v \in k.initialized THEN DeleteKeys(k) ELSE Forget(k))

\* processGCActionSet, and processGCMessage of what it returns.  A message
\* for a dead vat ends the crank, like a set of which nothing survives.
ProcessGCActions ==
  /\ Running
  /\ k.acceptanceQueue = <<>>
  /\ k.gcActions # {}
  /\ LET todo == GCActionsToProcess(k)
         examined == GCActionsExamined(k)
         krefs == {a.kref : a \in todo}
         v == (CHOOSE a \in todo : TRUE).vat
         type == (CHOOSE a \in todo : TRUE).type
         pruned == [k EXCEPT !.gcActions = @ \ examined]
         keepers == \A a \in examined : ProvidesVatKeeper(k, a.vat)
         deliver == todo # {} /\ VatIsAlive(k, v)
     IN \/ /\ ~keepers
           /\ k' = [k EXCEPT !.failed = TRUE]
           /\ UNCHANGED <<saved, crank>>
        \/ /\ keepers /\ ~deliver
           /\ FinishCrank(pruned)
        \/ /\ keepers /\ deliver /\ type = "dropExport"
           /\ BeginDelivery(ClearReachableFlags(pruned, v, krefs), "dropExports", v)
        \/ /\ keepers /\ deliver /\ type = "retireExport"
           /\ BeginDelivery(DeleteCListEntries(DeleteKernelObjects(pruned, krefs), v, krefs),
                            "retireExports", v)
        \/ /\ keepers /\ deliver /\ type = "retireImport"
           /\ BeginDelivery(DeleteCListEntries(pruned, v, krefs), "retireImports", v)

\* deliverRunQueueEvent of a send.  GC actions come first: the run-queue is
\* served only when there are none.
DeliverSend ==
  /\ Running
  /\ k.acceptanceQueue = <<>>
  /\ k.gcActions = {}
  /\ k.runQueue # <<>>
  /\ LET m == Head(k.runQueue)
         v == OwnerOfKernelObject(k, m.target)
         released == DecrementSendEventRefCount([k EXCEPT !.runQueue = Tail(@)], m)
     IN IF v = NoVat
        THEN FinishCrank(released)
        ELSE BeginDelivery(
               MapKernelSlotToVatSlot(MapKernelSlotToVatSlot(released, v, m.target), v, m.arg),
               "message", v)

\* processBringOutYourDead of a vat on the reapQueue, which counts of
\* deliveries, computrons and GC'd krefs fill: here, any vat at any time.
DeliverBringOutYourDead(v) ==
  /\ Running
  /\ k.acceptanceQueue = <<>>
  /\ k.gcActions = {}
  /\ VatIsAlive(k, v)
  /\ BeginDelivery(k, "bringOutYourDead", v)

\* processUpgradeVat: the old incarnation brings out its dead.  The event is not
\* in the queues: here, any time, as long as there is room for its report.
DeliverUpgradeVat(v) ==
  /\ Running
  /\ k.acceptanceQueue = <<>>
  /\ k.gcActions = {}
  /\ QueueRoom
  /\ v \in UpgradedVats
  /\ VatIsAlive(k, v)
  /\ BeginDelivery(k, "oldIncarnation", v)

\* enumerateNonDurableObjectExports, which the vrefs tell: all but the root.
NonDurableObjectExports(v) == k.exports[v] \ (DurableObjects \cup {v})

\* Then what it exported and is not durable is abandoned, and startVat is
\* delivered to the new incarnation.
StartNewIncarnation ==
  /\ crank.type = "oldIncarnation"
  /\ ~k.failed
  /\ k' = OrphanKernelObjects(k, NonDurableObjectExports(crank.vat), crank.vat)
  /\ crank' = [crank EXCEPT !.type = "newIncarnation"]
  /\ UNCHANGED saved

-----------------------------------------------------------------------------
\* During a delivery to crank.vat.  A vat that runs under liveslots runs its
\* user code in ordinary deliveries, and makes GC syscalls only when told to
\* bring out its dead; others (comms) make them whenever a remote does.
MayRunUserCode ==
  crank # Idle /\ (crank.vat \in LiveslotsVats => crank.type \in {"message", "newIncarnation"})
MayCollect ==
  crank # Idle /\
    (crank.vat \in LiveslotsVats => crank.type \in {"bringOutYourDead", "oldIncarnation"})

Syscall(kk) ==
  /\ crank # Idle
  /\ ~k.failed
  /\ crank.syscalls < MaxSyscalls
  /\ k' = kk
  /\ crank' = [crank EXCEPT !.syscalls = @ + 1]
  /\ UNCHANGED saved

MayPass(v) ==
  (MayMention(k, v) \ KeptRoots) \cup {NoObject} \cup ({k.nextKoid} \cap Objects)

SyscallSend(target, arg) ==
  LET v == crank.vat
  IN /\ MayRunUserCode
     /\ QueueRoom
     /\ target \in MayMention(k, v)
     /\ arg \in MayPass(v)
     /\ Syscall(DoSend(MapVatSlotToKernelSlot(MapVatSlotToKernelSlot(k, v, target), v, arg),
                       [target |-> target, arg |-> arg]))

\* syscall.dropImports; dropping what is already dropped changes nothing.
SyscallDropImports(o) ==
  /\ MayCollect
  /\ o \in (k.imports[crank.vat] \cap k.reach[crank.vat]) \ KeptRoots
  /\ Syscall(ClearReachableFlags(k, crank.vat, {o}))

\* syscall.retireImports of something still reachable is vat-fatal.
SyscallRetireImports(o) ==
  /\ MayCollect
  /\ o \in k.imports[crank.vat] \ k.reach[crank.vat]
  /\ Syscall(DeleteCListEntries(k, crank.vat, {o}))

\* syscall.retireExports insists that the kernel had dropped the export.
SyscallRetireExports(o) ==
  /\ MayCollect
  /\ o \in k.exports[crank.vat] \ k.reach[crank.vat]
  /\ Syscall(RetireKernelObjects(DeleteCListEntries(k, crank.vat, {o}), {o}))

SyscallAbandonExports(o) ==
  /\ MayCollect
  /\ o \in k.exports[crank.vat]
  /\ Syscall(OrphanKernelObjects(k, {o}, crank.vat))

\* vatAdmin's device call runs terminateVat of another vat synchronously.
AdminTerminatesVat(v) ==
  /\ crank # Idle
  /\ crank.vat = AdminVat /\ crank.type = "message"
  /\ v \notin CriticalVats \cup {AdminVat}
  /\ VatIsAlive(k, v)
  /\ \E keeperCached \in BOOLEAN : Syscall(TerminateVat(k, v, keeperCached, NoObject))

\* vatUpgradeCallback tells vatAdmin how an upgrade ended.
ReportUpgrade(kk) == DoSend(kk, [target |-> AdminVat, arg |-> NoObject])

\* The worker reports that the delivery is done.
CompleteDelivery ==
  /\ crank # Idle /\ crank.type # "oldIncarnation"
  /\ ~k.failed
  /\ FinishCrank(IF crank.type = "newIncarnation" THEN ReportUpgrade(k) ELSE k)

\* Whatever would end the vat in another delivery only undoes the upgrade.
AbortUpgrade ==
  /\ crank.type \in UpgradeDeliveries
  /\ ~k.failed
  /\ FinishCrank(ReportUpgrade(RollbackCrank))

\* The end of a critical vat is a panic, which commits nothing.  Whether a GC
\* delivery can end the vat is a parameter, and so is whether vatAdmin fails
\* after terminating another, and whether the reason given to an exit with
\* failure may name an object.
MayTerminate ==
  /\ crank.vat \notin CriticalVats
  /\ crank.type \notin UpgradeDeliveries
  /\ crank.type # "message" => "gcDelivery" \in Faults
MayAbort ==
  /\ MayTerminate
  /\ k.terminatedVats # saved.terminatedVats => "afterAdminTerminate" \in Faults

\* syscall.exit without failure: the vat is terminated, its work is kept.
ExitDelivery(info) ==
  /\ MayRunUserCode
  /\ ~k.failed
  /\ MayTerminate
  /\ info \in MayPass(crank.vat)
  /\ FinishCrank(TerminateVat(MapVatSlotToKernelSlot(k, crank.vat, info),
                              crank.vat, FALSE, info))

\* An illegal syscall (keeper evicted with the worker), a delivery error
\* (worker stopped before, keeper cached again) or exit with failure: back
\* to the 'start' savepoint, with the message, and the vat is terminated.
AbortDelivery(keeperCached, info) ==
  /\ crank # Idle
  /\ ~k.failed
  /\ MayAbort
  /\ info # NoObject =>
       "failureReason" \in Faults /\ MayRunUserCode /\ info \in MayPass(crank.vat)
  /\ FinishCrank(TerminateVat(RollbackCrank, crank.vat, keeperCached, info))

-----------------------------------------------------------------------------
KernelStep ==
  \/ ProcessAcceptanceMessage
  \/ CleanupTerminatedVat
  \/ ProcessGCActions
  \/ DeliverSend

VatStep ==
  \/ \E o \in Objects :
       \/ \E p \in Objects \cup {NoObject} : SyscallSend(o, p)
       \/ SyscallDropImports(o)
       \/ SyscallRetireImports(o)
       \/ SyscallRetireExports(o)
       \/ SyscallAbandonExports(o)
  \/ \E v \in Vats : AdminTerminatesVat(v)

EndDelivery ==
  \/ CompleteDelivery \/ AbortUpgrade
  \/ StartNewIncarnation
  \/ \E info \in Objects \cup {NoObject} :
       \/ ExitDelivery(info)
       \/ \E keeperCached \in BOOLEAN : AbortDelivery(keeperCached, info)

HostStep ==
  \/ Restart
  \/ \E v \in Vats :
       QueueToVatRoot(v) \/ DeliverBringOutYourDead(v) \/ DeliverUpgradeVat(v)

Next == KernelStep \/ VatStep \/ EndDelivery \/ HostStep

Spec == Init /\ [][Next]_vars

\* When KernelStep and EndDelivery are enabled (both always change vars).
KernelMayStep ==
  /\ Running
  /\ \/ k.acceptanceQueue # <<>> \/ k.terminatedVats # <<>>
     \/ k.gcActions # {} \/ k.runQueue # <<>>
DeliveryMayEnd == crank # Idle /\ ~k.failed

\* run() calls step after step until the queues are empty, and a worker's
\* delivery ends: its computation is metered.  The first two conjuncts are
\* weak fairness of both, with ENABLED written out.  The host queues nothing
\* within run(): new sends do not keep the acceptance queue, which comes
\* first, from ever being empty.
Fairness ==
  /\ []<>~KernelMayStep \/ []<><<KernelStep>>_vars
  /\ []<>~DeliveryMayEnd \/ []<><<EndDelivery>>_vars
  /\ <>[][\A v \in Vats : ~QueueToVatRoot(v)]_vars

FairSpec == Spec /\ Fairness

=============================================================================

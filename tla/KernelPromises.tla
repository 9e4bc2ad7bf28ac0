---------------------------- MODULE KernelPromises ----------------------------
(***************************************************************************)
(* The SwingSet kernel's promise table and the routing of messages to      *)
(* promises: kernelKeeper.js (promises), kernelQueue.js, vatTranslator.js  *)
(* and kernel.js.  Sends go to objects or promises and carry a result      *)
(* promise; they wait on the queue of an unresolved promise, or are        *)
(* pipelined to its decider; resolutions are notified to the subscribers.  *)
(*                                                                         *)
(* Objects are the pinned root objects of the vats: what becomes of other  *)
(* objects is in KernelGC.  A c-list is the set of promises a vat knows.   *)
(***************************************************************************)
EXTENDS Integers, Sequences, FiniteSets, SequencesExt

CONSTANTS
  NVats,          \* number of vats
  NPromises,      \* bound on the kpids the kernel allocates (kp.nextID)
  MaxSends,       \* bound on the sends of a behaviour
  MaxHostSends,   \* bound on the sends of the host
  MaxSyscalls,    \* bound on the syscalls of a behaviour
  MaxResolutions, \* bound on the resolutions of one syscall.resolve
  HostReads,      \* bound: whether the host reads results, and restarts
  PipeliningVats, \* vats with enablePipelining (comms)
  Terminations,   \* bound: whether vats end
  Upgrades        \* bound: whether vats are upgraded

ASSUME SizesAssumption ==
  /\ NVats \in Nat \ {0} /\ NPromises \in Nat
  /\ MaxSends \in Nat /\ MaxHostSends \in Nat /\ MaxSyscalls \in Nat /\ MaxResolutions \in {1, 2}
ASSUME OptionsAssumption ==
  /\ PipeliningVats \subseteq 1..NVats
  /\ HostReads \in BOOLEAN /\ Terminations \in BOOLEAN /\ Upgrades \in BOOLEAN
\* Room for what vatAdmin is told of the end of every other vat (see Reserved).
ASSUME RoomAssumption == Terminations => NVats - 1 <= NPromises /\ NVats - 1 <= MaxSends

VARIABLES
  k,       \* the kernel state
  saved,   \* the kernel state at the savepoint a failure goes back to
  crank    \* the delivery in progress

vars == <<k, saved, crank>>

Vats == 1..NVats
Promises == 1..NPromises
NoVat == 0
NoPromise == 0
AdminVat == 1

\* What a slot of a message or of resolution data names.  Data that is not
\* just an object (a promise in an array, say) is not callable.
Root(v) == [type |-> "object", id |-> v]
Promise(p) == [type |-> "promise", id |-> p]
NoSlot == [type |-> "none", id |-> 0]
Slot == {NoSlot} \cup {Root(v) : v \in Vats} \cup {Promise(p) : p \in Promises}

\* A send on any queue.  The sender, its number and the target it named are
\* not in the kernel: the properties need them.
Send == [type : {"send"}, target : Slot \ {NoSlot}, arg : Slot, result : Promises \cup {NoPromise},
         sender : Vats \cup {NoVat}, number : 1..MaxSends, named : Slot \ {NoSlot}]
Notification == [type : {"notify"}, vat : Vats, kpid : Promises]
UpgradeEvent == [type : {"upgrade-vat"}, vat : Vats]
Event == Send \cup Notification \cup UpgradeEvent

PromiseStates == {"absent", "unresolved", "fulfilled", "rejected"}
KernelPromise ==
  [state : PromiseStates, decider : Vats \cup {NoVat}, subscribers : SUBSET Vats,
   queue : Seq(Send), refCount : Nat, data : Slot]
Absent == [state |-> "absent", decider |-> NoVat, subscribers |-> {},
           queue |-> <<>>, refCount |-> 0, data |-> NoSlot]

KernelState ==
  [ promises        : [Promises -> KernelPromise],
    clist           : [Vats -> SUBSET Promises],
    acceptanceQueue : Seq(Event),
    runQueue        : Seq(Event),
    nextKpid        : Nat,
    live            : SUBSET Vats,
    terminated      : Seq(Vats),                   \* dead, and not yet deleted
    sends           : Nat,                         \* numbers the sends
    hostSends       : Nat,
    external        : [Promises -> Nat],           \* the references of the host
    awaiting        : [Vats -> SUBSET Promises],   \* in the vats: see SyscallSubscribe
    handedOn        : SUBSET Promises,             \* history: see SyscallSend
    maybeFree       : Seq(Promises),               \* RAM: maybeFreeKrefs, in its order
    failed          : BOOLEAN ]                    \* an assertion failed: panic

CrankType == [type : {"idle", "message", "notify", "upgrade"}, vat : Vats \cup {NoVat},
              syscalls : 0..MaxSyscalls]

Init ==
  /\ k = [ promises |-> [p \in Promises |-> Absent], clist |-> [v \in Vats |-> {}],
           acceptanceQueue |-> <<>>, runQueue |-> <<>>, nextKpid |-> 1,
           live |-> Vats, terminated |-> <<>>, sends |-> 0, hostSends |-> 0,
           external |-> [p \in Promises |-> 0], awaiting |-> [v \in Vats |-> {}],
           handedOn |-> {},
           maybeFree |-> <<>>, failed |-> FALSE ]
  /\ saved = k
  /\ crank = [type |-> "idle", vat |-> NoVat, syscalls |-> 0]

Fail(kk) == [kk EXCEPT !.failed = TRUE]
HasKernelPromise(kk, p) == kk.promises[p].state # "absent"
Unresolved(kk, p) == kk.promises[p].state = "unresolved"
Settled(kk, p) == kk.promises[p].state \in {"fulfilled", "rejected"}
Ascending(S) ==
  CHOOSE ps \in [1..Cardinality(S) -> S] : \A i, j \in DOMAIN ps : i < j => ps[i] < ps[j]
CountIn(queue, S) == Cardinality({i \in DOMAIN queue : queue[i] \in S})

\* A loop over seq: Op(kk, x) is the state after the turn of x.
ForEach(Op(_, _), kk, seq) ==
  LET after[n \in 0..Len(seq)] == IF n = 0 THEN kk ELSE Op(after[n - 1], seq[n])
  IN after[Len(seq)]

-----------------------------------------------------------------------------
\* Reference counts of promises (kernelKeeper.js).

IncrementRefCount(kk, p) ==
  IF HasKernelPromise(kk, p)
  THEN [kk EXCEPT !.promises[p].refCount = @ + 1]
  ELSE Fail(kk)

\* Mutant: a reference is taken off twice.
DecrementRefCountTwice(kk, p) ==
  IF kk.promises[p].refCount = 0 THEN Fail(kk)
  ELSE [kk EXCEPT !.promises[p].refCount = @ - 2]

DecrementRefCount(kk, p) ==
  IF kk.promises[p].refCount = 0 THEN Fail(kk)
  ELSE LET less == [kk EXCEPT !.promises[p].refCount = @ - 1]
           free == kk.promises[p].refCount = 1 /\ ~Contains(kk.maybeFree, p)
       IN IF free THEN [less EXCEPT !.maybeFree = Append(@, p)] ELSE less

IncrementSlot(kk, s) == IF s.type = "promise" THEN IncrementRefCount(kk, s.id) ELSE kk
DecrementSlot(kk, s) == IF s.type = "promise" THEN DecrementRefCount(kk, s.id) ELSE kk

IncrementResult(kk, p) == IF p = NoPromise THEN kk ELSE IncrementRefCount(kk, p)
DecrementResult(kk, p) == IF p = NoPromise THEN kk ELSE DecrementRefCount(kk, p)

\* Mutant: the reference from the result is not released.
DecrementTargetAndArg(kk, e) == DecrementSlot(DecrementSlot(kk, e.target), e.arg)

DecrementSendEventRefCount(kk, e) ==
  DecrementSlot(DecrementResult(DecrementSlot(kk, e.target), e.result), e.arg)

\* processRefcounts at one kref: data of a settled promise is released, which
\* may add krefs to the set being iterated, but never one a second time.
ProcessMaybeFree(kk, p) ==
  IF ~HasKernelPromise(kk, p) \/ kk.promises[p].refCount > 0 THEN kk
  ELSE [DecrementSlot(kk, kk.promises[p].data) EXCEPT !.promises[p] = Absent]

ProcessRefcounts(kk) ==
  LET visited[n \in 0..NPromises] ==
        IF n = 0 THEN kk
        ELSE IF n > Len(visited[n - 1].maybeFree) THEN visited[n - 1]
        ELSE ProcessMaybeFree(visited[n - 1], visited[n - 1].maybeFree[n])
  IN [visited[NPromises] EXCEPT !.maybeFree = <<>>]

-----------------------------------------------------------------------------
\* The promise table and c-lists.

AddKernelPromise(kk, decider) ==
  [kk EXCEPT !.promises[kk.nextKpid] =
                [Absent EXCEPT !.state = "unresolved", !.decider = decider],
             !.nextKpid = @ + 1]

AddCListEntry(kk, v, p) ==
  [IncrementRefCount(kk, p) EXCEPT !.clist[v] = @ \cup {p}]

\* mapVatSlotToKernelSlot: the kpid kp.nextID stands for a promise the vat
\* has not mentioned before, which it decides.
MapVatSlotToKernelSlot(kk, v, s) ==
  IF s = Promise(kk.nextKpid)
  THEN AddCListEntry(AddKernelPromise(kk, v), v, kk.nextKpid)
  ELSE kk

MapKernelSlotToVatSlot(kk, v, s) ==
  IF s.type = "promise" /\ s.id \notin kk.clist[v] THEN AddCListEntry(kk, v, s.id) ELSE kk

DeleteCListEntry(kk, v, p) ==
  [DecrementRefCount(kk, p) EXCEPT !.clist[v] = @ \ {p}]

DeleteCListEntries(kk, v, ps) ==
  ForEach(LAMBDA acc, p : DeleteCListEntry(MapKernelSlotToVatSlot(acc, v, Promise(p)), v, p),
           kk, ps)

RequeueKernelPromise(kk, p) ==
  [kk EXCEPT !.acceptanceQueue = @ \o kk.promises[p].queue, !.promises[p].queue = <<>>]

\* Mutant: the last message queued comes first.
AddMessageToPromiseStack(kk, p, e) ==
  IF Unresolved(kk, p) THEN [kk EXCEPT !.promises[p].queue = <<e>> \o @] ELSE Fail(kk)

AddMessageToPromiseQueue(kk, p, e) ==
  IF Unresolved(kk, p) THEN [kk EXCEPT !.promises[p].queue = Append(@, e)] ELSE Fail(kk)

\* Mutant: the messages stay on the queue of the settled promise.
ResolveKeepingQueue(kk, p, state, data) ==
  [IncrementSlot(kk, data) EXCEPT
     !.promises[p].state = state, !.promises[p].data = data,
     !.promises[p].decider = NoVat, !.promises[p].subscribers = {}]

\* A resolution clears the decider, the subscribers and the queue.
ResolveKernelPromise(kk, p, state, data) ==
  LET requeued == RequeueKernelPromise(IncrementSlot(kk, data), p)
  IN [requeued EXCEPT !.promises[p] =
        [Absent EXCEPT !.state = state, !.data = data,
                       !.refCount = requeued.promises[p].refCount]]

SetDecider(kk, p, v) ==
  IF Unresolved(kk, p) /\ kk.promises[p].decider = NoVat
  THEN [kk EXCEPT !.promises[p].decider = v]
  ELSE Fail(kk)

\* Mutant: the sender of a message still decides its result.
ClearDeciderNot(kk, p) == kk

ClearDecider(kk, p) == [kk EXCEPT !.promises[p].decider = NoVat]

\* In the order of the c-list's keys, here the order of the kpids.
PromisesByDecider(kk, v) ==
  Ascending({p \in kk.clist[v] : Unresolved(kk, p) /\ kk.promises[p].decider = v})

-----------------------------------------------------------------------------
\* kernelQueue.js.

Notify(kk, v, p) ==
  [IncrementRefCount(kk, p) EXCEPT
     !.acceptanceQueue = Append(@, [type |-> "notify", vat |-> v, kpid |-> p])]

\* Mutant: who subscribes late is not told.
DoSubscribeOnly(kk, v, p) == [kk EXCEPT !.promises[p].subscribers = @ \cup {v}]

DoSubscribe(kk, v, p) ==
  IF Unresolved(kk, p)
  THEN [kk EXCEPT !.promises[p].subscribers = @ \cup {v}]
  ELSE Notify(kk, v, p)

\* A resolution by the decider v, or by the kernel (NoVat) of what nobody
\* decides.
DoResolve(kk, v, p, state, data) ==
  IF ~Unresolved(kk, p) \/ kk.promises[p].decider # v THEN Fail(kk)
  ELSE ResolveKernelPromise(
         ForEach(LAMBDA acc, w : Notify(acc, w, p), kk, Ascending(kk.promises[p].subscribers)),
         p, state, data)

ResolveToError(kk, v, p) == DoResolve(kk, v, p, "rejected", NoSlot)

DoSend(kk, sender, target, arg, result) ==
  [IncrementSlot(IncrementResult(IncrementSlot(kk, target), result), arg) EXCEPT
     !.sends = @ + 1,
     !.acceptanceQueue = Append(@,
        [type |-> "send", target |-> target, arg |-> arg, result |-> result,
         sender |-> sender, number |-> kk.sends + 1, named |-> target])]

QueueToKref(kk, target) ==
  DoSend(AddKernelPromise(kk, NoVat), NoVat, target, NoSlot, kk.nextKpid)

RegisterInterest(kk, p) == [IncrementRefCount(kk, p) EXCEPT !.external[p] = @ + 1]

\* terminateVat: what the vat decided is rejected, and vatAdmin is told.  The
\* last line is the vat's own state, which dies with it.
TerminateVat(kk, v) ==
  LET dead == [kk EXCEPT !.live = @ \ {v}, !.terminated = Append(@, v)]
      rejected == ForEach(LAMBDA acc, p : ResolveToError(acc, v, p),
                           dead, PromisesByDecider(kk, v))
  IN [QueueToKref(rejected, Root(AdminVat)) EXCEPT !.awaiting[v] = {}]

-----------------------------------------------------------------------------
\* Routing (routeSendEvent).

\* Where a send goes now: to a vat, to the queue of its target, or nowhere
\* (splat), in which case its result is rejected with a promise's rejection
\* or another error.
Deliver(v, target) == [to |-> "vat", vat |-> v, target |-> target]
Requeue == [to |-> "queue"]
Splat(data) == [to |-> "splat", data |-> data]

RouteToObject(kk, v) == IF v \in kk.live THEN Deliver(v, Root(v)) ELSE Splat(NoSlot)

RouteSendEvent(kk, target) ==
  LET kp == kk.promises[target.id]
  IN IF target.type = "object" THEN RouteToObject(kk, target.id)
     ELSE IF kp.state = "fulfilled"
     THEN IF kp.data.type = "object" THEN RouteToObject(kk, kp.data.id) ELSE Splat(NoSlot)
     ELSE IF kp.state = "rejected" THEN Splat(kp.data)
     ELSE IF kp.decider = NoVat THEN Requeue
     ELSE IF kp.decider \notin kk.live THEN Splat(NoSlot)
     ELSE IF kp.decider \in PipeliningVats THEN Deliver(kp.decider, target)
     ELSE Requeue

SplatSend(kk, e, data) ==
  DecrementSendEventRefCount(
    IF e.result = NoPromise THEN kk ELSE DoResolve(kk, NoVat, e.result, "rejected", data), e)

-----------------------------------------------------------------------------
\* Cranks.

Running == crank.type = "idle" /\ ~k.failed
Delivering == crank.type # "idle" /\ ~k.failed

FinishCrank(kk) ==
  /\ k' = ProcessRefcounts(kk)
  /\ saved' = k'
  /\ crank' = [crank EXCEPT !.type = "idle", !.vat = NoVat]

\* savepoint is 'start', before the event was dequeued, or 'deliver', after.
BeginDelivery(kk, type, v, savepoint) ==
  /\ k' = kk
  /\ saved' = savepoint
  /\ crank' = [crank EXCEPT !.type = type, !.vat = v]

\* Bound: what the kernel tells vatAdmin later has room kept for it.
Reserved ==
  (IF Terminations THEN Cardinality(k.live \ {AdminVat}) ELSE 0)
  + CountIn(k.acceptanceQueue, UpgradeEvent) + CountIn(k.runQueue, UpgradeEvent)
  + (IF crank.type = "upgrade" THEN 1 ELSE 0)
Room(promises, sends) ==
  /\ k.nextKpid + promises + Reserved <= NPromises + 1
  /\ k.sends + sends + Reserved <= MaxSends

\* The host queues a message to a vat's root object, with resultPolicy
\* 'none', or with interest in the result.
QueueToVatRoot(v) ==
  /\ Running
  /\ Room(1, 1)
  /\ k.hostSends < MaxHostSends
  /\ v \in k.live
  /\ LET counted == [k EXCEPT !.hostSends = @ + 1]
     IN \/ k' = DoSend(counted, NoVat, Root(v), NoSlot, NoPromise)
        \/ k' = RegisterInterest(QueueToKref(counted, Root(v)), k.nextKpid)
  /\ saved' = k'
  /\ UNCHANGED crank

\* kpResolution trades the interest in a promise, with incref, for one in
\* what its data holds.  It is not a crank: nothing is swept.
KpResolution(p) ==
  /\ HostReads
  /\ Running
  /\ k.external[p] > 0
  /\ Settled(k, p)
  /\ LET data == k.promises[p].data
         read == [DecrementRefCount(k, p) EXCEPT !.external[p] = @ - 1]
     IN \E incref \in BOOLEAN :
          k' = IF incref /\ data.type = "promise" THEN RegisterInterest(read, data.id) ELSE read
  /\ saved' = k'
  /\ UNCHANGED crank

\* The host restarts the kernel, which loses what is in RAM.
Restart ==
  /\ HostReads
  /\ Running
  /\ k' = [k EXCEPT !.maybeFree = <<>>]
  /\ saved' = k'
  /\ UNCHANGED crank

\* A send to a promise fulfilled with an object is re-targeted.
ProcessAcceptanceMessage ==
  /\ Running
  /\ k.acceptanceQueue # <<>>
  /\ LET e == Head(k.acceptanceQueue)
         taken == [k EXCEPT !.acceptanceQueue = Tail(@)]
         route == RouteSendEvent(k, e.target)
         Retarget(kk) == IF route.target = e.target THEN kk
                         ELSE IncrementSlot(DecrementSlot(kk, e.target), route.target)
     IN FinishCrank(
          IF e.type # "send" THEN [taken EXCEPT !.runQueue = Append(@, e)]
          ELSE IF route.to = "splat" THEN SplatSend(taken, e, route.data)
          ELSE IF route.to = "queue" THEN AddMessageToPromiseQueue(taken, e.target.id, e)
          ELSE [Retarget(taken) EXCEPT
                  !.runQueue = Append(@, [e EXCEPT !.target = route.target])])

\* cleanupAfterTerminatedVat: the promises in the c-list of the first dead
\* vat, as many as the run policy's budget allows, or all and then the rest.
CleanupTerminatedVat ==
  /\ Running
  /\ k.acceptanceQueue = <<>>
  /\ k.terminated # <<>>
  /\ LET v == Head(k.terminated)
         ps == Ascending(k.clist[v])
         Abandon(n) == ForEach(LAMBDA acc, p : DeleteCListEntry(acc, v, p),
                                k, SubSeq(ps, 1, n))
     IN \/ \E budget \in 1..Len(ps) : FinishCrank(Abandon(budget))
        \/ FinishCrank([Abandon(Len(ps)) EXCEPT !.terminated = Tail(@)])

\* The next event of the run-queue, when nothing comes before it.
RunQueueHead(type) ==
  /\ Running
  /\ k.acceptanceQueue = <<>>
  /\ k.runQueue # <<>>
  /\ Head(k.runQueue).type = type

Dequeued == [k EXCEPT !.runQueue = Tail(@)]

\* translateMessage insists that a promise target is decided by the vat, and
\* that the result is decided by nobody.  What waits for the result of a
\* delivery to a pipelining vat is sent after it.
TranslateMessage(kk, v, target, e) ==
  LET mapped == MapKernelSlotToVatSlot(MapKernelSlotToVatSlot(kk, v, target), v, e.arg)
      checked == IF target.type = "promise" =>
                      Unresolved(kk, target.id) /\ kk.promises[target.id].decider = v
                 THEN mapped ELSE Fail(mapped)
      decided == SetDecider(MapKernelSlotToVatSlot(checked, v, Promise(e.result)), e.result, v)
  IN IF e.result = NoPromise THEN checked
     ELSE IF v \in PipeliningVats THEN RequeueKernelPromise(decided, e.result)
     ELSE decided

DeliverSend ==
  /\ RunQueueHead("send")
  /\ LET e == Head(k.runQueue)
         route == RouteSendEvent(k, e.target)
     IN \/ /\ route.to = "splat"
           /\ FinishCrank(SplatSend(Dequeued, e, route.data))
        \/ /\ route.to = "queue"
           /\ FinishCrank(AddMessageToPromiseQueue(Dequeued, e.target.id, e))
        \/ /\ route.to = "vat"
           /\ BeginDelivery(
                TranslateMessage(DecrementSendEventRefCount(Dequeued, e),
                                 route.vat, route.target, e),
                "message", route.vat, k)

\* getKpidsToRetire: the promise, and the settled promises its data leads to.
KpidsToRetire(kk, p) ==
  LET chain[n \in 1..NPromises] ==
        IF n = 1 THEN <<p>>
        ELSE LET data == kk.promises[Last(chain[n - 1])].data
             IN IF data.type = "promise" /\ ~Unresolved(kk, data.id)
                   /\ ~Contains(chain[n - 1], data.id)
                THEN Append(chain[n - 1], data.id) ELSE chain[n - 1]
  IN chain[NPromises]

\* translateNotify of one settled promise.
TranslateNotify(kk, v, p) ==
  MapKernelSlotToVatSlot(MapKernelSlotToVatSlot(kk, v, Promise(p)), v, kk.promises[p].data)

\* A notify to a dead vat, or of what an earlier one covered (no c-list
\* entry), is over at once; one of an unresolved promise is spurious.
DeliverNotify ==
  /\ RunQueueHead("notify")
  /\ LET v == Head(k.runQueue).vat
         p == Head(k.runQueue).kpid
         released == DecrementRefCount(Dequeued, p)
         targets == KpidsToRetire(k, p)
         translated == ForEach(LAMBDA acc, q : TranslateNotify(acc, v, q), released, targets)
         spurious == v \in k.live /\ ~Settled(k, p)
         deliver == v \in k.live /\ p \in k.clist[v] /\ ~spurious
     IN \/ /\ ~deliver
           /\ FinishCrank(IF spurious THEN Fail(released) ELSE released)
        \/ /\ deliver
           /\ BeginDelivery(
                [DeleteCListEntries(translated, v, targets) EXCEPT
                   !.awaiting[v] = @ \ ToSet(targets)],
                "notify", v, k)

\* Mutant: nobody decides what the old incarnation decided.
UpgradeClearingDeciders(kk, v) ==
  ForEach(LAMBDA acc, p : ClearDecider(acc, p), kk, PromisesByDecider(kk, v))

\* Mutant: the c-list entry goes although a notify will come.
UpgradeDeletingEntries(kk, v) ==
  LET Disconnect(acc, p) == DeleteCListEntries(ResolveToError(acc, v, p), v, <<p>>)
  IN ForEach(Disconnect, kk, PromisesByDecider(kk, v))

\* processUpgradeVat: what the old incarnation decided is rejected, and leaves
\* the c-list unless a notify will come for it; then startVat is delivered.
UpgradeVat(kk, v) ==
  LET Disconnect(acc, p) ==
        LET rejected == ResolveToError(acc, v, p)
        IN IF v \in acc.promises[p].subscribers THEN rejected
           ELSE DeleteCListEntries(rejected, v, <<p>>)
  IN ForEach(Disconnect, kk, PromisesByDecider(kk, v))

DeliverUpgradeVat ==
  /\ RunQueueHead("upgrade-vat")
  /\ LET v == Head(k.runQueue).vat
     IN IF v \in k.live
        THEN BeginDelivery(UpgradeVat(Dequeued, v), "upgrade", v, Dequeued)
        ELSE FinishCrank(Dequeued)

-----------------------------------------------------------------------------
\* Syscalls of crank.vat.

Syscall(kk) ==
  /\ Delivering
  /\ crank.syscalls < MaxSyscalls
  /\ k' = kk
  /\ crank' = [crank EXCEPT !.syscalls = @ + 1]
  /\ UNCHANGED saved

\* The promises a vat may mention: those in its c-list, and a new one.
MayMention(kk, v) == {Promise(p) : p \in kk.clist[v]} \cup {Promise(kk.nextKpid)}
New(kk, s) == IF s = Promise(kk.nextKpid) THEN 1 ELSE 0

\* Vats know each other's root objects.  A vat's sends to its own objects, or
\* to promises it decides, do not reach the kernel.  The result is a new
\* promise, or, for pipelining vats, one the vat decides, whose decision
\* passes to the receiver (handedOn records those).
SyscallSend(target, arg, result) ==
  LET v == crank.vat
      mapped == MapVatSlotToKernelSlot(k, v, arg)
      withResult == IF result = NoPromise THEN mapped
                    ELSE ClearDecider(MapVatSlotToKernelSlot(mapped, v, Promise(result)), result)
  IN /\ Delivering
     /\ target \notin {NoSlot, Root(v)}
     /\ target.type = "promise" => target.id \in k.clist[v] /\ k.promises[target.id].decider # v
     /\ arg = NoSlot \/ arg \in MayMention(k, v)
     /\ \/ result \in {NoPromise, mapped.nextKpid}
        \/ v \in PipeliningVats /\ result \in mapped.clist[v]
           /\ Unresolved(mapped, result) /\ mapped.promises[result].decider = v
     /\ Room(withResult.nextKpid - k.nextKpid, 1)
     /\ Syscall([DoSend(withResult, v, target, arg, result) EXCEPT
                   !.handedOn = @ \cup ({result} \cap mapped.clist[v])])

\* awaiting records what the vat has yet to hear of.
SyscallSubscribe(p) ==
  LET v == crank.vat
  IN /\ Delivering
     /\ Promise(p) \in MayMention(k, v)
     /\ Room(New(k, Promise(p)), 0)
     /\ Syscall([DoSubscribe(MapVatSlotToKernelSlot(k, v, Promise(p)), v, p) EXCEPT
                   !.awaiting[v] = @ \cup {p}])

\* A resolution: a promise, fulfilled with an object or with data that may
\* hold a promise, or rejected with such data.
Resolution ==
  {r \in [kpid : Promises, state : {"fulfilled", "rejected"}, data : Slot] :
     r.state = "rejected" => r.data.type # "object"}

MapResolution(kk, v, r) == MapVatSlotToKernelSlot(kk, v, r.data)

\* Vats resolve what they have mentioned, if only in the same syscall.
MayResolve(kk, v, r) ==
  /\ r.kpid \in kk.clist[v]
  /\ kk.promises[r.kpid].decider = v
  /\ r.data.type = "promise" => r.data \in MayMention(kk, v)

\* All c-list entries are deleted before the first promise is resolved.
SyscallResolve(rs) ==
  LET v == crank.vat
      kpids == [i \in DOMAIN rs |-> rs[i].kpid]
      mapped == ForEach(LAMBDA acc, r : MapResolution(acc, v, r), k, rs)
      retired == DeleteCListEntries(mapped, v, kpids)
      resolved == ForEach(LAMBDA acc, r : DoResolve(acc, v, r.kpid, r.state, r.data),
                           retired, rs)
  IN /\ Delivering
     /\ Room(mapped.nextKpid - k.nextKpid, 0)
     /\ Syscall([resolved EXCEPT !.awaiting[v] = @ \ ToSet(kpids)])

SyscallResolveOne(r) ==
  /\ Delivering
  /\ MayResolve(k, crank.vat, r)
  /\ SyscallResolve(<<r>>)

SyscallResolveTwo(r) ==
  /\ Delivering
  /\ MaxResolutions = 2
  /\ MayResolve(k, crank.vat, r)
  /\ \E s \in Resolution :
       /\ r.kpid # s.kpid
       /\ MayResolve(MapResolution(k, crank.vat, r), crank.vat, s)
       /\ SyscallResolve(<<r, s>>)

\* vatAdmin's device: terminateVat at once, upgrades through the queues.
AdminTerminatesVat(v) ==
  /\ Terminations
  /\ Delivering
  /\ crank.vat = AdminVat
  /\ v \in k.live \ {AdminVat}
  /\ Syscall(TerminateVat(k, v))

AdminUpgradesVat(v) ==
  /\ Upgrades
  /\ Delivering
  /\ crank.vat = AdminVat
  /\ v # AdminVat
  /\ Room(1, 1)
  /\ Syscall([k EXCEPT !.acceptanceQueue = Append(@, [type |-> "upgrade-vat", vat |-> v])])

-----------------------------------------------------------------------------
\* The end of a delivery.  Bound: vatAdmin itself does not end.

ReportUpgrade(kk) ==
  IF crank.type = "upgrade" THEN QueueToKref(kk, Root(AdminVat)) ELSE kk

CompleteDelivery ==
  /\ Delivering
  /\ FinishCrank(ReportUpgrade(k))

\* syscall.exit without failure keeps the work of the delivery.
ExitDelivery ==
  /\ Terminations
  /\ Delivering
  /\ crank.type # "upgrade" /\ crank.vat # AdminVat
  /\ FinishCrank(TerminateVat(k, crank.vat))

\* The database goes back to the savepoint, maybeFreeKrefs does not.
RollbackCrank == [saved EXCEPT !.maybeFree = k.maybeFree]

\* A failure ends the vat, and the event is tried again; a failed upgrade
\* leaves the old incarnation as it was, and the event is consumed.
AbortDelivery ==
  /\ Terminations
  /\ Delivering
  /\ crank.type # "upgrade" /\ crank.vat # AdminVat
  /\ FinishCrank(TerminateVat(RollbackCrank, crank.vat))

AbortUpgrade ==
  /\ Delivering
  /\ crank.type = "upgrade"
  /\ FinishCrank(ReportUpgrade(RollbackCrank))

-----------------------------------------------------------------------------
KernelStep ==
  \/ ProcessAcceptanceMessage
  \/ CleanupTerminatedVat
  \/ DeliverSend
  \/ DeliverNotify
  \/ DeliverUpgradeVat

VatStep ==
  \/ \E target, arg \in Slot, result \in Promises \cup {NoPromise} :
       SyscallSend(target, arg, result)
  \/ \E p \in Promises : SyscallSubscribe(p)
  \/ \E r \in Resolution : SyscallResolveOne(r) \/ SyscallResolveTwo(r)
  \/ \E v \in Vats : AdminTerminatesVat(v) \/ AdminUpgradesVat(v)

EndDelivery == CompleteDelivery \/ ExitDelivery \/ AbortDelivery \/ AbortUpgrade

HostStep ==
  \/ Restart
  \/ \E v \in Vats : QueueToVatRoot(v)
  \/ \E p \in Promises : KpResolution(p)

Next == KernelStep \/ VatStep \/ EndDelivery \/ HostStep

Spec == Init /\ [][Next]_vars

\* run() takes step after step until the queues are empty, and a worker's
\* delivery ends: its computation is metered.  Weak fairness of KernelStep and
\* EndDelivery, with ENABLED written out and the steps told by their effect:
\* between cranks every step is the kernel's or the host's, and only
\* EndDelivery makes the crank idle.
KernelMayStep ==
  Running /\ (k.acceptanceQueue # <<>> \/ k.terminated # <<>> \/ k.runQueue # <<>>)

TakesKernelStep ==
  /\ Running /\ ~Restart
  /\ k'.hostSends = k.hostSends /\ k'.external = k.external
EndsDelivery == Delivering /\ crank'.type = "idle"

Fairness ==
  /\ []<>~KernelMayStep \/ []<><<TakesKernelStep>>_vars
  /\ []<>~Delivering \/ []<><<EndsDelivery>>_vars

FairSpec == Spec /\ Fairness

=============================================================================

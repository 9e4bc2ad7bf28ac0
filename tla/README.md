# TLA+ models of agoric-sdk: the kernel, its vats, the block and the mailbox

This directory holds TLA+ modules for the core of agoric-sdk: the SwingSet
kernel (`packages/SwingSet/src/kernel`), the workers and the swing-store
beneath it, garbage collection inside a vat (`packages/swingset-liveslots`), the block lifecycle of cosmic-swingset above it, and the mailbox
between a chain and a solo node.  With them come the TLC configurations that
model-check the modules and theorems about them checked by TLAPS.
`PROJECT.json` maps every definition to the lines it models and lists the
runs, the mutants, the findings, the hazards and the theorems.

## 1. The system

agoric-sdk is a blockchain on which JavaScript programs run in *vats*:
deterministic processes that share no memory.  The layers, from the inside out:

| Part | State it keeps | Operations | What makes it hard | What makes it correct |
| --- | --- | --- | --- | --- |
| Kernel object table (`state/kernelKeeper.js`) | owner and (reachable, recognizable) counts of every object | allocate, incref, decref, retire, orphan, delete, sweep at the end of a crank | counts changed in a dozen places; sweep works on a set in RAM | counts are the references; nothing reachable is dropped; nothing unreachable is forgotten |
| C-lists (`state/vatKeeper.js`) | per vat: entries, import or export, reachable flag | translate both ways, set and clear flags, delete entries | one entry is touched by syscalls, deliveries, GC and cleanup | owner and export entry agree; imports are counted |
| GC actions (`gc-actions.js`) | set of pending dropExport, retireExport, retireImport | queue, negate stale ones, deliver by vat and type | an action may wait while its object is sent again or its vat dies | only valid actions are delivered, each eventually |
| Cranks (`kernel.js`) | acceptance queue, run-queue, savepoint | route, deliver, abort and roll back, terminate | a vat may fail after any syscall; RAM is not rolled back | an aborted delivery leaves no trace but the end of the vat |
| Promises (`kernelKeeper.js`, `kernelQueue.js`, `cleanup.js`) | state, decider, subscribers, queue, count, data | send, subscribe, resolve, notify, requeue | routing is decided twice, deciders change, notifies overlap | one resolver; nobody waits for nothing; order of sends |
| Termination and slow deletion | list of terminated vats in the database and in RAM | terminate, delete some entries per crank, forget | everything else goes on in between | no stranded exports, imports or promises |
| Upgrade (`processUpgradeVat`) | queued upgrade events, worker and span of the old incarnation | reject promises, abandon exports, start the new incarnation, or abort | an abort has to restore all of it, the worker too | promises of the old incarnation are rejected exactly once; no worker of an abandoned upgrade survives |
| Vat warehouse, transcripts, snapshots | workers on line, spans, snapshots | evict, replay, snapshot, roll over | crash or rollback between a delivery and its commit | a replay gives the same worker |
| Meters, run policy, reap | meters, dirt counters, reap queue | deduct, notify, schedule bringOutYourDead | aborted cranks still cost; vats share meters | no free work; every dirty vat is reaped |
| swing-store | crank buffer, savepoints, SQLite transaction, export data | start and end crank, roll back, commit | crash before commit; export data in step with the store | committed state is that of a block boundary; export data describes it |
| Liveslots | vrefs, virtual objects and collections, their counts | export, import, weak references, GC at bringOutYourDead | finalizers, resurrection, two pillars of reachability | the vat's syscalls agree with what user code holds |
| vattp, mailbox device, solo host | per remote: numbers, outbox, acknowledgement | send, receive, acknowledge, save, relay | transactions lost, overtaken and repeated; crash between saves | what is received is what was sent, once and in order |
| comms vat | per remote: c-lists, sequence numbers | translate, gc between kernels | messages in flight in both directions | no drop crosses a re-export unnoticed |
| Timer vat | alarms, repeaters | schedule, cancel, wake | wakeups late or missed; clock jumps | every alarm fires once, not early |
| cosmic-swingset (`launch-chain.js`, `chain-main.js`) | inbound queues, saved heights, saved downcalls | begin, run, end and commit a block | two databases commit in turn; crash in between | every block runs exactly once; all validators agree |
| Cosmos modules (Go) | vstorage queues, vbank, vtransfer interceptions | messages of blocks, bridge calls | shared with JavaScript over a bridge | queues keep their order; balances are conserved |
| Network, vows, async-flow | ports, connections, replay logs | connect, deliver, watch, replay | upgrades in the middle | replays agree with the log |
| Zoe, ERTP and contracts | seats, purses, contract state | offer, reallocate, exit, pay | re-entrancy through promises | rights are conserved; offers are safe |

How the parts interact.  A *crank* takes the next event (the acceptance queue
first, then cleanup of terminated vats, GC actions, bringOutYourDead and the
run-queue; `getNextMessageAndProcessor`), routes it or delivers it to a vat,
executes the syscalls the vat makes during the delivery one by one against the
kernel database, and ends by commit, or by rollback to a savepoint and the
termination of the vat.  Only then are the krefs whose count fell to zero
during the crank swept (`processRefcounts`), which may queue GC actions that
later cranks deliver.  A delivery needs the vat's worker, which the warehouse
rebuilds from its last snapshot and the transcript after it when it is not on
line.  The kernel is single-threaded: the concurrency is in the queues, in what
happens between two cranks about the same object, promise or vat, and in what a
failed crank leaves behind.  The host drives it: `launch-chain.js` moves actions
from queues in the cosmos store to the kernel and runs cranks until the block's
limit; the swing-store commits, and then the cosmos store does.

## 2. Modules

| Module | Models |
| --- | --- |
| `KernelObjects` | kernelKeeper.js (objects), vatKeeper.js and gc-actions.js as operators from a kernel state to the next |
| `KernelGC` | kernel.js: the cranks, syscalls and host calls that use them; EXTENDS `KernelObjects` |
| `KernelGCProperties`, `MCKernelGC` | the properties of `KernelGC`; the module the `gc*` runs check |
| `KernelGCProofs` | type correctness, live and terminated vats; owners, export entries and allocated krefs |
| `KernelCountsProofs`, `KernelStrandedProofs` | exact counts; nothing stranded, no assertion fails, aborts undo the crank; with the one above, every safety property of `KernelGC` |
| `KernelPromises` | the promise table, kernelQueue.js, routing, notification, upgrade and termination |
| `KernelPromisesProperties`, `MCKernelPromises` | its properties; the module the `promises*` runs check |
| `KernelPromisesProofs` | its invariants, for any number of vats, promises, messages and syscalls |
| `Liveslots` | liveslots' virtual references, finalizers, GC deliveries and bringOutYourDead: one vat, its engine and the kernel's c-list for it |
| `LiveslotsProperties`, `MCLiveslots` | its properties; the module of the run `liveslots` |
| `LiveslotsProofs` | the same properties, for any objects, any engine and any kernel |
| `SwingStore` | transcript spans, heap snapshots and export data of the swing-store, as operators |
| `VatWarehouse` | workers, cranks, meters, reap dirt, commits and restarts over that store; EXTENDS `SwingStore` |
| `VatWarehouseProperties`, `MCVatWarehouse` | its properties; the module of the run `workers` |
| `VatWarehouseProofs` | its safety properties, for any vats, meters, cache, intervals, budgets and crashes |
| `SwingsetChain` | abstract: one block after another, each action given and each crank run once |
| `BlockLifecycle` | launch-chain.js and chain-main.js with the cosmos app above and the kernel below them |
| `BlockLifecycleProperties`, `MCBlockLifecycle` | its properties and its refinement of `SwingsetChain`; the module of the `block*` runs |
| `BlockLifecycleProofs` | every safety property of the block lifecycle, and its refinement of `SwingsetChain` |
| `Channel` | abstract: a reliable channel in each direction |
| `Mailbox` | vat-vattp.js, the mailbox device and the solo host that relays between a node and the chain |
| `MailboxProperties`, `MCMailbox` | its properties and its refinement of `Channel`; the module of the `mailbox*` runs |
| `MailboxProofs` | the refinement and the safety properties, for every value of the constants |

### KernelObjects and KernelGC

`k` is the kernel's state as one record: the database keys (`owner`, `refCount`,
c-lists as the sets `exports`, `imports` and `reach` per vat, the two queues,
`gcActions`, the lists of live and terminated vats, `nextKoid`) and what is in
RAM only (`terminatedVats`, `vatKeepers`, `maybeFree`).  `saved` is `k` at the
savepoint `start`, and `crank` says which delivery is under way.  A crank that
delivers to a vat is several steps: its beginning (`DeliverSend`,
`ProcessGCActions`, `DeliverBringOutYourDead`), one step per syscall, and its
end (`CompleteDelivery`, `ExitDelivery`, `AbortDelivery`); every other crank is
one step.  Every step that ends a crank includes `processRefcounts`.

An upgrade is one crank with two deliveries: `DeliverUpgradeVat` begins the
bringOutYourDead of the old incarnation, `StartNewIncarnation` abandons its
exports that are neither durable nor the root object and begins startVat, and
the crank ends with `CompleteDelivery` or, wherever a delivery would end the
vat, with `AbortUpgrade`, which goes back to the savepoint and tells vatAdmin.
Which krefs have durable vrefs is the constant `DurableObjects`.  The upgrade
events and what an upgrade does to promises are in `KernelPromises`; the
references of `vatParameters` are not modelled.

Abstractions.  Krefs and vats are numbers.  A vref is not modelled: an entry is
membership in a set.  The list of slots of a message is one slot, since slots
are handled one after the other in the same way.  Message bodies, vatstore,
devices and meters are left out.  `failed` stands for an assertion that throws
in the kernel and panics it; the flag is checked to stay false rather than
assumed.  What a vat does is left open: any syscall that vatTranslator.js does
not refuse as vat-fatal.  Vats in `LiveslotsVats` keep liveslots' discipline
(user code in messages, GC syscalls in bringOutYourDead only), the others,
such as comms, make any of them in any delivery.

The order of the vats in the action set is the order of their numbers: the
code sorts vat IDs as strings, which is some fixed total order.

Whether a GC delivery or bringOutYourDead can end a vat, whether vatAdmin fails
after it terminated another vat, and whether the reason of an exit with failure
names an object are parameters (`Faults`): each leads to a finding or an
observation of section 4, and the passing runs leave them out so that the rest
of the behaviour is explored beyond them.

### KernelPromises

The same structure: `k`, `saved`, `crank`.  A promise has the kernel's keys
(state, decider, subscribers, queue, count, data).  Objects are the pinned
roots of the vats, so that only promises come and go.  `external` counts the
references the host holds.  Five things are not in the kernel and only serve
properties and bounds: the sender, the number and the named target of a send,
`awaiting`, the promises a vat subscribed to and has not heard of, and `handedOn`,
the promises whose decision a pipelining vat has passed on.

`saved` is the savepoint a failure goes back to: `start` for messages and
notifies, which puts the event back on the queue, and `deliver` for upgrades,
whose event is consumed.  The bringOutYourDead delivery that precedes an upgrade
makes no syscalls about promises, and is part of the step `DeliverUpgradeVat`.
vatAdmin itself does not end in this module.  `ProcessRefcounts` keeps the insertion order of `maybeFreeKrefs` and visits
each kref once, as iteration of a JavaScript `Set` does.

### Liveslots

`vat` holds the tables of `makeLiveSlots` and of the vatstore: `val` is
`slotToVal` with the state of the WeakRef (absent, live, or collected while the
finalizer has yet to run; unnamed is an object without a vref), `rc` are the
counts of `vom.rc` and of `remotableRefCounts`, `es` the export status of
stored objects, `exported` and `recognized` the two sets about exported
Remotables, `dead` and `retired` the two sets bringOutYourDead reads, `again` is
`gcAgain`, and `entries` is what the vat's code has written: a property of a
virtual object, an entry of a weak store (`vom.ir`), or an entry of a WeakMap
(`vrefRecognizers`).  `held` is what the code refers to from RAM, `callbacks`
counts the finalizers that wait, and `clist` is the kernel's side: reachable,
seen, none, or, for an import that was retired, gone for good.  `scan` is
the progress of `scanForDeadObjects`.

Every operation on a reference is an action: the code forgets, writes, reads,
deletes and sends; the kernel delivers, drops and retires; the engine collects
what nothing pins and runs finalizers.  `gcAndFinalize` is a phase in which any
collections and finalizers happen in any order, in the first pass and in each
repetition; then one vref of `possiblyDeadSet` is examined per step, in any
order (the code sorts them as strings), and the syscalls go out together
(`FinishScan`).  The deletion of a stored object is one step with everything it
releases.  `failed` is set where an assertion of liveslots throws and where the
kernel's translation would end the vat for an illegal drop or retirement.

`OrganicGC` says what may be collected outside a forced GC.  xsnap workers
make finalizers run in `gcAndFinalize` only, while the local worker's engine may
collect a Presence at any time: the model has the latter.  Left out: promises in
virtual data, facets, strong collections, upgrades of durable data, and the
creation of stored objects after the start.

### SwingStore and VatWarehouse

`db` is the kernel database as far as workers depend on it (vats alive,
terminated and created, meters, dirt, reap queue, and `store`: spans,
snapshots and the export records pending for the next commit), `ram` is what the
process keeps: the vats on line, the LRU and each worker's heap.  A heap is the sequence
of deliveries that made it, so that two heaps are equal exactly when the worker
has lived through the same deliveries; a hash is what it hashes.  `exports` is
the host's copy of the export data.  `committed` is all of it at the last
commit, where `Restart` goes back to.  `audit` is a history of each meter: what user
code used of it, what the bringOutYourDead of upgrades used, what the deliveries that
were kept used, and what was put on it.

A crank is one step here, since nothing but the kernel touches workers and
spans; what matters is in what order `FinishCrank` unwinds, deducts, marks
dirt, terminates and takes a snapshot (`processDeliveryMessage`).  The outcomes
of a delivery are all that the kernel tells apart: fine, a worker that died, an
illegal syscall, an exit; and any reported computrons of a small set.

Left out: vats without transcripts, `changeVatOptions`, meter thresholds and
their notices, dirt of krefs and computrons, a bringOutYourDead that kills its
worker inside `maybeSaveSnapshot`, archives, and the import of artifacts.

### SwingsetChain and BlockLifecycle

One validator node.  `height` and `cosmos` are the committed cosmos store,
`deliver` its uncommitted state, `store` and `work` the committed and the
uncommitted swing-store, `host` the memory of the JavaScript process
(`savedHeight`, `savedBeginHeight`, the saved downcalls, the actions of
`runThisBlock`, export data still under way), `policy` the run policy of an
END_BLOCK, and `pc` the next step of the lifecycle: launch and
AG_COSMOS_INIT, BEGIN_BLOCK, the transactions, END_BLOCK with its phases
(leftover cranks, forced actions, timer, the queues, cleanup), COMMIT_BLOCK, the
commit of the swing-store, and the commit of cosmos.  `Crash` may happen
between any two steps.  The block CometBFT decided on (`txs`) survives a crash,
so the block is the same when it is executed again.  `final` is the history of
the states the validators agreed on: the first execution of a block defines
it, every later one has to reproduce it.

A kernel is `given` actions and answers each with a number of cranks
(`Cranks`) that wait on the run-queue; a crank makes one downcall to cosmos and
costs one bean.  Block time is the height; the timer's schedule is finite
(`WakeupsAssumption`) and polled in the order of time (`InOrder`).  A chain starts at `FirstHeight`,
which may be above 1 (`initialHeight`).  Queue entries are unique and never
recycled, so the reset of a queue's indices is not modelled.
AFTER_COMMIT_BLOCK, which only publishes statistics, is part of `CosmosCommit`.

`SwingsetChain` has one state and no crashes.  `RefinesChain` maps its state to
`Agreed`, the state agreed on at the height of the *swing-store*: the step of
`SwingsetChain` is the commit of the swing-store, since from there on no crash
can undo the block.

### Channel and Mailbox

Two machines, the chain and a solo node.  `vattp` is, for each, the state of
vat-vattp.js (`added`, `removed`, `delivered` are the code's outbound and
inbound sequence numbers), the deliveries that wait for it, and two histories:
`sent` and `got`.  `box` is the mailbox device's state in RAM, `disk` both as saved last,
`phase` where the solo node is between reading an input and sending its outbox,
`relay` the message pool of `chain-cosmos-sdk.js`, and `txs` the transactions
on their way.  A transaction may be lost, be overtaken, or get into a block
although it was reported as failed (it leaves `txs` only when it does or is
lost, while `relay.sending` lets the pool be sent again).  The solo node may
read any mailbox the chain has ever published: it asks one of several
servers.  The chain itself never loses work (`BlockLifecycle`): it commits.

`Channel` has only `sent` and `got`, and `RefinesChannel` maps them to the
*saved* histories.  Left out: batching by time, the sequence number of the
solo node's account (any order of transactions is allowed instead), messages
before a remote has its receiver, and the rollback of an aborted crank of vattp.

## 3. Runs

| Run | Instance | Shows |
| --- | --- | --- |
| `gc` | 2 vats (one liveslots, one comms-like), 3 objects, 1 queued send, 2 syscalls per delivery, deletion at once, vatAdmin may fail after it terminated the other vat | counts, flags, lists of vats and drops; garbage is dropped, dead imports are retired |
| `gc_slow_deletion` | 3 liveslots vats, 4 objects, deletion one entry per crank, upgrades of the second vat | owners agree, nothing is stranded and nothing fails while a vat is half deleted or upgraded; aborts leave no trace |
| `promises` | 2 vats, 2 promises, 5 sends, 3 syscalls, one vat that pipelines, two resolutions per syscall, a host that reads results and restarts | counts, no failure and the order of sends, with deciders that change hands and promises that refer to each other |
| `promises_end` | 2 vats, 3 promises, 5 sends, 3 syscalls: exits, aborts, terminations, slow deletion, upgrades | deciders, subscribers and sends when vats go; nobody waits for ever |
| `liveslots` | a Presence, a Remotable, a virtual object whose state is either of them, a weak store and a WeakMap that both recognize the Presence; 1 finalizer pending per vref | nothing in use is lost, nothing unused forgotten, every GC syscall is legal |
| `workers` | 2 vats that share a meter, an LRU of 1, snapshots after 2 and then 3 items, reaps after 2 deliveries, 3 cranks, 1 crash | workers, transcripts, export data, meters and reaping |
| `block` | heights 2 to 5, an upgrade at 4, a wakeup at 3, 1 priority and 2 inbound transactions, limit of 2 beans, 2 crashes | the block lifecycle with both commits; refinement of `SwingsetChain`; the tip is reached |
| `mailbox` | 2 messages from the solo node, 1 from the chain, 2 transactions at a time, 1 crash | reliable delivery; refinement of `Channel` |
| `gc_stale_action`, `gc_exit_reason`, `block_replay`, `mailbox_torn` | the smallest that shows it | the findings: the property is violated |

The properties, shortly:

- `RefCountsExact`, `PromiseRefCountsExact`: counts are recomputed from c-lists,
  queues, resolution data, pins and host references, and equal what the kernel
  keeps, at every step, within deliveries too.
- `HeldExportIsFlagged`, `DropsOnlyUnreachable`, `RetiresOnlyUnrecognizable`:
  nobody's reference is collected under them, however stale the GC action.
- `NothingIsStranded`: no export that nobody imports and no import whose object is
  gone is forgotten.
- `OwnerMatchesCList`: owner keys and export entries agree.
- `AbortUndoesTheCrank`: what an abort must undo; `LiveVatsAreNotTerminated`: what
  becomes of the list of terminated vats, half of which no abort undoes.
- `OneResolver`, `NoLostNotification`,
  `SubscribersAreNotified`, `SettledSendsAreServed`: nobody waits for ever.
- `DeliversInOrder`: sends of one sender to one target are delivered in order, unless
  the target is a promise that a pipelining vat handed on.
- `WhatIsUsedIsKept`: whatever is reachable across RAM, storage and other vats,
  computed without liveslots' counts, is neither dropped nor deleted, and what a
  weak collection recognizes is not retired.
- `SyscallsAreLegal`: no count below zero, no object deleted twice or in use, and
  every retirement is of something in the c-list that the vat has dropped.
- `NothingIsForgotten`: what has lost its last support waits where the next
  bringOutYourDead, or a finalizer, will find it.
- `KernelNeverFails` (one in each of the kernel modules): none of the modelled
  assertions can throw.
- `WorkerIsItsTranscript`, `ExperienceOnlyGrows`: a worker on line is what a
  replay would make, and no crank changes what a vat has lived through.
- `ExportsDescribeStore`: the host's export data describes the spans and
  snapshots in the store.
- `MetersAreHonest`: what is gone from a meter is exactly what user code used, also in
  cranks that were rolled back, and what the bringOutYourDead of upgrades used (see
  section 4); work that was kept was paid in full.
- `DirtyVatIsReaped`: a vat with enough dirt is reaped or dies.
- `StoresInStep`, `AppHashAgrees`, `KernelInStep`: the two databases, the
  validators, and the kernel with its queues agree, wherever the node crashes.
- `ForcedRunInTheirBlock`: core proposals and upgrade actions finish in their
  own block, whatever the limit.
- `ReachesTip`: a node that crashes finitely often catches up; in particular
  no COMMIT_BLOCK throws and no host decoheres for good.
- `ReceivedIsSent`, `NothingIsLost`, `EverySendArrives`: messages between
  machines arrive, once and in order.
- `RefinesChain`, `RefinesChannel`: the detailed modules implement the abstract
  ones.

Bounds.  One send in the queues of `KernelGC` suffices for an object to be held
by a queue only, and two vats for exporter and importer; the third vat of the
slow deletion is an importer that lives while the exporter is taken apart.  Two
syscalls per delivery let a vat send and drop, or retire and re-export, in one
crank.  In `KernelPromises` two promises give chains and cycles of resolution
data, five sends the shortest re-ordering through a promise queue.  In
`gc_slow_deletion` no object is durable, so that an upgrade abandons all it may.
The objects of `liveslots` make each pillar of each kind of reference come and go: a
Presence held by RAM or by storage only, recognized by a weak store, by a WeakMap or
by both; a chain of deletions from the weak store through the virtual object to a
Presence or a Remotable; and exports of both kinds.  One pending finalizer per vref
is reached in every state the comment of `finalizeDroppedObject` lists, since the
object may come back before it runs.  That run has no bound on the number of steps.
The bounds on sends and syscalls are per behaviour, so those behaviours end:
deadlock is not checked there (an idle kernel waits for its host), nor in
`workers` and `mailbox`, whose inputs end too, nor in `gc`, where the kernel may panic
after a failure of vatAdmin (section 4; the two liveness properties end there).  `Room` keeps promises and sends in
reserve for what the kernel itself must be able to send.  Three cranks and the
reaps they cause take a vat of `VatWarehouse` through a first snapshot, a
second one and a new incarnation, and a second vat through the LRU in between.
The block instance has an action of three cranks, more than a block's limit, so
that work is left over; two crashes, so that a re-execution or a replay may crash
itself; and an upgrade in the middle.  Two messages make the solo node number, one
transaction overtake another.  Symmetry is not used: vat 1 is vatAdmin, krefs
are allocated in order and vats are ordered in the GC action set.

`CrashAfterRelaunch`, `TornSaves` and `Faults` separate the findings from the
rest: with them the passing runs would stop at what section 4 says.  Only `gc` has a
fault of its own, `afterAdminTerminate`, which its properties hold under.

Fairness.  `run()` takes step after step until there is nothing to do
(`KernelStep`), and every delivery ends, since computation is metered and a
worker that dies is an error (`EndDelivery`).  Both are weak fairness with the
enabling condition written out, which is far cheaper for TLC than `ENABLED`; the
same holds for cleanup and reaps in `VatWarehouse`.
For the liveness of `gc` the host also stops queueing at some time: within a `run()` it
cannot queue, and the acceptance queue has priority.  The block lifecycle never
stops while it can go on (the operator restarts a node that is down, CometBFT keeps
proposing), and crashes are bounded.  For the mailbox, both machines go on
(weak fairness), a transaction that is sent again and again gets into a block
and the solo node hears of the newest mailbox again and again (strong
fairness: each of them may be disabled in between).  No fairness is assumed of
syscalls, of users, of the host's calls or of crashes.

## 4. Findings

1. `gc_stale_action`: a GC action of a vat that was terminated and deleted
   after the action was queued makes `processGCActionSet` assert. It takes a
   vat that ends in a GC delivery, with cleanup completing before the vat's
   other actions are examined.
2. `gc_exit_reason`: an object that a vat first names in the reason of
   `exitVatWithFailure` gets a kref, whose allocation the abort of the crank takes
   back, while the notice to vatAdmin is queued after the abort and names it.  The next
   object that any vat exports gets the same kref.  The property is
   `QueuedKrefsAreAllocated`; vatAdmin is critical in this run only so that the vat
   that ends is another.
3. `block_replay`: the downcalls saved with the last committed block are loaded
   at launch and are still in `savedChainSends` when the node executes the next
   block.  That block's commit then saves both, and a crash between the two
   commits of that block replays the downcalls of the block before as well.
4. `mailbox_torn`: the solo node replaces its mailbox file and commits its
   kernel one after the other.  A process that dies in between restarts with
   messages in its outbox that its kernel has not sent, and sends them.

Observations without a run of their own, each of which a change of constants or
one more invariant reproduces:

- `terminatedVats` in RAM is not rolled back with the crank.  vatAdmin is
  not among the critical vats (`initializeSwingset.js` adds it without options),
  so its failure after it terminated another vat does not stop the kernel.  The abort
  makes the other vat live again, but the kernel still takes it for dead, and the end
  of vatAdmin writes the list in RAM to the database: the vat is deleted although it is
  on the list of live vats, where it stays.  `gc` runs with this fault, and
  `LiveVatsAreNotTerminated` says that it is the only way, which ends vatAdmin: without
  `AdminVat \in k.liveIDs` it fails.  Then the scan of `getImporters` or a leftover GC
  action asks for the keeper of the deleted vat, which panics the kernel:
  `KernelNeverFails`, added to `MCKernelGC.cfg`, fails.
- The computrons of an upgrade's bringOutYourDead are charged to the vat's meter when
  the upgrade goes through, or when it fails in startVat with a report of computrons:
  `processUpgradeVat` returns one sum for the run policy and for the meter, although
  its comment says "we don't meter bringOutYourDead since no user code is running, but
  we still report computrons to the runPolicy" (`kernel.js:1080`).
  `MetersAreHonest` counts them apart (`audit.boyd`); without them it fails.
- `static-vats.md` says that the crank of an `exitVatWithFailure` "will end normally",
  with what the vat did in it; the kernel aborts it, as `delivery.md` says.
- The `kernelObjects` statistic drifts when a kref of `maybeFreeKrefs` was
  deleted earlier in the same crank (`deleteKernelObject` decrements it whether
  the object exists or not).
- A promise is never deleted when it is visited by the sweep before the promise
  whose data holds the last reference to it (issue #9888).
- `kpResolution` releases a promise outside of any crank: a restart of the
  kernel before the next crank loses the entry of `maybeFreeKrefs`, and the
  promise stays.
- A pipelining vat that hands on a promise it decides can invert two sends to
  that promise, when the first waits in the run-queue while the second is put on
  the promise's queue.  `DeliversInOrder` leaves those promises out (`handedOn`);
  without that it fails, from seven sends of which the host makes three on.
- With an engine that collects WeakMaps outside of a forced GC
  (`OrganicGC = {p, m}`, which no xsnap worker does), `SyscallsAreLegal` fails: the
  end of a WeakMap puts its keys into `possiblyRetiredSet`, `dispatch.retireImports`
  does not take them out, and the next bringOutYourDead retires an import a second
  time, which ends the vat.  `boyd-gc.js:257` says of the two retirements that
  "Either one must inhibit the other."
- `makeNewInstance` (`virtualObjectManager.js`) counts the references of each property
  before it has checked the size and durability of the next.  When a later check
  fails, the counts of the earlier properties stay, and what they refer to is never
  let go.
- A successful upgrade returns results without `didDelivery`, so that the run
  policy gets `emptyCrank()` and does not see the computrons, although the
  comment in `processUpgradeVat` says it would.

## 5. Proofs

Eight modules hold theorems.  Each argument has a lemma per operator or action, and
an inductive invariant that is stronger than what it is for.

`KernelGCProofs` proves `Spec => []TypeOK` for every value of the constants.
There is one lemma per operator of `KernelObjects` (it maps a `KernelState` to a
`KernelState`, given that its objects and vats are of their types), then one per
action.  The counts are natural numbers because `SetObjectRefCounts` changes
nothing when one would become negative, and `GCAction`s name vats because
`ProcessRefcounts` queues them only for objects with an owner.

The same module proves `LiveVatsAreNotTerminated`, for any number of vats and whatever
fails.  `AdminInv` says of both `k` and `saved`, since an abort restores the database
only, that the list in the database is part of the one in RAM, and that as long as
vatAdmin is live it is initialized, the lists are the same and no live vat is on them;
and that only a message to vatAdmin may have made the list in RAM longer than it was at
the savepoint, never by vatAdmin itself.  So an abort that finds the lists apart is of a
delivery to vatAdmin, which is then alive or off the list of live vats already:
`markVatAsTerminated` takes it off and writes the list in RAM to the database.  What
counts objects and changes c-lists leaves the lists alone: one lemma per operator.
Where the proofs below need that no live vat is ever on either copy of the list,
`LivesInv`, they assume that vatAdmin does not fail after it has terminated another vat
(`"afterAdminTerminate" \notin Faults`): the failure breaks it.

It proves `OwnerMatchesCList`, too, under the assumption that the reason of an exit with
failure names no object (finding 2 is what happens otherwise).  It is not
inductive by itself.  `OwnerInv` is `TypeOK` and `TableInv` of both `k` and
`saved`: an abort goes back to `saved`, so everything must hold there too.
`TableInv` has five parts: `OwnersMatch`, the property itself;
`UnallocatedHasNoOwner`, because `AddKernelObject` gives `nextKoid` its first
owner, which must not collide with an entry; `ActionsNameOwner`, because
delivering a retireExport deletes the entry of the vat the action names, together
with the owner key; `ImportsAreForeign`, because deleting an import must not
delete an export entry of the same kref; and `MessagesAllocated`, which an abort
restores together with `nextKoid`.  The lemma `OwnerInvInductive` shows that every
action keeps `OwnerInv`.

`KernelCountsProofs` proves `RefCountsExact`, `HeldExportIsFlagged` and
`DropsOnlyUnreachable`, assuming again that the reason of an exit with failure
names no object.  `CountsInv` is, of both `k` and `saved`: `Exact`, the two counts
of an object are `Reaches` and `Recognizes`, the references counted in c-lists,
queues and pins; `Flagged`, what is reached has its flag in the exporter's c-list;
an object with an owner exists; and `Listed`, a flag belongs to an import or to
the owner's export.  Counts and flags need each other: translating a slot that
somebody still reaches must not meet a cleared flag, and a flag is cleared only
by dropExport, whose guard reads the count.  The references are cardinalities, so
the proof begins with lemmas on how one entry, message or flag changes them; then
each operator of `KernelObjects` has an `...Effect` lemma that says what it does
to the counts of which objects, whatever it was called for, and a `...Counts`
lemma that it keeps `CountsInv`.  `KeepsCounts(kk, kl)` is what a whole operation
promises: `kl` is exact again, actions only accumulate, and what has become
unheld is a candidate.  It is transitive, and an action is a chain of operations.

`KernelStrandedProofs` proves `NothingIsStranded`, `RetiresOnlyUnrecognizable`
and `AbortUndoesTheCrank`, assuming also that vatAdmin does not fail after it has
terminated another vat.  `StrandedInv` adds to the above three facts of `k` and
`saved`: `Settled`, what nobody holds is a candidate or has a terminated owner, or
else its live exporter has the actions to come; `Told`, the live importers of a deleted object will be told; and
`VatsInv`, the two lists of terminated vats are one, and a vat that has keys is
live or on it.  The candidates are in RAM only, so the savepoint must have none.
The sweep delivers the first group of actions, by vat and then by type, that has
a valid one, and forgets the actions before it.  That these were all stale, and
that dropExports goes before retireExports, is an argument on the least rank of
a valid action (`WellFoundedInduction` gives it).

The same module proves `KernelNeverFails`: no count goes below zero, no delivery
meets an export that is not reachable, no keeper is asked of a deleted vat.  Here
`Faults = {}` and vatAdmin runs under liveslots.  `NeverInv` adds `NamesInv`:
every pending action names a live vat; a delivery of a message begins with no
action pending, since GC actions are taken first, and queues none for its own vat,
which may end in it; and vatAdmin, which may end another vat, queues none at all,
since liveslots retires nothing in such a delivery.  Without the assumption that no GC delivery ends a vat, an action
outlives the vat it names: the run `gc_stale_action` finds it (finding 1).

`LiveslotsProofs` proves the three invariants of the run `liveslots` and, behind
them, `TablesAgree`: `Inv`, which is inductive, for any objects, any engine and
any kernel.  Its parts: `Counted` (the counts of an object are its pillars in
storage, RAM, export status and recognizers), `OneEntry`, `IsAlive` and `IsInRAM`
(what the vref tables say of the engine's objects), `ImportsAgree` and
`ExportsAgree` (c-list, slots and reachability), `IsListed` (what may have lost its
last support is in the dead set or in what the scan will retire) and `ScanInv`.
C-list and tables differ during a scan by what it has collected and not yet said
(`scan.drop`, `scan.retireExports`), and finalizers run between any two of its
steps, so that each part speaks of the scan.  Reachability is a least fixed point; the proof
uses only that a set closed under references which contains the roots contains
it, so that no induction is needed.  `SyscallsAreLegal` takes one assumption more,
`OrganicGC \cap WeakMaps = {}`: the engine collects a WeakMap only in
bringOutYourDead (the observations of section 4 say what happens otherwise).

`BlockLifecycleProofs` proves `StoresInStep`, for any transactions, limits,
upgrade heights and number of crashes.  `HeightInv` says for each phase of the
lifecycle what the heights in the host's memory and in the uncommitted
swing-store are: in the phases of END_BLOCK the block is being executed, between
BEGIN_BLOCK and END_BLOCK it is executed or replayed, and from COMMIT_BLOCK on
all heights are the block's.  Without it one could not exclude that the
swing-store commits twice before the cosmos store does.

The same module proves `AppHashAgrees`, `ForcedRunInTheirBlock`, `KernelInStep` and
`RefinesChain`, for any queues, cranks, wakeups and limits, assuming
`CrashAfterRelaunch = FALSE` (the run `block_replay` shows what happens otherwise).
A block is executed again from the same state, so the main question is whether it ends in the
same one.  `Phase` is the function that takes the state of a block in
execution through one phase of END_BLOCK; `Leads(x, y, h)` says that y is in every
set that contains x and is closed under `Phase`, which needs no induction, and
`OneEnd` that a state leads to one end only.  `BlockInv` is inductive: `HeightInv`;
the types; `RunningInv`, the block in execution is on the way from `BlockStart`;
`DecidedInv`, what is `final` is where `BlockStart` leads to; `RepeatInv`, while a
block is replayed the kernel and the saved downcalls are those committed;
`CommitInv`, at the commit the deliver state is `final`; and `CarriedInv`, the
downcalls a restarted node replays are of that block only, which is where the
assumption enters.  `Trace(c, s, d)` says that the downcalls `s`, with the replies
they had, take cosmos from `c` to `d`, and `Split(s, h, c, d)` that `s` is what is left
of earlier blocks followed by such a trace of block h.  `AppHashAgrees` and
`ForcedRunInTheirBlock` follow, the second because a forced action's cranks
run to the end before the run policy is asked.

`StoryInv` is the strengthening of `KernelInStep`: `Told` relates a cosmos state to the
kernel's history (what is given was pushed, at the same place of its queue; no
crank is sent twice or waits twice; no action is pushed twice), and each phase
keeps it, so that it holds at the end of a block because it did at the start.
`OnwardInv` says that the block under way only extends the committed state.
With both, `CommitBlock` at the tip is `Block` of `SwingsetChain`, and every other step,
a second commit after a crash included, leaves `Agreed` as it is.

`MailboxProofs` proves `ReceivedIsSent`, `NothingIsLost`, `OutputIsEmbargoed` and
`RefinesChannel`, for any bodies and any number of messages, transactions and
crashes, assuming `TornSaves = FALSE`: no process dies between the two writes of a
save (finding 3 is what happens otherwise).  `Inv` has six parts.  `TypeInv`.
`VattpInv`: the numbers of vattp count its histories, and the outbox is exactly
what is not removed.  `SaveInv`: which parts of memory and disk agree in which
phase.  `GrowInv`: memory goes on from the disk, has received no more than the
other side has saved, and removed no more than the other side has received for good.
`WireInv`: everything in transit, however old (queued deliveries, transactions,
published mailboxes), is a batch without a gap that starts at or before what its
receiver has saved, says only what its sender has saved, and acknowledges only
what is saved.  `PoolInv`: the message pool of the relay has no gap, and starts
between what vattp has removed and what the chain has saved.  `WireInv` makes
duplicates and late mailboxes harmless; `PoolInv` makes what is sent next a batch
again.  For the refinement, the only steps that change what is saved of a kernel are
`SaveKernel` and `CommitBlock`, and `GrowInv` says that each is `Work` of its
machine.

`VatWarehouseProofs` proves every safety property of `VatWarehouse`:
`WorkerIsItsTranscript`, `KernelNeverFails`, `ExportsDescribeStore`,
`MetersAreHonest` and the action property `ExperienceOnlyGrows`, for any vats
(finitely many of them static), meters, funds and costs, any size of the cache, any
intervals, thresholds and budgets above zero, and any number of cranks and crashes.
`WarehouseInv`, which is inductive, is `CurrentOK` of what is there and `CommittedOK`
of what was committed last, where a crash returns.  It has four parts.  `Described`:
for every key, what the host was given and what is noted for it since add up to what
the rows of the database record.  `Living` and `Closed`: the spans of a vat follow
each other without a gap in their numbering, only the last one may be current, no
snapshot is newer than the current span, and a span begins with how its worker began;
a vat that is not alive has neither a current span nor a snapshot in use.  `Works`: a
worker on line is what a replay would make, and its span is not empty; this is what
makes the next delivery and the next snapshot right.  `MetersOK`: what is on a meter
and what was used of it, by user code and by the bringOutYourDead of upgrades, are what
was put on it, and what was kept is no more than what user code used.

Within a crank these do not hold, and the proof says by how much: `Sound(x, s, R, W)`
lets the vats of R be among the recently used ones before they are on line
(`deliverToVat` applies the policy first) and the workers of W be ahead of a database
that was rolled back.  After an abort W is the crank's vat alone, and the proof is that
every path from there stops its worker: `TerminateVat`, `AbortUpgrade`, or the worker
that died by itself.  Each operator of the swing-store has a lemma that says what it
makes of one vat's rows (`Rewrites`), each of the warehouse one that lifts it to a
state (`Reworks`, `Moves`, `Serves`).  `Grows` says that the incarnation of a vat does
not go back, and that within an incarnation a replay is extended only; it is kept by
a snapshot because its heap is the replay up to there.  What the code does in a loop
(replay, `reapAllVats`, `snapshotAllVats`, the preload at a start) is a recursive
function over a sequence: `RunExists` and `RunIsUnique` show, by the least place at which
one would fail, that it is defined, and the same argument carries an invariant along it.

`KernelPromisesProofs` proves the five invariants of `KernelPromises`: `TypeOK`,
`KernelNeverFails`, `PromiseRefCountsExact`, `OneResolver` and `NoLostNotification`, for
any number of vats, promises, messages and syscalls, any pipelining vats, and with and
without termination, upgrades and a host that reads results.  A step is a sequence
of operations, and between two of them the parts of the state do not agree yet, so what
is not yet right is measured.  `Base` is what holds between any two operations: the
types; what is deleted has no count, no data and no queue, and what is settled has no
decider, no subscriber and no queue; sends have numbers and results of their own, a
result has no decider as long as its send is queued; and no count is less than the
references to the promise.  `Excess` is the number of references counted for which
there is no place at the moment, such as those of a send that was taken off its queue.
Four sets hold what would break a promise to somebody: `Orphans` (unresolved,
and neither a decider nor a send will resolve it), `Unfit` (the decider is dead or has
lost its c-list entry), `Early` (a notify of what is not settled) and `Unheard` (a vat
waits, and is neither subscriber nor about to be notified).  A state is `Good` when
all of these are empty or zero, and `PromisesInv` says that `k` and `saved` are good.

Each operation has a lemma that says what it changes and by how much each measure
goes up or down: `setDecider` takes an orphan away or brings one, `deleteCListEntry`
may make a decider unfit, `resolveKernelPromise` settles what was expected to be.  The
two queues and the queues of all promises are one family of sequences (`Queues`):
moving a send from one to another leaves the tallies over the family as they are, and
every count of references is such a tally.  Loops are `ForEach`, a recursive function
over a sequence; a loop lemma says what holds after n turns (`LoopEnds`: the
least turn at which it fails cannot be).  The longest chains are those of the code:
`terminateVat` rejects what the vat decided, one promise after the other, then deletes
its entries and tells vatAdmin; a notify retires a closure of promises that refer to
each other (`getKpidsToRetire`); a resolve of two promises deletes both c-list
entries before the first is settled, so that between the two each is orphaned.

`TypeOK` contains the model's own bounds, so the proof has to show that the kernel never
runs out of promises or send numbers for the messages it sends of its own accord.
`Within` and `Spare` count the reports that vatAdmin may still get, one for each
other live vat and one for each queued or current upgrade; `RoomAssumption` says that the
bounds leave room for them at the start.  It concerns the bounds of the model and no
number in the code.

Only model-checked: `DeliversInOrder` of `KernelPromises`, an action property about
the order of sends along a path of queues; and all liveness, `DirtyVatIsReaped`
included, since liveness under fairness is out of this prover's reach.

## 6. Plan

What is done: the kernel's objects and promises, garbage collection in a vat, its
workers and meters, the swing-store's spans, snapshots and export data, the block lifecycle, and the
mailbox, with an abstract specification for each of the last two.

What would come next, in this order:

1. The rest of liveslots: facets, strong collections, promises in virtual data and
   the upgrade of durable data; then its composition with `KernelGC`, instead of
   the syscalls any vat may make.
2. The comms vat: translation and GC between two kernels over `Channel`.
3. State sync: export of a swing-store at a block boundary by a subprocess, and
   import by another node.
4. The timer vat and vows; Zoe's reallocation of seats.
5. Proofs: `DeliversInOrder` of `KernelPromises`.

## 7. Not modelled

Generated code (`cosmic-proto`), command line and deployment tools, and the
application contracts.  These make up nearly all of the repository's lines,
which is why the map covers a small share of it.  The vatstore and devices of
the kernel (synchronous reads and writes of one vat's own keys), statistics, the
slog and the activity hash have no part in the properties above.
`resultPolicy` of host messages only logs or panics.  Vat creation is modelled
in `VatWarehouse` only: in the other kernel modules all vats exist from the
start, so vats only end.  State sync (the export of a swing-store by a
subprocess and its import by another node) is left out; `ExportsDescribeStore`
is the part of it that every node keeps true all the time.  Of the block lifecycle,
what happens when `performAction` throws (the node stops) and the `timer.poll` of the
bootstrap block are left out, and of the solo node, what it processes before its timer
runs.  See `PROJECT.json`
for the status of each component.

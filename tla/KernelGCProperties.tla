-------------------------- MODULE KernelGCProperties --------------------------
(***************************************************************************)
(* What the kernel's garbage collection promises (docs/garbage-collection  *)
(* .md, and the comments of kernelKeeper.js and gc-actions.js), over the   *)
(* specification of KernelGC.                                              *)
(***************************************************************************)
EXTENDS KernelGC

\* The state is of the kernel's shape, at the savepoint as well.
TypeOK ==
  /\ k \in KernelState
  /\ saved \in KernelState
  /\ crank \in CrankType

-----------------------------------------------------------------------------
\* Who holds an object, counted from the c-lists, the queues and the pins.

Occurrences(q, o) ==
  Cardinality({i \in 1..Len(q) : q[i].target = o})
  + Cardinality({i \in 1..Len(q) : q[i].arg = o})

KernelHolders(o) ==
  Occurrences(k.acceptanceQueue, o) + Occurrences(k.runQueue, o)
  + (IF o \in Vats THEN 1 ELSE 0)

ReachingVats(o) == {v \in Vats : o \in k.imports[v] \cap k.reach[v]}
RecognizingVats(o) == {v \in Vats : o \in k.imports[v]}

Held(o) == KernelHolders(o) > 0 \/ ReachingVats(o) # {}

\* The two counts of an object (setObjectReferenceCount) are exactly the
\* references to it: the importers that reach it or merely recognize it,
\* the queued sends that name it, and its pin.  An object that was deleted
\* is held by nobody.
RefCountsExact ==
  \A o \in Objects :
    IF KernelObjectExists(k, o)
    THEN /\ k.refCount[o].reachable = Cardinality(ReachingVats(o)) + KernelHolders(o)
         /\ k.refCount[o].recognizable = Cardinality(RecognizingVats(o)) + KernelHolders(o)
    ELSE ~Held(o)

\* An object that anybody can reach is flagged reachable in its exporter's
\* c-list: the exporter was never told to drop it, so a delivery never
\* meets "kernel sent unreachable export" (mapKernelSlotToVatSlot).
HeldExportIsFlagged ==
  \A o \in Objects : Held(o) /\ k.owner[o] # NoVat => o \in k.reach[k.owner[o]]

\* `${kref}.owner` and the exporter's c-list agree, through retirement,
\* abandonment, rollback and slow deletion (orphanKernelObject fails when
\* they do not).
OwnerMatchesCList ==
  \A o \in Objects, v \in Vats : k.owner[o] = v <=> o \in k.exports[v]

\* Between cranks nothing that became unreachable is forgotten: the live
\* exporter that still thinks it reachable has a dropExport coming, and a
\* retireExport if nobody recognizes it (processRefcounts); a terminated
\* exporter is still to be deleted; without an exporter it is gone.
NoStrandedExport ==
  crank = Idle =>
    \A o \in Objects :
      LET v == k.owner[o]
          Pending(t) == [vat |-> v, type |-> t, kref |-> o] \in k.gcActions
      IN KernelObjectExists(k, o) /\ ~Held(o) =>
         \/ IsTerminated(k, v)
         \/ /\ v # NoVat
            /\ o \in k.reach[v] => Pending("dropExport")
            /\ RecognizingVats(o) = {} => Pending("retireExport")

\* A live vat never keeps an import of a deleted object without a
\* retireImport on its way, and such an import is never reachable.
NoStrandedImport ==
  \A o \in Objects : \A v \in k.liveIDs :
    o \in k.imports[v] /\ ~KernelObjectExists(k, o) =>
      /\ o \notin k.reach[v]
      /\ [vat |-> v, type |-> "retireImport", kref |-> o] \in k.gcActions

\* Neither side of an object is left waiting for the other, whichever of
\* exporter and importers lets go, abandons or dies first.
NothingIsStranded == NoStrandedExport /\ NoStrandedImport

\* No assertion of the kernel fails: no refcount underflow or mismatch, no
\* unreachable export in a delivery, no orphaning by a vat that is not the
\* owner, no vat keeper asked of a vat that was deleted.
KernelNeverFails == ~k.failed

\* Between cranks the running kernel takes for dead every vat that its
\* database marks for deletion, and as long as vatAdmin lives, the list in RAM
\* is the one in the database and no live vat is on it.  No abort rolls back
\* the list in RAM (markVatAsTerminated): when vatAdmin fails after it
\* terminated another vat, that vat is on the list of live vats again, and the
\* end of vatAdmin writes the list in RAM, with that vat on it, to the database.
LiveVatsAreNotTerminated == crank = Idle =>
  /\ Elements(k.terminated) \subseteq Elements(k.terminatedVats)
  /\ AdminVat \in k.liveIDs =>
       /\ k.terminated = k.terminatedVats
       /\ k.liveIDs \cap Elements(k.terminatedVats) = {}

\* A queued message names allocated objects only (ko.nextID), so that the kref
\* its recipient gets is the object that the sender named, and no other.  The
\* notice that tells vatAdmin the reason of an exit with failure is to pass on
\* "any serializable object" (static-vats.md), while the abort of the crank
\* abandons "all state changes" (delivery.md), the allocation of a kref for an
\* object first named in the reason among them: translateExit.
QueuedKrefsAreAllocated ==
  \A m \in Elements(k.acceptanceQueue) \cup Elements(k.runQueue) :
    m.target < k.nextKoid /\ m.arg < k.nextKoid

-----------------------------------------------------------------------------
\* dispatch.dropExports tells an exporter to drop only what nobody holds,
\* however long ago the action was queued (shouldProcessAction: "negated").
DropsOnlyUnreachable ==
  [][crank = Idle /\ crank'.type = "dropExports" =>
       \A o \in k.reach[crank'.vat] \ k'.reach[crank'.vat] : ~Held(o)]_vars

\* dispatch.retireExports is only delivered for what no vat recognizes and
\* nobody holds, and after dispatch.dropExports.
RetiresOnlyUnrecognizable ==
  [][crank = Idle /\ crank'.type = "retireExports" =>
       \A o \in k.exports[crank'.vat] \ k'.exports[crank'.vat] :
         /\ o \notin k.reach[crank'.vat]
         /\ ~Held(o)
         /\ RecognizingVats(o) = {}]_vars

\* The crank is undone, but for the vats that die of it.
CrankUndone(dead) ==
  /\ k'.acceptanceQueue =
       Append(saved.acceptanceQueue, [target |-> AdminVat, arg |-> NoObject])
  /\ k'.runQueue = saved.runQueue
  /\ \A v \in saved.liveIDs \ dead :
       /\ k'.exports[v] = saved.exports[v]
       /\ k'.imports[v] = saved.imports[v]
       /\ k'.reach[v] = saved.reach[v]
  /\ k'.liveIDs = saved.liveIDs \ dead
  /\ Elements(k'.terminated) \subseteq Elements(saved.terminated) \cup dead

\* An aborted delivery is undone for everybody else: the message is back on
\* the queue it came from, what the vat had sent is not (vatAdmin is told of
\* the vat's end), every other live vat's c-list is as it was when the crank
\* began, and no vat but the failed one is newly dead (processDeliveryMessage,
\* rollbackCrank).  A failed upgrade ends no vat, and the upgraded one has
\* back what its old incarnation had dropped and the kernel had abandoned for
\* it (abortUpgrade).
AbortUndoesTheCrank ==
  [][/\ \A keeperCached \in BOOLEAN :
          AbortDelivery(keeperCached, NoObject) => CrankUndone({crank.vat})
     /\ AbortUpgrade => CrankUndone({})]_vars

-----------------------------------------------------------------------------
\* An export nobody holds is eventually dropped, unless it is sent again, its
\* exporter dies, or the kernel stops (which KernelNeverFails is about).
GarbageIsDropped ==
  \A o \in Objects, v \in Vats :
    (o \in k.exports[v] \cap k.reach[v] /\ ~Held(o) /\ crank = Idle)
      ~> (o \notin k.reach[v] \/ Held(o) \/ IsTerminated(k, v) \/ k.failed)

\* An import of a deleted object eventually leaves its live importer's c-list,
\* unless the kernel stops.
DeadImportIsRetired ==
  \A o \in Objects, v \in Vats :
    (o \in k.imports[v] /\ ~KernelObjectExists(k, o))
      ~> (o \notin k.imports[v] \/ IsTerminated(k, v) \/ k.failed)
=============================================================================

---------------------------- MODULE KernelObjects ----------------------------
(***************************************************************************)
(* The SwingSet kernel's object table, c-lists and GC action set           *)
(* (packages/SwingSet/src/kernel/state/kernelKeeper.js, vatKeeper.js and   *)
(* gc-actions.js), as operators from one kernel state to the next.  The    *)
(* crank machinery that calls them is module KernelGC.                     *)
(*                                                                         *)
(* A kernel object (kref) is a number, allocated in increasing order and   *)
(* never reused; a vat is a number, whose root object is the kref with the *)
(* same number.  Vrefs are not modelled: a c-list entry is the membership  *)
(* of a kref in the vat's exports or imports.  Promises are in module      *)
(* KernelPromises.                                                         *)
(***************************************************************************)
EXTENDS Integers, Sequences, FiniteSets

CONSTANTS
  NVats,        \* number of vats, all created at kernel initialization
  NObjects      \* bound on the krefs the kernel allocates (ko.nextID)

ASSUME VatsAssumption == NVats \in Nat \ {0}
ASSUME ObjectsAssumption == NObjects \in Nat /\ NObjects >= NVats

Vats == 1..NVats
Objects == 1..NObjects
NoVat == 0       \* an absent `${kref}.owner` key
NoObject == 0    \* a message without an argument slot

\* A 'send' event.  One argument slot stands for the list: slots are
\* handled one after the other, each exactly like the others.
Message == [target : Objects, arg : Objects \cup {NoObject}]

ActionTypes == {"dropExport", "retireExport", "retireImport"}
GCAction == [vat : Vats, type : ActionTypes, kref : Objects]
RefCount == [exists : BOOLEAN, reachable : Nat, recognizable : Nat]

KernelState ==
  [ owner           : [Objects -> Vats \cup {NoVat}],
    refCount        : [Objects -> RefCount],
    exports         : [Vats -> SUBSET Objects],   \* c-list entries o+NN
    imports         : [Vats -> SUBSET Objects],   \* c-list entries o-NN
    reach           : [Vats -> SUBSET Objects],   \* entries flagged R
    acceptanceQueue : Seq(Message),
    runQueue        : Seq(Message),
    gcActions       : SUBSET GCAction,
    nextKoid        : Nat,
    kernelObjects   : Int,                        \* the statistics gauge
    initialized     : SUBSET Vats,                \* `${vatID}.o.nextID` is there
    liveIDs         : SUBSET Vats,                \* vat.dynamicIDs and vat.names
    terminated      : Seq(Vats),                  \* vats.terminated
    \* The rest is RAM, which a rollback of the crank does not restore.
    terminatedVats  : Seq(Vats),                  \* RAM copy of vats.terminated
    vatKeepers      : SUBSET Vats,                \* dead vats with a cached keeper
    maybeFree       : SUBSET Objects,             \* maybeFreeKrefs
    failed          : BOOLEAN ]                   \* an assertion failed: panic

Elements(s) == {s[i] : i \in 1..Len(s)}

KernelObjectExists(k, o) == k.refCount[o].exists

IsTerminated(k, v) == v \in Elements(k.terminatedVats)

VatIsAlive(k, v) == v \in k.initialized /\ ~IsTerminated(k, v)

\* provideVatKeeper asserts that the vat is initialized, unless its keeper
\* is still in the cache.
ProvidesVatKeeper(k, v) == v \in k.initialized \cup k.vatKeepers

OwnerOfKernelObject(k, o) ==
  IF k.owner[o] = NoVat \/ IsTerminated(k, k.owner[o]) THEN NoVat ELSE k.owner[o]

-----------------------------------------------------------------------------
\* Reference counts.

\* setObjectReferenceCount, applied to every object of S: the counts may
\* neither underflow nor leave reachable above recognizable.
SetObjectRefCounts(k, S, dReach, dRecog) ==
  LET reach(o) == k.refCount[o].reachable + dReach
      recog(o) == k.refCount[o].recognizable + dRecog
  IN IF \A o \in S : 0 <= reach(o) /\ reach(o) <= recog(o)
     THEN [k EXCEPT !.refCount =
             [o \in Objects |->
                IF o \in S
                THEN [exists |-> TRUE, reachable |-> reach(o), recognizable |-> recog(o)]
                ELSE k.refCount[o]]]
     ELSE [k EXCEPT !.failed = TRUE]

IncrementRefCount(k, o) ==
  IF o = NoObject THEN k ELSE SetObjectRefCounts(k, {o}, 1, 1)

\* Mutant: the check that the object still exists is missing.
DecrementRefCountsOfDeleted(k, S, dReach) ==
  LET after == SetObjectRefCounts(k, S, -dReach, -1)
  IN [after EXCEPT !.maybeFree = @ \cup {o \in S : after.refCount[o].reachable = 0}]

\* Mutant: an object is a candidate only once nobody recognizes it.
DecrementRefCountsLate(k, S, dReach) ==
  LET known == {o \in S : KernelObjectExists(k, o)}
      after == SetObjectRefCounts(k, known, -dReach, -1)
  IN [after EXCEPT !.maybeFree = @ \cup {o \in known : after.refCount[o].recognizable = 0}]

\* decrementRefCount of every object of S; dReach = 0 is onlyRecognizable.
DecrementRefCounts(k, S, dReach) ==
  LET known == {o \in S : KernelObjectExists(k, o)}
      after == SetObjectRefCounts(k, known, -dReach, -1)
      zero  == {o \in known : \/ after.refCount[o].reachable = 0
                              \/ after.refCount[o].recognizable = 0}
  IN [after EXCEPT !.maybeFree = @ \cup zero]

DecrementRefCount(k, o) ==
  IF o = NoObject THEN k ELSE DecrementRefCounts(k, {o}, 1)

-----------------------------------------------------------------------------
\* The object table.

AddKernelObject(k, v) ==
  [k EXCEPT !.owner[k.nextKoid] = v,
            !.refCount[k.nextKoid] =
               [exists |-> TRUE, reachable |-> 0, recognizable |-> 0],
            !.nextKoid = @ + 1,
            !.kernelObjects = @ + 1]

DeleteKernelObjects(k, S) ==
  [k EXCEPT !.owner = [o \in Objects |-> IF o \in S THEN NoVat ELSE k.owner[o]],
            !.refCount =
               [o \in Objects |->
                  IF o \in S
                  THEN [exists |-> FALSE, reachable |-> 0, recognizable |-> 0]
                  ELSE k.refCount[o]],
            !.kernelObjects = @ - Cardinality(S)]

\* Mutant: importers that only recognize the object are passed over.
GetReachingImporters(k, o) == {v \in k.liveIDs : o \in k.imports[v] \cap k.reach[v]}

\* getImporters scans the live vats only.
GetImporters(k, o) == {v \in k.liveIDs : o \in k.imports[v]}

RetireKernelObjects(k, S) ==
  LET actions == UNION {{[vat |-> v, type |-> "retireImport", kref |-> o] :
                           v \in GetImporters(k, o)} : o \in S}
      scanned == \A v \in k.liveIDs : ProvidesVatKeeper(k, v)
      deleted == DeleteKernelObjects(k, S)
  IN IF S = {} THEN k
     ELSE [deleted EXCEPT !.gcActions = @ \cup actions,
                          !.failed = @ \/ ~scanned]

\* Mutant: the exporter's c-list entry is kept.
OrphanKeepingEntry(k, S, v) ==
  [k EXCEPT !.owner = [o \in Objects |-> IF o \in S THEN NoVat ELSE k.owner[o]],
            !.maybeFree = @ \cup S]

\* Mutant: the orphan is not put on maybeFreeKrefs.
OrphanWithoutCandidate(k, S, v) ==
  [k EXCEPT !.owner = [o \in Objects |-> IF o \in S THEN NoVat ELSE k.owner[o]],
            !.exports[v] = @ \ S,
            !.reach[v] = @ \ S]

OrphanKernelObjects(k, S, v) ==
  IF \A o \in S : k.owner[o] = v
  THEN [k EXCEPT !.owner = [o \in Objects |-> IF o \in S THEN NoVat ELSE k.owner[o]],
                 !.exports[v] = @ \ S,
                 !.reach[v] = @ \ S,
                 !.maybeFree = @ \cup S]
  ELSE [k EXCEPT !.failed = TRUE]

-----------------------------------------------------------------------------
\* C-lists.

\* Only imports count: an exporter's own flag says what it was told.
SetReachableFlag(k, v, o) ==
  LET flagged == [k EXCEPT !.reach[v] = @ \cup {o}]
  IN IF o \in k.imports[v] \ k.reach[v]
     THEN SetObjectRefCounts(flagged, {o}, 1, 0)
     ELSE flagged

ClearReachableFlags(k, v, S) ==
  LET counted == {o \in S \cap k.imports[v] \cap k.reach[v] : KernelObjectExists(k, o)}
      after   == SetObjectRefCounts([k EXCEPT !.reach[v] = @ \ S], counted, -1, 0)
  IN [after EXCEPT !.maybeFree =
        @ \cup {o \in counted : after.refCount[o].reachable = 0}]

DeleteCListEntries(k, v, S) ==
  LET decremented == DecrementRefCounts(ClearReachableFlags(k, v, S),
                                        S \cap k.imports[v], 0)
  IN [decremented EXCEPT !.imports[v] = @ \ S, !.exports[v] = @ \ S]

NewExport(k, v) ==
  [AddKernelObject(k, v) EXCEPT !.exports[v] = @ \cup {k.nextKoid}]

NewImport(k, v, o) ==
  [SetObjectRefCounts(k, {o}, 0, 1) EXCEPT !.imports[v] = @ \cup {o}]

UnreachableExport(k, v, o) == [k EXCEPT !.failed = @ \/ o \notin k.reach[v]]

\* Mutant: an export mentioned again is not flagged reachable again.
MapVatSlotWithoutFlag(k, v, o) ==
  IF o # NoObject /\ o = k.nextKoid THEN SetReachableFlag(NewExport(k, v), v, o) ELSE k

\* mapVatSlotToKernelSlot with setReachable: the kref ko.nextID stands for
\* an export the vat has not mentioned before.  The caller has checked
\* MayMention: anything else is a vat-fatal syscall.
MapVatSlotToKernelSlot(k, v, o) ==
  IF o = NoObject THEN k
  ELSE IF o = k.nextKoid THEN SetReachableFlag(NewExport(k, v), v, o)
  ELSE IF o \in k.exports[v] THEN SetReachableFlag(k, v, o)
  ELSE k

MayMention(k, v) == k.exports[v] \cup (k.imports[v] \cap k.reach[v])

\* mapKernelSlotToVatSlot with setReachable: a missing entry becomes an
\* import; an export must be flagged, else "kernel sent unreachable export".
MapKernelSlotToVatSlot(k, v, o) ==
  IF o = NoObject THEN k
  ELSE IF o \in k.exports[v] THEN UnreachableExport(k, v, o)
  ELSE IF o \in k.imports[v] THEN SetReachableFlag(k, v, o)
  ELSE SetReachableFlag(NewImport(k, v, o), v, o)

-----------------------------------------------------------------------------
\* Mutant: a retireExport is queued without asking whether there is an owner.
ProcessRefcountsUnowned(k) ==
  LET unheld == {o \in k.maybeFree : k.refCount[o].recognizable = 0}
  IN [k EXCEPT !.gcActions = @ \cup
                 {[vat |-> k.owner[o], type |-> "retireExport", kref |-> o] : o \in unheld},
               !.maybeFree = {}]

\* processRefcounts: what the end of a crank makes of maybeFreeKrefs.
\* An export of a terminated vat is orphaned on the spot.  A kref whose
\* object is gone (lostKrefs) has count zero and no owner, and is deleted
\* again, statistics included.
ProcessRefcounts(k) ==
  LET unreachable == {o \in k.maybeFree : k.refCount[o].reachable = 0}
      owned    == {o \in unreachable : OwnerOfKernelObject(k, o) # NoVat}
      orphans  == unreachable \ owned
      recog(o) == k.refCount[o].recognizable > 0
      act(t, o) == [vat |-> k.owner[o], type |-> t, kref |-> o]
      drops    == {act("dropExport", o) : o \in {x \in owned : x \in k.reach[k.owner[x]]}}
      retires  == {act("retireExport", o) : o \in {x \in owned : ~recog(x)}}
      ownedBy(v) == {o \in orphans : k.owner[o] = v}
      detached == [k EXCEPT !.owner = [o \in Objects |-> IF o \in orphans THEN NoVat
                                                         ELSE k.owner[o]],
                            !.exports = [v \in Vats |-> k.exports[v] \ ownedBy(v)],
                            !.reach = [v \in Vats |-> k.reach[v] \ ownedBy(v)]]
      retired  == RetireKernelObjects(detached, {o \in orphans : recog(o)})
      deleted  == DeleteKernelObjects(retired, {o \in orphans : ~recog(o)})
  IN [deleted EXCEPT !.gcActions = @ \cup drops \cup retires, !.maybeFree = {}]

-----------------------------------------------------------------------------
\* gc-actions.js: things may have changed since an action was queued.
ShouldProcessAction(k, a) ==
  LET hasCList == a.kref \in k.exports[a.vat] \cup k.imports[a.vat]
      counts   == k.refCount[a.kref]
  IN /\ hasCList
     /\ a.type = "dropExport" =>
          counts.exists /\ counts.reachable = 0 /\ a.kref \in k.reach[a.vat]
     /\ a.type = "retireExport" =>
          counts.exists /\ counts.reachable = 0 /\ counts.recognizable = 0

\* Mutant: retirements come before drops.
TypePriorityReversed(t) ==
  CASE t = "dropExport" -> 3 [] t = "retireExport" -> 2 [] t = "retireImport" -> 1

TypePriority(t) ==
  CASE t = "dropExport" -> 1 [] t = "retireExport" -> 2 [] t = "retireImport" -> 3

\* Groups are examined vat by vat, and within a vat by type.
GroupBefore(a, b) ==
  \/ a.vat < b.vat
  \/ a.vat = b.vat /\ TypePriority(a.type) < TypePriority(b.type)

\* The outcome of processGCActionSet: the survivors of the first group that
\* has any, and the actions that were examined, which are all removed.
GCActionsToProcess(k) ==
  LET survivors == {a \in k.gcActions : ShouldProcessAction(k, a)}
  IN {a \in survivors : \A b \in survivors : ~GroupBefore(b, a)}

GCActionsExamined(k) ==
  {a \in k.gcActions : \A b \in GCActionsToProcess(k) : ~GroupBefore(b, a)}
=============================================================================

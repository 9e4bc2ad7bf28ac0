------------------------------ MODULE Liveslots ------------------------------
(***************************************************************************)
(* Garbage collection inside a vat (swingset-liveslots): how liveslots     *)
(* tracks what its vat can reach or recognize, with weak references and    *)
(* finalizers for what is in RAM and reference counts for what is in the   *)
(* vatstore, and what it tells the kernel when it delivers                 *)
(* bringOutYourDead.  A vat imports Presences, and owns Remotables (in     *)
(* RAM) and stored objects (virtual objects and weak stores, rebuilt in    *)
(* RAM as Representatives).  The JavaScript engine collects what the       *)
(* user's code no longer holds and runs finalizers later; the kernel       *)
(* delivers messages, drops and retirements between the scans.             *)
(***************************************************************************)
EXTENDS Integers, FiniteSets

CONSTANTS
  Presences,      \* vrefs of imports
  Remotables,     \* vrefs of the vat's objects in RAM
  Virtuals,       \* vrefs of virtual objects
  WeakStores,     \* vrefs of weak collections in the vatstore
  WeakMaps,       \* the WeakMaps of the vat's code (voAwareWeakMap)
  NoVref,         \* no object: the key of a virtual object's state
  Contents,       \* the entries [holder, key, val] the vat's code may make
  Sendable,       \* the objects the vat's code may send
  OrganicGC,      \* what the engine collects outside of a forced GC
  MaxCallbacks    \* bound: finalizers pending for a vref

Stored == Virtuals \cup WeakStores
Exports == Stored \cup Remotables
Vrefs == Presences \cup Exports

ASSUME VrefsAssumption ==
  /\ Presences \cap Exports = {} /\ Stored \cap Remotables = {}
  /\ WeakMaps \cap Vrefs = {} /\ NoVref \notin Vrefs
ASSUME ContentsAssumption ==
  /\ Contents \subseteq [holder : Stored \cup WeakMaps, key : Vrefs \cup {NoVref},
                         val : Vrefs \cup {NoVref}]
  /\ \A e \in Contents :
       /\ IF e.holder \in Virtuals THEN e.key = NoVref ELSE e.key \in Vrefs
       /\ e.holder \in WeakMaps => e.key \notin Remotables
ASSUME SendableAssumption == Sendable \subseteq Exports
ASSUME EngineAssumption ==
  OrganicGC \subseteq Vrefs \cup WeakMaps /\ MaxCallbacks \in Nat \ {0}

VARIABLES
  vat,        \* the tables of liveslots, in RAM and in the vatstore
  held,       \* what the vat's code refers to from RAM
  callbacks,  \* per vref, the finalizer callbacks not run yet
  clist,      \* per vref, what the kernel believes of this vat
  scan        \* the progress of scanForDeadObjects

vars == <<vat, held, callbacks, clist, scan>>

Scanning == scan.phase = "examine"

Fail(vt, unless) == [vt EXCEPT !.failed = @ \/ ~unless]

-----------------------------------------------------------------------------
(* Virtual references *)

At(vt, h, k) == {e \in vt.entries : e.holder = h /\ e.key = k}
InStore(E) == {e \in E : e.holder \in Stored}
CountIn(E, o) == Cardinality({e \in E : e.val = o})

(* The vref keys a weak collection recognizes. *)
Recognizers(vt, o) == {e.holder : e \in {f \in vt.entries : f.key = o}}

\* Mutant: a vref that lost its last reference is not looked at again.
RemoveReachableQuietly(vt, E) ==
  [vt EXCEPT !.rc = [o \in Vrefs |-> @[o] - CountIn(E, o)]]

(* removeReachableVref on the value of every entry of E. *)
RemoveReachable(vt, E) ==
  LET lost(o) == CountIn(E, o)
      released == {o \in Vrefs : lost(o) > 0 /\ vt.rc[o] = lost(o)}
  IN [Fail(vt, \A o \in Vrefs :
                  /\ lost(o) <= vt.rc[o]
                  /\ lost(o) > 0 /\ o \in Remotables => vt.val[o] = "live")
      EXCEPT !.rc = [o \in Vrefs |-> @[o] - lost(o)],
             !.dead = @ \cup (released \ Remotables),
             !.again = @ \/ (Scanning /\ released \cap Remotables # {})]

AddReachable(vt, o) ==
  IF o = NoVref THEN vt
  ELSE [Fail(vt, o \in Remotables => vt.val[o] = "live") EXCEPT !.rc[o] = @ + 1]

(* Deleting entries from collections, with what each held and recognized:  *)
(* a Presence may have lost its last recognizer.  A WeakMap only notices   *)
(* when no other WeakMap of the vat recognizes the vref. *)
RemoveEntries(vt, E) ==
  LET rest == vt.entries \ E
      inRAM(S, k) == \E e \in S : e.key = k /\ e.holder \in WeakMaps
      lost == {e.key : e \in InStore(E)}
                \cup {e.key : e \in {f \in E : inRAM(E, f.key) /\ ~inRAM(rest, f.key)}}
  IN [RemoveReachable(vt, InStore(E)) EXCEPT
        !.entries = rest, !.retired = @ \cup (lost \cap Presences)]

(* ceaseRecognition: the entries go without a word to possiblyRetiredSet. *)
CeaseRecognition(vt, o) ==
  LET E == {e \in vt.entries : e.key = o}
  IN [RemoveReachable(vt, InStore(E)) EXCEPT
        !.entries = @ \ E,
        !.again = @ \/ (Scanning /\ \E e \in E : e.holder \in WeakMaps)]

IsPresenceReachable(vt, o) == vt.rc[o] > 0
IsVirtualObjectReachable(vt, o) == vt.rc[o] > 0 \/ vt.es[o] = "r"
IsRecognizable(vt, o) == Recognizers(vt, o) # {}

DeleteVirtualObject(vt, o) ==
  LET asserted == Fail(vt, ~IsVirtualObjectReachable(vt, o) /\ o \in vt.alive)
      emptied == RemoveEntries(asserted, {e \in vt.entries : e.holder = o})
  IN CeaseRecognition([emptied EXCEPT !.alive = @ \ {o}, !.es[o] = "n", !.rc[o] = 0], o)

SetExportStatus(vt, o, status) ==
  [vt EXCEPT !.es[o] = status,
             !.dead = @ \cup {q \in {o} : status = "s" /\ vt.rc[o] = 0}]

-----------------------------------------------------------------------------
(* Translating between objects and vrefs *)

(* getValForSlot *)
InRAM(vt, o) == vt.val[o] = "live"

(* convertSlotToVal *)
ToVal(vt, o) ==
  [Fail(vt, o \in Remotables => InRAM(vt, o)) EXCEPT !.val[o] = "live"]

(* convertValToSlot: a Remotable gets its vref when it first needs one. *)
ToSlot(vt, o) ==
  IF o \in Remotables THEN [vt EXCEPT !.val[o] = "live"] ELSE vt

RetainExported(vt, o) ==
  IF o \in Stored THEN SetExportStatus(vt, o, "r")
  ELSE [vt EXCEPT !.exported = @ \cup {o}, !.recognized = @ \cup {o}]

(* What keeps an object in RAM: the vat's code, the values of its WeakMaps *)
(* and, for a Remotable, the sets liveslots holds it in. *)
Pinned(vt) ==
  held \cup vt.exported \cup {r \in Remotables : vt.rc[r] > 0}
       \cup {e.val : e \in {f \in vt.entries : f.holder \in WeakMaps}}

-----------------------------------------------------------------------------
(* The vat's code, running in a delivery *)

Idle == scan.phase = "idle" /\ ~vat.failed

Forget(o) ==
  /\ Idle /\ o \in held
  /\ held' = held \ {o}
  /\ UNCHANGED <<vat, callbacks, clist, scan>>

(* updateReferenceCounts and addRecognizableValue, for what the vat writes *)
(* to the state of a virtual object or to a weak store. *)
Written(vt, h, k, x) ==
  LET old == At(vt, h, k)
      new == {[holder |-> h, key |-> k, val |-> x]}
      same == \E e \in old : e.val = x
      added == IF same THEN vt ELSE RemoveReachable(AddReachable(vt, x), old)
  IN [added EXCEPT !.entries = (@ \ old) \cup new]

SetStored(h, k, x) ==
  /\ Idle /\ h \in Stored
  /\ {h, k, x} \subseteq held \cup {NoVref}
  /\ [holder |-> h, key |-> k, val |-> x] \in Contents
  /\ vat' = Written(ToSlot(ToSlot(vat, k), x), h, k, x)
  /\ UNCHANGED <<held, callbacks, clist, scan>>

(* A WeakMap holds its value, and its key by the vref. *)
SetWeakMap(m, k, x) ==
  /\ Idle /\ m \in WeakMaps
  /\ {m, k, x} \subseteq held \cup {NoVref}
  /\ [holder |-> m, key |-> k, val |-> x] \in Contents
  /\ vat' = [vat EXCEPT !.entries = (@ \ At(vat, m, k))
                                       \cup {[holder |-> m, key |-> k, val |-> x]}]
  /\ UNCHANGED <<held, callbacks, clist, scan>>

DeleteEntry(h, k) ==
  /\ Idle /\ h \notin Virtuals
  /\ {h, k} \subseteq held /\ At(vat, h, k) # {}
  /\ vat' = RemoveEntries(vat, At(vat, h, k))
  /\ UNCHANGED <<held, callbacks, clist, scan>>

(* Reading a property or an entry brings what it refers to into RAM. *)
GetEntry(h, k) ==
  /\ Idle /\ {h, k} \subseteq held \cup {NoVref}
  /\ \E e \in At(vat, h, k) :
       /\ e.val # NoVref
       /\ held' = held \cup {e.val}
       /\ vat' = IF h \in WeakMaps THEN vat ELSE ToVal(vat, e.val)
  /\ UNCHANGED <<callbacks, clist, scan>>

(* A message of the vat carries one of its objects to the kernel. *)
Send(o) ==
  /\ Idle /\ o \in held \cap Sendable
  /\ vat' = RetainExported(ToSlot(vat, o), o)
  /\ clist' = [clist EXCEPT ![o] = "reach"]
  /\ UNCHANGED <<held, callbacks, scan>>

-----------------------------------------------------------------------------
(* Deliveries of the kernel *)

(* A message brings an import, or an object of the vat that another vat    *)
(* still reaches. *)
Deliver(o) ==
  /\ Idle
  /\ IF o \in Presences THEN clist[o] # "gone" ELSE clist[o] = "reach"
  /\ clist' = [clist EXCEPT ![o] = "reach"]
  /\ vat' = ToVal(vat, o)
  /\ held' = held \cup {o}
  /\ UNCHANGED <<callbacks, scan>>

DropExports(o) ==
  /\ Idle /\ o \in Exports /\ clist[o] = "reach"
  /\ clist' = [clist EXCEPT ![o] = "seen"]
  /\ vat' = LET freed == IF InRAM(vat, o) THEN [vat EXCEPT !.exported = @ \ {o}] ELSE vat
            IN IF o \in Stored THEN SetExportStatus(freed, o, "s") ELSE freed
  /\ UNCHANGED <<held, callbacks, scan>>

RetireExports(o) ==
  /\ Idle /\ o \in Exports /\ clist[o] = "seen"
  /\ clist' = [clist EXCEPT ![o] = "none"]
  /\ vat' = IF o \in Stored THEN SetExportStatus(vat, o, "n")
            ELSE [vat EXCEPT !.recognized = @ \ {o}]
  /\ UNCHANGED <<held, callbacks, scan>>

RetireImports(o) ==
  /\ Idle /\ o \in Presences /\ clist[o] = "seen"
  /\ clist' = [clist EXCEPT ![o] = "gone"]
  /\ vat' = CeaseRecognition(vat, o)
  /\ UNCHANGED <<held, callbacks, scan>>

-----------------------------------------------------------------------------
(* The engine *)

Forced == scan.phase = "gc"

Collect(o) ==
  /\ ~vat.failed /\ InRAM(vat, o) /\ o \notin Pinned(vat)
  /\ Forced \/ o \in OrganicGC
  /\ callbacks[o] < MaxCallbacks
  /\ vat' = [vat EXCEPT !.val[o] = "collected"]
  /\ callbacks' = [callbacks EXCEPT ![o] = @ + 1]
  /\ UNCHANGED <<held, clist, scan>>

\* Mutant: the callback does not look whether the object is back.
FinalizedBlindly(vt, o) ==
  [vt EXCEPT !.dead = @ \cup {o}, !.val[o] = "absent"]

(* finalizeDroppedObject *)
Finalized(vt, o) ==
  IF vt.val[o] = "collected"
  THEN [vt EXCEPT !.dead = @ \cup {o}, !.val[o] = "absent"]
  ELSE vt

RunFinalizer(o) ==
  /\ Idle \/ Forced
  /\ callbacks[o] > 0
  /\ callbacks' = [callbacks EXCEPT ![o] = @ - 1]
  /\ vat' = Finalized(vat, o)
  /\ UNCHANGED <<held, clist, scan>>

(* finalizeDroppedCollection: a WeakMap is collected and its callback run, *)
(* in one step. *)
FinalizeWeakMap(m) ==
  /\ Forced \/ (Idle /\ m \in OrganicGC)
  /\ m \in vat.maps \ held
  /\ vat' = [RemoveEntries(vat, {e \in vat.entries : e.holder = m}) EXCEPT !.maps = @ \ {m}]
  /\ UNCHANGED <<held, callbacks, clist, scan>>

-----------------------------------------------------------------------------
(* bringOutYourDead *)

NoScan == [phase |-> "idle", todo |-> {}, drop |-> {}, retireExports |-> {}]

BringOutYourDead ==
  /\ Idle
  /\ scan' = [scan EXCEPT !.phase = "gc"]
  /\ UNCHANGED <<vat, held, callbacks, clist>>

(* gcAndFinalize is over, whatever it has collected and finalized: what    *)
(* may be dead by now is looked at, one by one, in any order. *)
BeginPass ==
  /\ Forced
  /\ scan' = [scan EXCEPT !.phase = "examine", !.todo = vat.dead]
  /\ vat' = [vat EXCEPT !.again = FALSE]
  /\ UNCHANGED <<held, callbacks, clist>>

(* slotToVal.has: also true while a callback is pending. *)
HasVal(vt, o) == vt.val[o] \in {"live", "collected"}

CheckExportRepresentative(vt, o) ==
  /\ o \in Stored
  /\ IF HasVal(vt, o) \/ IsVirtualObjectReachable(vt, o)
     THEN vat' = vt /\ scan' = [scan EXCEPT !.todo = @ \ {o}]
     ELSE /\ vat' = DeleteVirtualObject(vt, o)
          /\ scan' = [scan EXCEPT !.todo = @ \ {o},
                        !.retireExports = @ \cup {q \in {o} : vt.es[q] = "s"}]

CheckExportRemotable(vt, o) ==
  /\ o \in Remotables
  /\ IF HasVal(vt, o)
     THEN vat' = vt /\ scan' = [scan EXCEPT !.todo = @ \ {o}]
     ELSE /\ vat' = CeaseRecognition([vt EXCEPT !.recognized = @ \ {o}], o)
          /\ scan' = [scan EXCEPT !.todo = @ \ {o},
                        !.retireExports = @ \cup ({o} \cap vt.recognized)]

CheckImportPresence(vt, o) ==
  /\ o \in Presences
  /\ IF HasVal(vt, o) \/ IsPresenceReachable(vt, o)
     THEN vat' = vt /\ scan' = [scan EXCEPT !.todo = @ \ {o}]
     ELSE /\ vat' = [vt EXCEPT !.retired = @ \cup {o}]
          /\ scan' = [scan EXCEPT !.todo = @ \ {o}, !.drop = @ \cup {o}]

Examine(o) ==
  /\ scan.phase = "examine" /\ o \in scan.todo /\ ~vat.failed
  /\ LET looked == [vat EXCEPT !.dead = @ \ {o}]
     IN \/ CheckExportRepresentative(looked, o)
        \/ CheckExportRemotable(looked, o)
        \/ CheckImportPresence(looked, o)
  /\ UNCHANGED <<held, callbacks, clist>>

AnotherPass ==
  /\ scan.phase = "examine" /\ scan.todo = {} /\ ~vat.failed
  /\ vat.dead # {} \/ vat.again
  /\ scan' = [scan EXCEPT !.phase = "gc"]
  /\ UNCHANGED <<vat, held, callbacks, clist>>

\* Mutant: a vref that vdata still reaches may be retired (#9939).
ImportsToRetireNoVdata ==
  {o \in vat.retired :
     /\ o \in scan.drop \/ ~HasVal(vat, o)
     /\ ~IsRecognizable(vat, o)}

ImportsToRetire ==
  {o \in vat.retired :
     /\ o \in scan.drop \/ ~(HasVal(vat, o) \/ IsPresenceReachable(vat, o))
     /\ ~IsRecognizable(vat, o)}

(* translateDropImports, translateRetireImports and translateRetireExports:*)
(* what is not so ends the vat. *)
Legal(drops, retires, retiredExports) ==
  /\ \A o \in drops \cup retires : clist[o] \in {"reach", "seen"}
  /\ \A o \in retires : clist[o] = "seen" \/ o \in drops
  /\ \A o \in retiredExports : clist[o] = "seen"

FinishScan ==
  /\ scan.phase = "examine" /\ scan.todo = {} /\ ~vat.failed
  /\ vat.dead = {} /\ ~vat.again
  /\ LET retires == ImportsToRetire
     IN /\ clist' = [o \in Vrefs |->
                       IF o \in retires THEN "gone"
                       ELSE IF o \in scan.drop THEN "seen"
                       ELSE IF o \in scan.retireExports THEN "none" ELSE clist[o]]
        /\ vat' = [Fail(vat, Legal(scan.drop, retires, scan.retireExports))
                   EXCEPT !.retired = {}]
  /\ scan' = NoScan
  /\ UNCHANGED <<held, callbacks>>

-----------------------------------------------------------------------------
(* After buildRootObject: the vat's code holds the objects it made. *)
Init ==
  /\ vat = [entries |-> {}, rc |-> [o \in Vrefs |-> 0], es |-> [o \in Stored |-> "n"],
            alive |-> Stored, val |-> [o \in Vrefs |-> IF o \in Stored THEN "live"
                                      ELSE IF o \in Remotables THEN "unnamed" ELSE "absent"],
            dead |-> {}, retired |-> {}, exported |-> {}, recognized |-> {},
            maps |-> WeakMaps, again |-> FALSE, failed |-> FALSE]
  /\ held = Exports \cup WeakMaps
  /\ callbacks = [o \in Vrefs |-> 0]
  /\ clist = [o \in Vrefs |-> "none"]
  /\ scan = NoScan

Next ==
  \/ \E o \in Vrefs \cup WeakMaps : Forget(o)
  \/ \E e \in Contents : SetStored(e.holder, e.key, e.val)
  \/ \E e \in Contents : SetWeakMap(e.holder, e.key, e.val)
  \/ \E e \in vat.entries : DeleteEntry(e.holder, e.key) \/ GetEntry(e.holder, e.key)
  \/ \E o \in Vrefs :
       \/ Send(o) \/ Deliver(o)
       \/ DropExports(o) \/ RetireExports(o) \/ RetireImports(o)
       \/ Collect(o) \/ RunFinalizer(o) \/ Examine(o)
  \/ \E m \in WeakMaps : FinalizeWeakMap(m)
  \/ BringOutYourDead \/ BeginPass \/ AnotherPass \/ FinishScan

Spec == Init /\ [][Next]_vars
=============================================================================

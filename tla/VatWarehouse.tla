---------------------------- MODULE VatWarehouse ----------------------------
(***************************************************************************)
(* The workers of a kernel: which vats are on line (vat-warehouse.js), how *)
(* a worker is rebuilt from its last heap snapshot and the transcript span *)
(* after it, and what a crank does to workers, meters, reap dirt and       *)
(* transcripts when it succeeds, aborts, upgrades or ends a vat            *)
(* (processDeliveryMessage in kernel.js).  A worker's heap is modelled by  *)
(* the sequence of deliveries that made it.  The host commits the database *)
(* now and then, and the process may crash.                                *)
(***************************************************************************)
EXTENDS SwingStore

CONSTANTS
  Vats,             \* vat IDs, numbers
  StaticVats,       \* the vats that exist from the start
  Meters,
  MeterOf,          \* per vat, the set of its meter, or {}
  Funds,            \* per meter, what is on it at first
  Refill,           \* what a meter is refilled by
  MaxVatsOnline,    \* the size of the LRU
  MaxPreload,       \* how many vats are brought on line at startup
  SnapshotInitial, SnapshotInterval,
  ReapThreshold,    \* deliveries after which a vat is reaped
  CleanupBudget,    \* spans and snapshots of a dead vat deleted in a crank
  Costs,            \* computrons a delivery may report; 0 is no report
  BoydCosts,        \* computrons of the bringOutYourDead of an upgrade
  MaxCranks,        \* bound: cranks and host calls that are not reaps
  MaxCrashes        \* bound: crashes

ASSUME VatsAssumption ==
  /\ Vats \subseteq Nat /\ MeterOf \in [Vats -> SUBSET Meters]
  /\ StaticVats \subseteq Vats /\ IsFiniteSet(StaticVats)
ASSUME FundsAssumption == Funds \in [Meters -> Nat] /\ Refill \in Nat
ASSUME LimitsAssumption ==
  /\ MaxVatsOnline \in Nat \ {0} /\ MaxPreload \in Nat
  /\ SnapshotInitial \in Nat \ {0} /\ SnapshotInterval \in Nat \ {0}
  /\ ReapThreshold \in Nat \ {0} /\ CleanupBudget \in Nat \ {0}
ASSUME CostsAssumption == Costs \subseteq Nat /\ BoydCosts \subseteq Nat
ASSUME BoundsAssumption == MaxCranks \in Nat /\ MaxCrashes \in Nat

VARIABLES
  db,        \* the kernel database, committed or not
  ram,       \* the workers: online, heap, recent; and whether the kernel threw
  exports,   \* the host's copy of the export data
  audit,     \* history of each meter: used, spent on reaping, kept, funded
  committed, \* db, exports and audit at the last commit
  cranks, crashes

vars == <<db, ram, exports, audit, committed, cranks, crashes>>

(* The operators below work on s, the database together with the workers. *)
Now == [db |-> db, ram |-> ram]

-----------------------------------------------------------------------------
(* Workers *)

Real(item) == item[1] \in {"start", "boyd", "msg"}

\* The deliveries among the items of a span.
Deliveries(items) ==
  LET upTo[n \in 0..Len(items)] ==
        IF n = 0 THEN <<>>
        ELSE IF Real(items[n]) THEN Append(upTo[n - 1], items[n]) ELSE upTo[n - 1]
  IN upTo[Len(items)]

\* Mutant: the span is replayed without its snapshot.
RebuiltWithoutSnapshot(st, v) == Deliveries(CurrentSpan(st, v).items)

(* What vatLoader.create and replayTranscript make of the database: the    *)
(* heap of the snapshot in use, and then the deliveries of the span. *)
Rebuilt(st, v) ==
  LET snaps == SnapshotInUse(st, v)
      start == IF snaps = {} THEN <<>> ELSE st.snaps[v][CHOOSE i \in snaps : TRUE].heap
  IN start \o Deliveries(CurrentSpan(st, v).items)

(* lookup: the vat is on line or at least alive. *)
Lookup(s, v) == v \in s.ram.online \/ v \in s.db.alive

Fail(s, unless) == [s EXCEPT !.ram.failed = @ \/ ~unless]

\* The recently used vats are distinct.
Without(recent, v) ==
  LET at == {i \in DOMAIN recent : recent[i] = v}
  IN IF at = {} THEN recent ELSE CHOOSE others \in {RemoveAt(recent, i) : i \in at} : TRUE

\* Mutant: the vat stays among the recently used ones.
EvictKeepingRecent(s, v) ==
  [Fail(s, Lookup(s, v)) EXCEPT !.ram.online = @ \ {v}, !.ram.heap[v] = <<>>]

Evict(s, v) ==
  [Fail(s, Lookup(s, v)) EXCEPT
     !.ram.recent = Without(@, v),
     !.ram.online = @ \ {v}, !.ram.heap[v] = <<>>]

(* stopWorker *)
StopWorker(s, v) == IF v \in s.ram.online THEN Evict(s, v) ELSE s

(* applyAvailabilityPolicy: add to the LRU, evict what falls out of it. *)
ApplyAvailabilityPolicy(s, v) ==
  LET recent == s.ram.recent
      items == Append(Without(recent, v), v)
  IN IF Len(recent) = MaxVatsOnline /\ Last(recent) = v THEN s
     ELSE IF Len(items) <= MaxVatsOnline THEN [s EXCEPT !.ram.recent = items]
     ELSE Evict([s EXCEPT !.ram.recent = Tail(items)], Head(items))

EnsureVatOnline(s, v) ==
  LET st == s.db.store
      inited == IF TranscriptSize(st, v) = 0 THEN AddItem(st, v, <<"init", 0>>) ELSE st
      started == Head(CurrentSpan(inited, v).items)[1] \in {"init", "load"}
      up == [s EXCEPT !.db.store = inited, !.ram.online = @ \cup {v},
                      !.ram.heap[v] = Rebuilt(inited, v)]
  IN IF v \in s.ram.online THEN s
     ELSE ApplyAvailabilityPolicy(Fail(up, v \in s.db.alive /\ started), v)

(* deliverToVat: the delivery is recorded whether it succeeds or not. *)
DeliverToVat(s, v, kind) ==
  LET up == EnsureVatOnline(ApplyAvailabilityPolicy(s, v), v)
      item == <<kind, cranks>>
  IN [up EXCEPT !.ram.heap[v] = Append(@, item),
                !.db.store = AddItem(@, v, item),
                !.db.dirt[v] = IF kind = "boyd" THEN 0 ELSE @]

(* vatKeeper.saveSnapshot, after the bringOutYourDead that precedes it and *)
(* whose results are ignored. *)
SaveVatSnapshot(s, v) ==
  LET dead == DeliverToVat(s, v, "boyd")
      st == dead.db.store
      saved == SaveSnapshot(st, v, CurrentSpan(st, v).end, dead.ram.heap[v])
      rolled == DoSpanRollover(AddItem(saved, v, <<"save", 0>>), v, FALSE)
  IN [dead EXCEPT !.db.store = AddItem(rolled, v, <<"load", 0>>)]

(* maybeSaveSnapshot *)
MaybeSaveSnapshot(s, v, minDeliveryCount) ==
  LET entries == TranscriptSize(s.db.store, v)
      initial == SnapshotInUse(s.db.store, v) = {} /\ entries >= SnapshotInitial
  IN IF v \notin s.db.alive THEN Fail(s, FALSE)
     ELSE IF ~initial /\ entries < minDeliveryCount THEN s
     ELSE SaveVatSnapshot(EnsureVatOnline(s, v), v)

(* beginNewWorkerIncarnation *)
BeginNewWorkerIncarnation(s, v) ==
  LET stopped == Evict(s, v)
      shut == AddItem(stopped.db.store, v, <<"shutdown", 0>>)
  IN [stopped EXCEPT !.db.store = DoSpanRollover(StopUsingLastSnapshot(shut, v), v, TRUE)]

-----------------------------------------------------------------------------
(* The end of a crank *)

(* A delivery ends "ok", in "error" (the worker is not to be trusted any   *)
(* more), in an "illegal" syscall or a failing exit, or in a good "exit".  *)
Outcomes == {"ok", "error", "illegal", "exit"}

(* deliverAndLogToVat *)
DeliverAndLog(s, v, kind, outcome) ==
  LET done == DeliverToVat(s, v, kind)
  IN IF outcome = "error" THEN StopWorker(done, v) ELSE done

(* checkMeter and deliveryCrankResults.  meters is {} for deliveries that  *)
(* are not metered. *)
MeterUnderrun(s, meters, c) == \E m \in meters : c > s.db.meter[m]

DeliveryCrankResults(s, outcome, c, measureDirt, meters) ==
  LET abort == outcome \in {"error", "illegal"} \/ MeterUnderrun(s, meters, c)
      terminate == abort \/ outcome = "exit"
  IN [did |-> TRUE, abort |-> abort, terminate |-> terminate, computrons |-> c,
      meters |-> IF c = 0 THEN {} ELSE meters, dirt |-> measureDirt /\ ~terminate]

DeductMeter(s, meters, c) ==
  [s EXCEPT !.db.meter = [m \in Meters |->
     IF m \notin meters THEN @[m] ELSE IF c > @[m] THEN 0 ELSE @[m] - c]]

ScheduleReap(s, v) ==
  [s EXCEPT !.db.reapQueue = IF v \in ToSet(@) THEN @ ELSE Append(@, v)]

\* Mutant: a vat is reaped one delivery late.
AddDirtLate(s, v) ==
  LET dirty == [s EXCEPT !.db.dirt[v] = @ + 1]
  IN IF dirty.db.dirt[v] > ReapThreshold THEN ScheduleReap(dirty, v) ELSE dirty

AddDirt(s, v) ==
  LET dirty == [s EXCEPT !.db.dirt[v] = @ + 1]
  IN IF dirty.db.dirt[v] >= ReapThreshold THEN ScheduleReap(dirty, v) ELSE dirty

(* terminateVat: the vat is dead, its current span and snapshot are closed *)
(* (removeVatFromSwingStoreExports), and its worker is stopped. *)
TerminateVat(s, v) ==
  LET dead == [s EXCEPT !.db.alive = @ \ {v}, !.db.terminated = Append(@, v),
                        !.db.store = StopUsingTranscript(StopUsingLastSnapshot(@, v), v)]
  IN StopWorker(IF v \in s.db.alive THEN dead ELSE s, v)

(* endCrank flushes the export data. *)
EndCrank(s) ==
  /\ db' = [s.db EXCEPT !.store.pending = <<>>]
  /\ ram' = s.ram
  /\ exports' = FlushedExports(exports, s.db.store)

(* processDeliveryMessage, once the delivery has its results: back to the  *)
(* savepoint or on to a snapshot, then the meter, the dirt, the end of the *)
(* vat.  What is rolled back is the database, not the workers. *)
Concluded(s, v, saved, r) ==
  IF r.abort THEN [s EXCEPT !.db = saved]
  ELSE IF r.did THEN MaybeSaveSnapshot(s, v, SnapshotInterval) ELSE s

PaidFor(s, v, r) ==
  LET paid == DeductMeter(s, r.meters, r.computrons)
      dirtied == IF r.dirt THEN AddDirt(paid, v) ELSE paid
  IN IF r.terminate THEN TerminateVat(dirtied, v) ELSE dirtied

\* Mutant: the meter is charged before the crank is rolled back.
FinishCrankPaidFirst(s, v, saved, r) ==
  LET paid == DeductMeter(s, r.meters, r.computrons)
  IN \E concluded \in {Concluded(paid, v, saved, r)} :
       EndCrank(PaidFor(concluded, v, [r EXCEPT !.computrons = 0]))

FinishCrank(s, v, saved, r) ==
  \E concluded \in {Concluded(s, v, saved, r)} : EndCrank(PaidFor(concluded, v, r))

(* The history of a crank in which user code owes computrons to its meter, *)
(* and which charges it those of an upgrade's bringOutYourDead as well.    *)
(* The debt of a vat that overruns the meter ends with what was on it.     *)
Settle(meters, owed, boyd, r) ==
  LET Payable(c, left) == IF c > left THEN left ELSE c
      Left(m) == audit.funded[m] - audit.used[m] - audit.boyd[m]
      Used(m) == IF m \in meters THEN Payable(owed, Left(m)) ELSE 0
      Boyd(m) == IF m \in meters THEN Payable(boyd, Left(m) - Used(m)) ELSE 0
      Owed(m) == IF m \in meters /\ ~r.abort THEN owed ELSE 0
  IN audit' = [used |-> [m \in Meters |-> audit.used[m] + Used(m)],
               boyd |-> [m \in Meters |-> audit.boyd[m] + Boyd(m)],
               kept |-> [m \in Meters |-> audit.kept[m] + Owed(m)],
               funded |-> audit.funded]

-----------------------------------------------------------------------------
(* Cranks *)

NewVat(v) == [Now EXCEPT !.db.alive = @ \cup {v},
                         !.db.store = InitTranscript(@, v), !.db.dirt[v] = 0]

Init ==
  /\ LET span == EmptySpan(0, 0)
         st == [NoStore(Vats) EXCEPT
                  !.spans = [v \in Vats |-> IF v \in StaticVats THEN <<span>> ELSE <<>>],
                  !.pending = [k \in {SpanKey(v, span) : v \in StaticVats} |-> {span}]]
     IN /\ db = [store |-> [st EXCEPT !.pending = <<>>],
                 alive |-> StaticVats, created |-> StaticVats, terminated |-> <<>>,
                 reapQueue |-> <<>>, dirt |-> [v \in Vats |-> 0], meter |-> Funds]
        /\ exports = FlushedExports(<<>>, st)
  /\ ram = [online |-> {}, heap |-> [v \in Vats |-> <<>>], recent |-> <<>>, failed |-> FALSE]
  /\ audit = [used |-> [m \in Meters |-> 0], boyd |-> [m \in Meters |-> 0],
              kept |-> [m \in Meters |-> 0], funded |-> Funds]
  /\ committed = [db |-> db, exports |-> exports, audit |-> audit]
  /\ cranks = 0
  /\ crashes = 0

Running == ~ram.failed
Counted == cranks < MaxCranks /\ cranks' = cranks + 1

(* The run-queue has the lowest priority; vats are only created, upgraded, *)
(* messaged and terminated by its events. *)
RunQueueIsNext == db.terminated = <<>> /\ db.reapQueue = <<>>

(* processSend, processNotify, and processGCMessage, which is not metered. *)
DeliverOn(v, outcome, c, meters) ==
  LET done == DeliverAndLog(Now, v, "msg", outcome)
      r == DeliveryCrankResults(done, outcome, c, TRUE, meters)
  IN FinishCrank(done, v, db, r) /\ Settle(meters, c, 0, r)

Deliver(v) ==
  /\ Running /\ Counted /\ RunQueueIsNext /\ v \in db.alive
  /\ \E outcome \in Outcomes, c \in Costs : DeliverOn(v, outcome, c, MeterOf[v])
  /\ UNCHANGED <<committed, crashes>>

DeliverGC(v) ==
  /\ Running /\ Counted /\ db.terminated = <<>> /\ v \in db.alive
  /\ \E outcome \in Outcomes : DeliverOn(v, outcome, 1, {})
  /\ UNCHANGED <<committed, crashes>>

(* processBringOutYourDead.  An abort also puts the event back. *)
Reap ==
  /\ Running /\ db.terminated = <<>> /\ db.reapQueue # <<>>
  /\ LET v == Head(db.reapQueue)
         popped == [Now EXCEPT !.db.reapQueue = Tail(@)]
     IN IF v \notin db.alive
        THEN EndCrank(popped) /\ UNCHANGED audit
        ELSE \E outcome \in Outcomes :
               LET done == DeliverAndLog(popped, v, "boyd", outcome)
                   r == DeliveryCrankResults(done, outcome, 1, FALSE, {})
               IN FinishCrank(done, v, db, r) /\ Settle({}, 0, 0, r)
  /\ UNCHANGED <<committed, cranks, crashes>>

(* processCreateVat: the worker may fail to start, or startVat may fail;   *)
(* either way the crank is rolled back to before the vat, and the event is *)
(* not tried again. *)
CreateVat(v) ==
  /\ Running /\ Counted /\ RunQueueIsNext /\ v \notin db.created
  /\ LET saved == [db EXCEPT !.created = @ \cup {v}]
         fresh == [NewVat(v) EXCEPT !.db.created = @ \cup {v}]
         failed == [did |-> TRUE, abort |-> TRUE, terminate |-> TRUE,
                    computrons |-> 0, meters |-> {}, dirt |-> FALSE]
     IN \/ FinishCrank(fresh, v, saved, failed) /\ Settle({}, 0, 0, failed)
        \/ \E outcome \in Outcomes, c \in Costs :
             LET done == DeliverAndLog(EnsureVatOnline(fresh, v), v, "start", outcome)
                 r == DeliveryCrankResults(done, outcome, c, TRUE, MeterOf[v])
             IN FinishCrank(done, v, saved, r) /\ Settle(MeterOf[v], c, 0, r)
  /\ UNCHANGED <<committed, crashes>>

\* Mutant: the worker of the failed upgrade is kept.
AbortUpgradeKeepingWorker(s, v, r, c) ==
  FinishCrank(s, v, db, [r EXCEPT !.computrons = c, !.abort = TRUE, !.terminate = FALSE])

(* abortUpgrade: stop the worker, unwind, and keep the vat. *)
AbortUpgrade(s, v, r, c) ==
  FinishCrank(StopWorker(s, v), v, db,
              [r EXCEPT !.computrons = c, !.abort = TRUE, !.terminate = FALSE])

(* processUpgradeVat: bringOutYourDead to the old incarnation, and then    *)
(* startVat to the new one, whose meter pays for both (for neither when    *)
(* startVat fails without a report). *)
UpgradeVat(v) ==
  /\ Running /\ Counted /\ RunQueueIsNext /\ v \in db.alive
  /\ \E boyd, start \in Outcomes, b \in BoydCosts, c \in Costs :
       LET reaped == DeliverAndLog(Now, v, "boyd", boyd)
           boydResults == DeliveryCrankResults(reaped, boyd, b, FALSE, {})
           done == DeliverAndLog(BeginNewWorkerIncarnation(reaped, v), v, "start", start)
           startResults == DeliveryCrankResults(done, start, c, TRUE, MeterOf[v])
           upgraded == [did |-> FALSE, abort |-> FALSE, terminate |-> FALSE,
                        computrons |-> b + c, meters |-> MeterOf[v], dirt |-> FALSE]
       IN IF boydResults.terminate
          THEN /\ AbortUpgrade(reaped, v, boydResults, b)
               /\ Settle({}, 0, 0, [boydResults EXCEPT !.abort = TRUE])
          ELSE IF startResults.terminate
          THEN /\ AbortUpgrade(done, v, startResults, b + c)
               /\ Settle(MeterOf[v], c, IF c = 0 THEN 0 ELSE b,
                         [startResults EXCEPT !.abort = TRUE])
          ELSE /\ FinishCrank(done, v, db, upgraded)
               /\ Settle(MeterOf[v], c, b, upgraded)
  /\ UNCHANGED <<committed, crashes>>

(* vatAdmin terminates another vat in one of its own deliveries. *)
Terminate(v) ==
  /\ Running /\ Counted /\ RunQueueIsNext /\ v \in db.alive
  /\ EndCrank(TerminateVat(Now, v))
  /\ UNCHANGED <<audit, committed, crashes>>

(* The last phases of cleanupAfterTerminatedVat. *)
CleanupTerminatedVat ==
  /\ Running /\ db.terminated # <<>>
  /\ LET v == Head(db.terminated)
         left == CleanupBudget - FewerOf(CleanupBudget, db.store.snaps[v])
         snapless == DeleteVatSnapshots(db.store, v, CleanupBudget)
         st == IF left = 0 THEN snapless ELSE DeleteVatTranscripts(snapless, v, CleanupBudget)
     IN EndCrank([Now EXCEPT !.db.store = st,
          !.db.terminated = IF left # 0 /\ st.spans[v] = <<>> THEN Tail(@) ELSE @])
  /\ UNCHANGED <<audit, committed, cranks, crashes>>

(* addMeterRemaining, a call of vatAdmin's device. *)
AddMeterRemaining(m) ==
  /\ Running /\ Counted /\ RunQueueIsNext
  /\ EndCrank([Now EXCEPT !.db.meter[m] = @ + Refill])
  /\ audit' = [audit EXCEPT !.funded[m] = @ + Refill]
  /\ UNCHANGED <<committed, crashes>>

-----------------------------------------------------------------------------
(* The host *)

\* The vats in the order of their IDs.
InOrder(S) ==
  CHOOSE vats \in [1..Cardinality(S) -> S] : \A i, j \in DOMAIN vats : i < j => vats[i] < vats[j]

ReapEach(s, vats) ==
  LET after[n \in 0..Len(vats)] ==
        IF n = 0 THEN s
        ELSE IF CurrentSpan(s.db.store, vats[n]).end = 0 THEN after[n - 1]
        ELSE ScheduleReap(after[n - 1], vats[n])
  IN after[Len(vats)]

SnapshotEach(s, vats) ==
  LET after[n \in 0..Len(vats)] ==
        IF n = 0 THEN s ELSE MaybeSaveSnapshot(after[n - 1], vats[n], 2)
  IN after[Len(vats)]

PreloadEach(s, vats) ==
  LET after[n \in 0..Len(vats)] ==
        IF n = 0 THEN s ELSE EnsureVatOnline(after[n - 1], vats[n])
  IN after[Len(vats)]

(* reapAllVats: every vat that has a transcript. *)
ReapAllVats ==
  /\ Running /\ Counted
  /\ db' = ReapEach(Now, InOrder(db.alive)).db
  /\ UNCHANGED <<ram, exports, audit, committed, crashes>>

(* snapshotAllVats: every vat whose span is not empty. *)
SnapshotAllVats ==
  /\ Running /\ Counted
  /\ EndCrank(SnapshotEach(Now, InOrder(db.alive)))
  /\ UNCHANGED <<audit, committed, crashes>>

(* The host commits the swing-store between cranks. *)
Commit ==
  /\ Running
  /\ exports' = FlushedExports(exports, db.store)
  /\ db' = [db EXCEPT !.store.pending = <<>>]
  /\ committed' = [db |-> db', exports |-> exports', audit |-> audit]
  /\ crashes < MaxCrashes /\ committed' # committed
  /\ UNCHANGED <<ram, audit, cranks, crashes>>

(* The process dies; the next one brings some vats on line (start). *)
Restart ==
  /\ crashes < MaxCrashes
  /\ LET none == [online |-> {}, heap |-> [v \in Vats |-> <<>>], recent |-> <<>>, failed |-> FALSE]
         order == InOrder(committed.db.alive)
         preload == SubSeq(order, 1, FewerOf(MaxPreload, order))
         s == PreloadEach([db |-> committed.db, ram |-> none], preload)
     IN db' = s.db /\ ram' = s.ram
  /\ exports' = committed.exports
  /\ audit' = committed.audit
  /\ crashes' = crashes + 1
  /\ UNCHANGED <<committed, cranks>>

Next ==
  \/ \E v \in Vats : Deliver(v) \/ DeliverGC(v) \/ CreateVat(v) \/ UpgradeVat(v) \/ Terminate(v)
  \/ Reap \/ CleanupTerminatedVat
  \/ \E m \in Meters : AddMeterRemaining(m)
  \/ ReapAllVats \/ SnapshotAllVats
  \/ Commit \/ Restart

(* run() takes crank after crank while there is something to do, cleanup  *)
(* first and then reaping: weak fairness of both, with ENABLED written out *)
(* (each always changes the database). *)
CleanupIsNext == Running /\ db.terminated # <<>>
ReapIsNext == Running /\ db.terminated = <<>> /\ db.reapQueue # <<>>
Fairness ==
  /\ []<>~CleanupIsNext \/ []<><<CleanupTerminatedVat>>_vars
  /\ []<>~ReapIsNext \/ []<><<Reap>>_vars

Spec == Init /\ [][Next]_vars
FairSpec == Spec /\ Fairness
=============================================================================

----------------------- MODULE VatWarehouseProperties -----------------------
(***************************************************************************)
(* What must hold of workers, transcripts, snapshots, meters and dirt.     *)
(***************************************************************************)
EXTENDS VatWarehouse

(* A worker that is on line is the one that a replay would make: whatever  *)
(* was rolled back, evicted, snapshotted or upgraded, its heap is that of  *)
(* the snapshot in use followed by the deliveries of the current span.  A  *)
(* worker left over from an aborted crank would break consensus. *)
WorkerIsItsTranscript ==
  \A v \in ram.online : v \in db.alive /\ ram.heap[v] = Rebuilt(db.store, v)

(* None of the modelled assertions throws: evict finds the vat, a vat that *)
(* is brought on line is alive, its span starts with init or load, and a   *)
(* vat that gets a snapshot is alive. *)
KernelNeverFails == ~ram.failed

(* The export data that the host has been given describes the database:    *)
(* what was noted by a crank that was rolled back is gone, what a new      *)
(* incarnation, a snapshot, a termination or a slow deletion supersedes is *)
(* gone too, so that a node restored from it verifies. *)
ExportsDescribeStore ==
  FlushedExports(exports, db.store) = ExportRecords(db.store)

(* Meters are spent exactly.  What is gone from a meter is what user code  *)
(* consumed, also in cranks that were rolled back, until the meter was     *)
(* empty, and the bringOutYourDead of upgrades: "we don't meter            *)
(* bringOutYourDead since no user code is running" is the comment          *)
(* (processUpgradeVat), but its computrons are in the sum that deductMeter *)
(* takes.  And the work that was kept was paid in full, with any number of *)
(* vats on the meter: a delivery that overruns it is undone. *)
MetersAreHonest ==
  \A m \in Meters :
    /\ audit.funded[m] - db.meter[m] = audit.used[m] + audit.boyd[m]
    /\ audit.kept[m] <= audit.used[m]

(* No crank changes what a vat has experienced: an incarnation's logical   *)
(* heap only grows, until an upgrade begins another one, a crash goes back *)
(* to the last commit, or the vat dies. *)
ExperienceOnlyGrows ==
  [][\A v \in db.alive \cap db'.alive :
       crashes' = crashes /\ CurrentSpan(db'.store, v).incarnation = CurrentSpan(db.store, v).incarnation
         => IsPrefix(Rebuilt(db.store, v), Rebuilt(db'.store, v))]_vars

(* A dirty vat is reaped, or it dies. *)
DirtyVatIsReaped ==
  \A v \in Vats :
    (v \in db.alive /\ db.dirt[v] >= ReapThreshold)
      ~> (v \notin db.alive \/ db.dirt[v] < ReapThreshold)
=============================================================================

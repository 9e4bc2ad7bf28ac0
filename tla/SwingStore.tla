----------------------------- MODULE SwingStore -----------------------------
(***************************************************************************)
(* The part of the swing-store that describes vats: transcript spans       *)
(* (transcriptStore.js), heap snapshots (snapStore.js) and the export data *)
(* that lets another node verify them (noteExport, exporter.js), as        *)
(* operators from one content of the database to the next.                 *)
(*                                                                         *)
(* A hash is modelled by what it hashes: a span record carries its items,  *)
(* a snapshot record the heap.  Positions of the transcript are numbers.   *)
(* The value of an export record is a set, empty for a deletion.           *)
(***************************************************************************)
EXTENDS Naturals, Sequences, FiniteSets, SequencesExt

NoStore(Vat) ==
  [spans |-> [v \in Vat |-> <<>>], snaps |-> [v \in Vat |-> <<>>], pending |-> <<>>]

NoteExports(st, keys, value) ==
  [st EXCEPT !.pending = [k \in DOMAIN st.pending \cup keys |->
                            IF k \in keys THEN value ELSE st.pending[k]]]
NoteExport(st, key, value) == NoteExports(st, {key}, value)

-----------------------------------------------------------------------------
(* Transcript spans *)

Key(table, v, pos) == [table |-> table, vat |-> v, pos |-> pos]
SpanKey(v, span) ==
  Key("transcript", v, IF span.current THEN {} ELSE {span.start})

EmptySpan(pos, incarnation) ==
  [start |-> pos, end |-> pos, items |-> <<>>, incarnation |-> incarnation,
   current |-> TRUE]

WriteSpan(st, v, span) ==
  NoteExport([st EXCEPT !.spans[v] = Append(@, span)], SpanKey(v, span), {span})
InitTranscript(st, v) == WriteSpan(st, v, EmptySpan(0, 0))

CurrentSpan(st, v) == Last(st.spans[v])
TranscriptSize(st, v) == CurrentSpan(st, v).end - CurrentSpan(st, v).start
UpdateCurrentSpan(st, v, span) ==
  NoteExport([st EXCEPT !.spans[v][Len(st.spans[v])] = span], SpanKey(v, span), {span})

AddItem(st, v, item) ==
  UpdateCurrentSpan(st, v, [CurrentSpan(st, v) EXCEPT !.end = @ + 1, !.items = Append(@, item)])

CloseSpan(st, v) ==
  UpdateCurrentSpan(st, v, [CurrentSpan(st, v) EXCEPT !.current = FALSE])

(* rolloverSpan and rolloverIncarnation. *)
DoSpanRollover(st, v, isNewIncarnation) ==
  LET old == CurrentSpan(st, v)
      incarnation == IF isNewIncarnation THEN old.incarnation + 1 ELSE old.incarnation
  IN WriteSpan(CloseSpan(st, v), v, EmptySpan(old.end, incarnation))

\* Mutant: the record of the current span stays among the exports.
StopUsingTranscriptQuietly(st, v) ==
  IF st.spans[v] = <<>> \/ ~CurrentSpan(st, v).current THEN st ELSE CloseSpan(st, v)

(* Idempotent: the vat may have no current span. *)
StopUsingTranscript(st, v) ==
  IF st.spans[v] = <<>> \/ ~CurrentSpan(st, v).current THEN st
  ELSE NoteExport(CloseSpan(st, v), Key("transcript", v, {}), {})

(* Newest first, at most budget of them. *)
FewerOf(budget, s) == IF budget < Len(s) THEN budget ELSE Len(s)
Kept(budget, s) == SubSeq(s, 1, Len(s) - FewerOf(budget, s))
Dropped(budget, s) == SubSeq(s, Len(s) - FewerOf(budget, s) + 1, Len(s))

DeleteVatTranscripts(st, v, budget) ==
  NoteExports([st EXCEPT !.spans[v] = Kept(budget, @)],
              {SpanKey(v, span) : span \in ToSet(Dropped(budget, st.spans[v]))}, {})

-----------------------------------------------------------------------------
(* Heap snapshots *)

SnapshotInUse(st, v) == {i \in DOMAIN st.snaps[v] : st.snaps[v][i].inUse}

StopUsingLastSnapshot(st, v) ==
  IF SnapshotInUse(st, v) = {} THEN st
  ELSE LET i == CHOOSE i \in SnapshotInUse(st, v) : TRUE
           snap == [st.snaps[v][i] EXCEPT !.inUse = FALSE]
           noted == NoteExport(st, Key("snapshot", v, {snap.pos}), {snap})
       IN NoteExport([noted EXCEPT !.snaps[v][i] = snap], Key("snapshot", v, {}), {})

SaveSnapshot(st, v, pos, heap) ==
  LET snap == [pos |-> pos, inUse |-> TRUE, heap |-> heap]
      stopped == StopUsingLastSnapshot(st, v)
      saved == [stopped EXCEPT !.snaps[v] = Append(@, snap)]
  IN NoteExport(NoteExport(saved, Key("snapshot", v, {pos}), {snap}),
                Key("snapshot", v, {}), {[pos |-> pos]})

DeleteVatSnapshots(st, v, budget) ==
  LET gone == ToSet(Dropped(budget, st.snaps[v]))
      noted == NoteExports([st EXCEPT !.snaps[v] = Kept(budget, @)],
                           {Key("snapshot", v, {snap.pos}) : snap \in gone}, {})
  IN IF \E snap \in gone : snap.inUse
     THEN NoteExport(noted, Key("snapshot", v, {}), {}) ELSE noted

-----------------------------------------------------------------------------
(* Export data *)

(* flushPendingExports: the host's copy follows the noted changes, when a  *)
(* crank ends and when the store commits. *)
FlushedExports(exports, st) ==
  LET Value(k) == IF k \in DOMAIN st.pending THEN st.pending[k] ELSE exports[k]
  IN [k \in {k \in DOMAIN st.pending \cup DOMAIN exports : Value(k) # {}} |-> Value(k)]

(* getExportRecords: what an exporter finds in the database itself. *)
ExportRecords(st) ==
  LET spanKeys == UNION {{SpanKey(v, st.spans[v][i]) : i \in DOMAIN st.spans[v]} :
                         v \in DOMAIN st.spans}
      snapKeys == UNION {{Key("snapshot", v, {st.snaps[v][i].pos}) : i \in DOMAIN st.snaps[v]} :
                         v \in DOMAIN st.snaps}
      inUseKeys == {Key("snapshot", v, {}) : v \in {v \in DOMAIN st.snaps : SnapshotInUse(st, v) # {}}}
  IN [k \in spanKeys \cup snapKeys \cup inUseKeys |->
        IF k \in inUseKeys
        THEN {[pos |-> st.snaps[k.vat][i].pos] : i \in SnapshotInUse(st, k.vat)}
        ELSE IF k.table = "snapshot"
        THEN {s \in ToSet(st.snaps[k.vat]) : {s.pos} = k.pos}
        ELSE {s \in ToSet(st.spans[k.vat]) : SpanKey(k.vat, s) = k}]
=============================================================================

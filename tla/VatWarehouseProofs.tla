------------------------- MODULE VatWarehouseProofs -------------------------
(***************************************************************************)
(* Proofs about workers, transcripts, snapshots, export data and meters,   *)
(* for any set of vats and of meters, any size of the cache and any of the *)
(* intervals and budgets.                                                  *)
(***************************************************************************)
EXTENDS VatWarehouseProperties, FiniteSetTheorems, SequenceTheorems,
  WellFoundedInduction, TLAPS

-----------------------------------------------------------------------------
(* Sets of numbers are well ordered. *)

LEMMA SmallestMember ==
  ASSUME NEW T \in SUBSET Nat, T # {}
  PROVE  \E m \in T : \A n \in T : m <= n
<1> DEFINE R == StrictSubsetOrdering(Nat)
           S == FiniteSubsetsOf(Nat)
           U == {1..n : n \in T}
<1>1. IsWellFoundedOn(R, S)
  BY FS_StrictSubsetOrderingWellFounded
<1>2. U \subseteq S /\ U # {}
  <2>1. ASSUME NEW n \in T
        PROVE  1..n \in S
    <3>1. IsFiniteSet(1..n)
      BY FS_Interval
    <3>2. 1..n \in SUBSET Nat
      OBVIOUS
    <3> QED
      BY <3>1, <3>2 DEF FiniteSubsetsOf
  <2> HIDE DEF S
  <2> QED
    BY <2>1
<1>3. PICK x \in U : \A y \in U : <<y, x>> \notin R
  <2> HIDE DEF R, S, U
  <2> QED
    BY <1>1, <1>2, WFMin
<1>4. PICK m \in T : x = 1..m
  OBVIOUS
<1>5. ASSUME NEW n \in T, n < m
      PROVE  FALSE
  <2>1. 1..n \in U /\ 1..n \subseteq 1..m /\ m \in 1..m /\ m \notin 1..n
    BY <1>5
  <2>2. 1..n \in SUBSET Nat /\ 1..m \in SUBSET Nat
    OBVIOUS
  <2>3. <<1..n, 1..m>> \in R
    BY <2>1, <2>2 DEF StrictSubsetOrdering
  <2> QED
    BY <1>3, <1>4, <2>1, <2>3
<1> QED
  BY <1>5

(* What a recursive function over a sequence computes, step by step. *)

Runs(f, n, base, step, seq) ==
  f[0] = base /\ \A i \in 1..n : f[i] = step[<<f[i - 1], seq[i]>>]

Steps(S, T, step, base, seq, n) ==
  /\ step \in [S \X T -> S] /\ base \in S
  /\ n \in Nat /\ \A i \in 1..n : seq[i] \in T
RunsWithin(S, n, base, step, seq) == \E f \in [0..n -> S] : Runs(f, n, base, step, seq)

LEMMA RunExists ==
  ASSUME NEW S, NEW T, NEW step, NEW base, NEW seq, NEW n, Steps(S, T, step, base, seq, n)
  PROVE  RunsWithin(S, n, base, step, seq)
<1> USE DEF Steps, RunsWithin
<1> DEFINE Upto(m) == \E f \in [0..m -> S] : Runs(f, m, base, step, seq)
           Bad == {m \in 0..n : ~Upto(m)}
<1>1. Bad \in SUBSET Nat
  OBVIOUS
<1>2. SUFFICES ASSUME Bad # {}
               PROVE  FALSE
  <2>1. n \in 0..n
    OBVIOUS
  <2> QED
    BY <1>2, <2>1
<1>3. PICK m \in Bad : \A k \in Bad : m <= k
  <2> HIDE DEF Bad
  <2> QED
    BY <1>1, <1>2, SmallestMember
<1>4. m \in 0..n /\ ~Upto(m)
  OBVIOUS
<1>5. m # 0
  <2>1. SUFFICES ASSUME m = 0
                 PROVE  Upto(m)
    BY <1>4
  <2> DEFINE f == [i \in 0..0 |-> base]
  <2>2. f \in [0..0 -> S] /\ f[0] = base
    OBVIOUS
  <2> HIDE DEF f
  <2> QED
    BY <2>1, <2>2 DEF Runs
<1>6. m - 1 \in 0..n
  BY <1>4, <1>5
<1>7. Upto(m - 1)
  <2>1. m - 1 \notin Bad
    BY <1>3, <1>4, <1>6
  <2> QED
    BY <1>6, <2>1
<1>8. PICK f \in [0..m - 1 -> S] : Runs(f, m - 1, base, step, seq)
  BY <1>7
<1> HIDE DEF Bad
<1> DEFINE next == step[<<f[m - 1], seq[m]>>]
           g == [i \in 0..m |-> IF i = m THEN next ELSE f[i]]
<1>9. next \in S
  BY <1>4, <1>5
<1>10. \A i \in 0..m - 1 : g[i] = f[i] /\ f[i] \in S
  BY <1>4
<1>11. g[m] = next /\ g \in [0..m -> S]
  BY <1>4, <1>9, <1>10
<1>12. Runs(g, m, base, step, seq)
  <2> HIDE DEF g
  <2>1. g[0] = base
    BY <1>4, <1>5, <1>8, <1>10 DEF Runs
  <2>2. ASSUME NEW i \in 1..m
        PROVE  g[i] = step[<<g[i - 1], seq[i]>>]
    <3>1. CASE i = m
      <4>1. m - 1 \in 0..m - 1 /\ g[m - 1] = f[m - 1]
        BY <1>4, <1>5, <1>10
      <4> QED
        BY <1>11, <3>1, <4>1
    <3>2. CASE i # m
      <4>1. i \in 1..m - 1 /\ i \in 0..m - 1 /\ i - 1 \in 0..m - 1
        BY <1>4, <3>2
      <4> QED
        BY <1>8, <1>10, <4>1 DEF Runs
    <3> QED
      BY <3>1, <3>2
  <2> QED
    BY <2>1, <2>2 DEF Runs
<1> QED
  <2> HIDE DEF g
  <2> QED
    BY <1>4, <1>11, <1>12

LEMMA RunKeeps ==
  ASSUME NEW S, NEW T, NEW step, NEW base, NEW seq, NEW n, Steps(S, T, step, base, seq, n),
         NEW f, Runs(f, n, base, step, seq)
  PROVE  \A i \in 0..n : f[i] \in S
<1> USE DEF Steps
<1> DEFINE Bad == {m \in 0..n : f[m] \notin S}
<1>1. Bad \in SUBSET Nat
  OBVIOUS
<1>2. SUFFICES ASSUME Bad # {}
               PROVE  FALSE
  BY <1>2
<1>3. PICK m \in Bad : \A k \in Bad : m <= k
  <2> HIDE DEF Bad
  <2> QED
    BY <1>1, <1>2, SmallestMember
<1>4. m \in 0..n /\ f[m] \notin S
  OBVIOUS
<1>5. m # 0
  BY <1>4 DEF Runs
<1>6. m - 1 \in 0..n /\ m - 1 \notin Bad
  BY <1>3, <1>4, <1>5
<1>7. f[m - 1] \in S /\ m \in 1..n
  BY <1>4, <1>5, <1>6
<1> QED
  BY <1>4, <1>7 DEF Runs

LEMMA RunIsUnique ==
  ASSUME NEW n \in Nat, NEW base, NEW step, NEW seq, NEW other,
         \A i \in 1..n : seq[i] = other[i],
         NEW f, Runs(f, n, base, step, seq), NEW g, Runs(g, n, base, step, other)
  PROVE  f[n] = g[n]
<1> DEFINE Bad == {m \in 0..n : f[m] # g[m]}
<1>1. Bad \in SUBSET Nat
  OBVIOUS
<1>2. SUFFICES ASSUME Bad # {}
               PROVE  FALSE
  <2>1. n \in 0..n
    OBVIOUS
  <2> QED
    BY <1>2, <2>1
<1>3. PICK m \in Bad : \A k \in Bad : m <= k
  <2> HIDE DEF Bad
  <2> QED
    BY <1>1, <1>2, SmallestMember
<1>4. m \in 0..n /\ f[m] # g[m]
  OBVIOUS
<1>5. m # 0
  BY <1>4 DEF Runs
<1>6. m - 1 \in 0..n /\ m - 1 \notin Bad
  BY <1>3, <1>4, <1>5
<1>7. f[m - 1] = g[m - 1] /\ m \in 1..n
  BY <1>4, <1>5, <1>6
<1> QED
  BY <1>4, <1>7 DEF Runs

-----------------------------------------------------------------------------
(* The deliveries among the items of a span. *)

Kinds == {"init", "load", "save", "shutdown", "start", "boyd", "msg"}
Item == Kinds \X Nat
NextDelivery == [p \in Seq(Item) \X Item |-> IF Real(p[2]) THEN Append(p[1], p[2]) ELSE p[1]]

LEMMA DeliveriesRun ==
  ASSUME NEW items \in Seq(Item)
  PROVE  \E f : /\ Runs(f, Len(items), <<>>, NextDelivery, items)
                /\ Deliveries(items) = f[Len(items)]
                /\ \A i \in 0..Len(items) : f[i] \in Seq(Item)
<1> DEFINE n == Len(items)
<1>1. n \in Nat /\ (\A i \in 1..n : items[i] \in Item) /\ <<>> \in Seq(Item)
  OBVIOUS
<1>2. NextDelivery \in [Seq(Item) \X Item -> Seq(Item)]
  BY DEF NextDelivery
<1>3. PICK g \in [0..n -> Seq(Item)] : Runs(g, n, <<>>, NextDelivery, items)
  <2>1. Steps(Seq(Item), Item, NextDelivery, <<>>, items, n)
    BY <1>1, <1>2 DEF Steps
  <2> HIDE DEF n
  <2>2. RunsWithin(Seq(Item), n, <<>>, NextDelivery, items)
    BY <2>1, RunExists
  <2> QED
    BY <2>2 DEF RunsWithin
<1> DEFINE Body(f) == [k \in 0..Len(items) |->
                         IF k = 0 THEN <<>>
                         ELSE IF Real(items[k]) THEN Append(f[k - 1], items[k]) ELSE f[k - 1]]
           h == CHOOSE f : f = Body(f)
<1>4. Body(g) = g
  <2>1. ASSUME NEW k \in 0..n
        PROVE  Body(g)[k] = g[k]
    <3>1. CASE k = 0
      BY <1>3, <3>1 DEF Runs
    <3>2. CASE k # 0
      <4>1. k \in 1..n /\ g[k - 1] \in Seq(Item) /\ items[k] \in Item
        BY <1>1, <3>2
      <4>2. g[k] = NextDelivery[<<g[k - 1], items[k]>>]
        BY <1>3, <4>1 DEF Runs
      <4> QED
        BY <3>2, <4>1, <4>2 DEF NextDelivery
    <3> QED
      BY <3>1, <3>2
  <2> QED
    BY <2>1
<1>5. h = Body(h)
  <2> HIDE DEF Body
  <2> QED
    BY <1>4
<1>6. Deliveries(items) = h[n]
  BY DEF Deliveries
<1> HIDE DEF h
<1>7. \A k \in 0..n : h[k] = IF k = 0 THEN <<>>
                             ELSE IF Real(items[k]) THEN Append(h[k - 1], items[k]) ELSE h[k - 1]
  BY <1>5
<1> HIDE DEF n, Body
<1>8. \A i \in 0..n : h[i] \in Seq(Item)
  <2> DEFINE Bad == {m \in 0..n : h[m] \notin Seq(Item)}
  <2>1. Bad \in SUBSET Nat
    OBVIOUS
  <2>2. SUFFICES ASSUME Bad # {}
                 PROVE  FALSE
    BY <2>2
  <2>3. PICK m \in Bad : \A k \in Bad : m <= k
    <3> HIDE DEF Bad
    <3> QED
      BY <2>1, <2>2, SmallestMember
  <2>4. m \in 0..n /\ h[m] \notin Seq(Item)
    OBVIOUS
  <2>5. m # 0
    BY <1>1, <1>7, <2>4
  <2>6. m - 1 \in 0..n /\ m - 1 \notin Bad /\ m \in 1..n
    BY <1>1, <2>3, <2>4, <2>5
  <2>7. h[m - 1] \in Seq(Item) /\ items[m] \in Item
    BY <1>1, <2>6
  <2>8. h[m] = IF Real(items[m]) THEN Append(h[m - 1], items[m]) ELSE h[m - 1]
    BY <1>7, <2>4, <2>5
  <2> QED
    BY <2>4, <2>7, <2>8
<1>9. Runs(h, n, <<>>, NextDelivery, items)
  <2>1. h[0] = <<>>
    BY <1>1, <1>7
  <2>2. ASSUME NEW i \in 1..n
        PROVE  h[i] = NextDelivery[<<h[i - 1], items[i]>>]
    <3>1. i \in 0..n /\ i - 1 \in 0..n /\ items[i] \in Item
      BY <1>1
    <3>2. h[i - 1] \in Seq(Item)
      BY <1>8, <3>1
    <3>3. h[i] = IF Real(items[i]) THEN Append(h[i - 1], items[i]) ELSE h[i - 1]
      BY <1>1, <1>7, <3>1
    <3> QED
      BY <3>1, <3>2, <3>3 DEF NextDelivery
  <2> QED
    BY <2>1, <2>2 DEF Runs
<1> QED
  BY <1>6, <1>8, <1>9 DEF n

LEMMA DeliveriesType ==
  ASSUME NEW items \in Seq(Item)
  PROVE  Deliveries(items) \in Seq(Item)
<1>1. Len(items) \in 0..Len(items)
  OBVIOUS
<1> QED
  BY <1>1, DeliveriesRun

LEMMA NoDeliveries == Deliveries(<<>>) = <<>>
<1>1. <<>> \in Seq(Item) /\ Len(<<>>) = 0
  OBVIOUS
<1> QED
  BY <1>1, DeliveriesRun DEF Runs

LEMMA DeliveriesAppend ==
  ASSUME NEW items \in Seq(Item), NEW item \in Item
  PROVE  Deliveries(Append(items, item)) =
           IF Real(item) THEN Append(Deliveries(items), item) ELSE Deliveries(items)
<1> DEFINE more == Append(items, item)
           n == Len(items)
<1>1. /\ more \in Seq(Item) /\ Len(more) = n + 1 /\ n \in Nat
      /\ (\A i \in 1..n : items[i] = more[i]) /\ more[n + 1] = item
  OBVIOUS
<1> HIDE DEF more
<1>2. PICK f : /\ Runs(f, n, <<>>, NextDelivery, items)
               /\ Deliveries(items) = f[n]
               /\ \A i \in 0..n : f[i] \in Seq(Item)
  BY DeliveriesRun
<1>3. PICK g : /\ Runs(g, n + 1, <<>>, NextDelivery, more)
               /\ Deliveries(more) = g[n + 1]
               /\ \A i \in 0..n + 1 : g[i] \in Seq(Item)
  BY <1>1, DeliveriesRun
<1> HIDE DEF n
<1>4. Runs(g, n, <<>>, NextDelivery, more)
  BY <1>1, <1>3 DEF Runs
<1>5. f[n] = g[n]
  BY <1>1, <1>2, <1>4, RunIsUnique
<1>6. g[n + 1] = NextDelivery[<<g[n], more[n + 1]>>]
  <2>1. n + 1 \in 1..n + 1 /\ (n + 1) - 1 = n
    BY <1>1
  <2> QED
    BY <1>3, <2>1 DEF Runs
<1>7. g[n] \in Seq(Item)
  BY <1>1, <1>3
<1> QED
  BY <1>1, <1>2, <1>3, <1>5, <1>6, <1>7 DEF NextDelivery, more

-----------------------------------------------------------------------------
(* What the database says of a vat: its spans and its snapshots. *)

Span == [start : Nat, end : Nat, items : Seq(Item), incarnation : Nat, current : BOOLEAN]
Snap == [pos : Nat, inUse : BOOLEAN, heap : Seq(Item)]
Keys == [table : {"transcript", "snapshot"}, vat : Vats, pos : SUBSET Nat]
Value == (Span \cup Snap) \cup [pos : Nat]
Changes == UNION {[ks -> SUBSET Value] : ks \in SUBSET Keys}
Stores == [spans : [Vats -> Seq(Span)], snaps : [Vats -> Seq(Snap)], pending : Changes]

(* The value of a key as the host will have it, and as the database has it. *)
Noted(x, changes, k) ==
  IF k \in DOMAIN changes THEN changes[k] ELSE IF k \in DOMAIN x THEN x[k] ELSE {}

Recorded(p, q, k) ==
  IF k.table = "transcript" THEN {span \in ToSet(p) : SpanKey(k.vat, span) = k}
  ELSE IF k.pos = {} THEN {[pos |-> q[i].pos] : i \in {i \in DOMAIN q : q[i].inUse}}
  ELSE {snap \in ToSet(q) : {snap.pos} = k.pos}

DescribedAt(x, st, k) ==
  Noted(x, st.pending, k) = Recorded(st.spans[k.vat], st.snaps[k.vat], k)
Described(x, st) == \A k \in Keys : DescribedAt(x, st, k)

(* Spans follow each other, and only the last one may be current; only the *)
(* last snapshot may be in use.                                            *)
Orderly(p, q) ==
  /\ \A i \in 1..Len(p) : p[i].end = p[i].start + Len(p[i].items)
  /\ \A i, j \in 1..Len(p) : i < j => p[i].start < p[j].start /\ ~p[i].current
  /\ \A i, j \in 1..Len(q) : i < j => q[i].pos < q[j].pos /\ ~q[i].inUse
Open(p, q) == Orderly(p, q) /\ p # <<>> /\ p[Len(p)].current
Closed(p, q) ==
  /\ Orderly(p, q)
  /\ \A i \in 1..Len(p) : ~p[i].current
  /\ \A i \in 1..Len(q) : ~q[i].inUse

(* Snapshots are taken before the current span; it starts with how its     *)
(* worker began.                                                           *)
Below(q, pos) == \A i \in 1..Len(q) : q[i].pos < pos
Started(items) == items # <<>> /\ items[1][1] \in {"init", "load"}
Living(p, q) ==
  /\ Open(p, q)
  /\ Below(q, p[Len(p)].start)
  /\ p[Len(p)].items = <<>> \/ Started(p[Len(p)].items)

Notes(st, t, ks, value) ==
  /\ t \in Stores /\ t.spans = st.spans /\ t.snaps = st.snaps
  /\ \A x : \A k \in Keys :
       Noted(x, t.pending, k) = IF k \in ks THEN value ELSE Noted(x, st.pending, k)

LEMMA NoteExportsNotes ==
  ASSUME NEW st \in Stores, NEW ks \in SUBSET Keys, NEW value \in SUBSET Value
  PROVE  Notes(st, NoteExports(st, ks, value), ks, value)
<1> DEFINE old == st.pending
           new == [k \in DOMAIN old \cup ks |-> IF k \in ks THEN value ELSE old[k]]
<1>1. old \in Changes
  BY DEF Stores
<1>2. PICK dom \in SUBSET Keys : old \in [dom -> SUBSET Value]
  BY <1>1 DEF Changes
<1>3. new \in [dom \cup ks -> SUBSET Value] /\ dom \cup ks \in SUBSET Keys /\ DOMAIN old = dom
  BY <1>2
<1>4. new \in Changes
  <2> HIDE DEF new
  <2> QED
    BY <1>3 DEF Changes
<1>5. NoteExports(st, ks, value) = [st EXCEPT !.pending = new]
  BY DEF NoteExports
<1>6. \A x : \A k \in Keys : Noted(x, new, k) = IF k \in ks THEN value ELSE Noted(x, old, k)
  BY <1>3 DEF Noted
<1> HIDE DEF new
<1> QED
  BY <1>4, <1>5, <1>6 DEF Stores, Notes

LEMMA KeyTypes ==
  ASSUME NEW v \in Vats
  PROVE  /\ \A span \in Span : SpanKey(v, span) \in Keys
         /\ Key("transcript", v, {}) \in Keys
         /\ Key("snapshot", v, {}) \in Keys
         /\ \A pos \in Nat : Key("snapshot", v, {pos}) \in Keys
BY DEF SpanKey, Key, Keys, Span

(* The keys under which the spans of a vat are recorded. *)
SpansAt(p, n, pos) == {p[i] : i \in {i \in 1..n : {p[i].start} = pos}}

LEMMA RecordedSpans ==
  ASSUME NEW p \in Seq(Span), NEW q, NEW k \in Keys, k.table = "transcript"
  PROVE  /\ Open(p, q) => Recorded(p, q, k) =
              IF k.pos = {} THEN {p[Len(p)]} ELSE SpansAt(p, Len(p) - 1, k.pos)
         /\ (\A i \in 1..Len(p) : ~p[i].current) =>
              Recorded(p, q, k) = SpansAt(p, Len(p), k.pos)
<1> DEFINE n == Len(p)
<1>1. /\ n \in Nat /\ (\A i \in 1..n : p[i] \in Span) /\ ToSet(p) = {p[i] : i \in 1..n}
      /\ (p # <<>> => n \in 1..n)
  BY DEF ToSet
<1> HIDE DEF n
<1>2. Recorded(p, q, k) = {span \in ToSet(p) : SpanKey(k.vat, span) = k}
  BY DEF Recorded
<1>3. ASSUME NEW span
      PROVE  SpanKey(k.vat, span) = k <=> k.pos = IF span.current THEN {} ELSE {span.start}
  BY DEF Keys, SpanKey, Key
<1>4. ASSUME Open(p, q)
      PROVE  Recorded(p, q, k) = IF k.pos = {} THEN {p[n]} ELSE SpansAt(p, n - 1, k.pos)
  <2>1. /\ n \in 1..n /\ p[n].current
        /\ \A i \in 1..n - 1 : i \in 1..n /\ ~p[i].current
    BY <1>1, <1>4 DEF Open, Orderly, n
  <2>2. \A i \in 1..n : i = n \/ i \in 1..n - 1
    BY <1>1
  <2>3. CASE k.pos = {}
    <3>1. \A i \in 1..n : SpanKey(k.vat, p[i]) = k <=> i = n
      BY <1>1, <1>3, <2>1, <2>2, <2>3
    <3> QED
      BY <1>1, <1>2, <2>1, <2>3, <3>1
  <2>4. CASE k.pos # {}
    <3>1. \A i \in 1..n : SpanKey(k.vat, p[i]) = k <=> i \in 1..n - 1 /\ {p[i].start} = k.pos
      BY <1>1, <1>3, <2>1, <2>2, <2>4
    <3> QED
      BY <1>1, <1>2, <2>1, <2>4, <3>1 DEF SpansAt
  <2> QED
    BY <2>3, <2>4
<1>5. ASSUME \A i \in 1..n : ~p[i].current
      PROVE  Recorded(p, q, k) = SpansAt(p, n, k.pos)
  <2>1. \A i \in 1..n : SpanKey(k.vat, p[i]) = k <=> {p[i].start} = k.pos
    BY <1>3, <1>5
  <2>2. SpansAt(p, n, k.pos) = {p[i] : i \in {i \in 1..n : {p[i].start} = k.pos}}
    BY DEF SpansAt
  <2> QED
    BY <1>1, <1>2, <2>1, <2>2
<1> QED
  BY <1>4, <1>5 DEF n

(* The current span is rewritten in the database and under its key. *)
WithLast(p, span) == [p EXCEPT ![Len(p)] = span]

LEMMA WithLastIs ==
  ASSUME NEW p \in Seq(Span), p # <<>>, NEW span \in Span
  PROVE  /\ WithLast(p, span) \in Seq(Span) /\ Len(WithLast(p, span)) = Len(p)
         /\ WithLast(p, span) # <<>> /\ WithLast(p, span)[Len(p)] = span
         /\ \A i \in 1..Len(p) - 1 : WithLast(p, span)[i] = p[i]
<1>1. Len(p) \in 1..Len(p)
  OBVIOUS
<1>2. /\ WithLast(p, span) \in Seq(Span) /\ Len(WithLast(p, span)) = Len(p)
      /\ \A j \in 1..Len(p) : WithLast(p, span)[j] = IF j = Len(p) THEN span ELSE p[j]
  BY <1>1, ExceptSeq DEF WithLast
<1> QED
  BY <1>1, <1>2

LEMMA LastSpan ==
  ASSUME NEW st \in Stores, NEW v \in Vats, st.spans[v] # <<>>
  PROVE  /\ CurrentSpan(st, v) = st.spans[v][Len(st.spans[v])]
         /\ CurrentSpan(st, v) \in Span /\ st.spans[v] \in Seq(Span)
         /\ Len(st.spans[v]) \in 1..Len(st.spans[v])
BY DEF CurrentSpan, Last, Stores

Updates(st, t, v, span) ==
  /\ t \in Stores /\ t.snaps = st.snaps
  /\ t.spans = [st.spans EXCEPT ![v] = WithLast(@, span)]
  /\ \A x : \A k \in Keys :
       Noted(x, t.pending, k) = IF k = SpanKey(v, span) THEN {span} ELSE Noted(x, st.pending, k)

LEMMA UpdateIs ==
  ASSUME NEW st \in Stores, NEW v \in Vats, st.spans[v] # <<>>, NEW span \in Span
  PROVE  Updates(st, UpdateCurrentSpan(st, v, span), v, span)
<1> DEFINE p == st.spans[v]
           spans == [st.spans EXCEPT ![v] = WithLast(p, span)]
           mid == [st EXCEPT !.spans = spans]
<1>1. p \in Seq(Span) /\ WithLast(p, span) \in Seq(Span)
  BY LastSpan, WithLastIs
<1>2. spans \in [Vats -> Seq(Span)]
  <2>1. st.spans \in [Vats -> Seq(Span)]
    BY DEF Stores
  <2> QED
    BY <1>1, <2>1
<1>3. [st EXCEPT !.spans[v][Len(st.spans[v])] = span] = mid
  BY DEF Stores, WithLast
<1> HIDE DEF spans
<1>4. mid \in Stores /\ mid.snaps = st.snaps /\ mid.spans = spans /\ mid.pending = st.pending
  BY <1>2 DEF Stores
<1> DEFINE t == UpdateCurrentSpan(st, v, span)
           ks == {SpanKey(v, span)}
           value == {span}
<1>5. t = NoteExports(mid, ks, value)
  BY <1>3 DEF UpdateCurrentSpan, NoteExport
<1>6. ks \in SUBSET Keys /\ value \in SUBSET Value
  BY KeyTypes DEF Value
<1> HIDE DEF mid, t, ks, value
<1>7. Notes(mid, t, ks, value)
  BY <1>4, <1>5, <1>6, NoteExportsNotes
<1>8. \A x : \A k \in Keys : Noted(x, t.pending, k) =
           IF k = SpanKey(v, span) THEN {span} ELSE Noted(x, st.pending, k)
  BY <1>4, <1>7 DEF ks, value, Notes
<1> QED
  BY <1>4, <1>7, <1>8 DEF spans, t, Notes, Updates

(* A store in which only the rows of one vat have changed describes itself *)
(* when the keys of that vat are right.                                    *)
ChangesOnly(x, st, t, v) ==
  /\ \A k \in Keys : k.vat # v => Noted(x, t.pending, k) = Noted(x, st.pending, k)
  /\ \A w \in Vats \ {v} : t.spans[w] = st.spans[w] /\ t.snaps[w] = st.snaps[w]

LEMMA DescribedStill ==
  ASSUME NEW x, NEW st, NEW t, NEW v \in Vats, Described(x, st), ChangesOnly(x, st, t, v),
         \A k \in Keys : k.vat = v => DescribedAt(x, t, k)
  PROVE  Described(x, t)
<1>1. ASSUME NEW k \in Keys, k.vat # v
      PROVE  DescribedAt(x, t, k)
  <2>1. k.vat \in Vats \ {v}
    BY <1>1 DEF Keys
  <2> QED
    BY <1>1, <2>1 DEF DescribedAt, Described, ChangesOnly
<1> QED
  BY <1>1 DEF Described

(* What an operation makes of the rows of one vat. *)
Rewrites(x, st, t, v, p, q) ==
  /\ t \in Stores /\ Described(x, t)
  /\ t.spans = [st.spans EXCEPT ![v] = p]
  /\ t.snaps = [st.snaps EXCEPT ![v] = q]

LEMMA RowTypes ==
  ASSUME NEW st \in Stores, NEW v \in Vats
  PROVE  st.spans[v] \in Seq(Span) /\ st.snaps[v] \in Seq(Snap)
BY DEF Stores

LEMMA RewritesRows ==
  ASSUME NEW x, NEW st \in Stores, NEW t, NEW v \in Vats, NEW p, NEW q, Rewrites(x, st, t, v, p, q)
  PROVE  /\ t.spans[v] = p /\ t.snaps[v] = q
         /\ \A w \in Vats \ {v} : t.spans[w] = st.spans[w] /\ t.snaps[w] = st.snaps[w]
BY DEF Rewrites, Stores

MoreItem(span, item) == [span EXCEPT !.end = @ + 1, !.items = Append(@, item)]
WithItem(p, item) == WithLast(p, MoreItem(p[Len(p)], item))

LEMMA MoreItemIs ==
  ASSUME NEW span \in Span, NEW item \in Item
  PROVE  LET more == MoreItem(span, item)
         IN /\ more \in Span /\ more.start = span.start /\ more.end = span.end + 1
            /\ more.items = Append(span.items, item)
            /\ more.current = span.current /\ more.incarnation = span.incarnation
            /\ Len(more.items) = Len(span.items) + 1
<1> DEFINE items == Append(span.items, item)
           end == span.end + 1
<1>1. items \in Seq(Item) /\ Len(items) = Len(span.items) + 1
  BY DEF Span
<1>2. end \in Nat
  BY DEF Span
<1>3. MoreItem(span, item) = [span EXCEPT !.end = end, !.items = items]
  BY DEF MoreItem, Span
<1> HIDE DEF items, end
<1> QED
  BY <1>1, <1>2, <1>3 DEF Span, items, end

LEMMA WithItemIs ==
  ASSUME NEW p \in Seq(Span), NEW q, NEW item \in Item, Open(p, q)
  PROVE  LET more == WithItem(p, item)
         IN /\ more \in Seq(Span) /\ Len(more) = Len(p) /\ Open(more, q)
            /\ more[Len(p)] = MoreItem(p[Len(p)], item)
            /\ \A i \in 1..Len(p) - 1 : more[i] = p[i]
<1> DEFINE n == Len(p)
           last == p[n]
           span == MoreItem(last, item)
           more == WithItem(p, item)
<1>1. n \in Nat /\ n \in 1..n /\ last \in Span /\ \A i \in 1..n : p[i] \in Span
  BY DEF Open
<1>2. /\ span \in Span /\ span.start = last.start /\ span.end = last.end + 1
      /\ span.current = last.current /\ Len(span.items) = Len(last.items) + 1
  BY <1>1, MoreItemIs
<1>3. /\ more \in Seq(Span) /\ Len(more) = n /\ more[n] = span
      /\ \A i \in 1..n - 1 : more[i] = p[i]
  BY <1>2, WithLastIs DEF Open, WithItem
<1> HIDE DEF n, span, more
<1>4. \A i \in 1..n : i = n \/ i \in 1..n - 1
  BY <1>1
<1>5. Open(more, q)
  <2>1. \A i \in 1..n : more[i].start = p[i].start /\ more[i].current = p[i].current
    BY <1>2, <1>3, <1>4
  <2>2. \A i \in 1..n : more[i].end = more[i].start + Len(more[i].items)
    <3>1. \A i \in 1..n : p[i].end = p[i].start + Len(p[i].items)
      BY DEF Open, Orderly, n
    <3>2. \A i \in 1..n - 1 : more[i].end = more[i].start + Len(more[i].items)
      BY <1>3, <1>4, <3>1
    <3>3. last.start \in Nat /\ Len(last.items) \in Nat
      BY <1>1 DEF Span
    <3>4. more[n].end = more[n].start + Len(more[n].items)
      <4>1. last.end = last.start + Len(last.items)
        BY <1>1, <3>1
      <4> HIDE DEF last
      <4> QED
        BY <1>2, <1>3, <3>3, <4>1
    <3> QED
      BY <1>4, <3>2, <3>4
  <2>3. more # <<>>
    BY <1>1, <1>3
  <2> QED
    BY <1>1, <1>3, <2>1, <2>2, <2>3 DEF Open, Orderly, n
<1> QED
  BY <1>3, <1>5 DEF n, span, more

LEMMA AddItemWrites ==
  ASSUME NEW x, NEW st \in Stores, NEW v \in Vats, NEW item \in Item,
         Open(st.spans[v], st.snaps[v]), Described(x, st)
  PROVE  Rewrites(x, st, AddItem(st, v, item), v, WithItem(st.spans[v], item), st.snaps[v])
<1> DEFINE p == st.spans[v]
           q == st.snaps[v]
           last == p[Len(p)]
           span == MoreItem(last, item)
           t == AddItem(st, v, item)
           more == WithItem(p, item)
<1>1. p \in Seq(Span) /\ p # <<>> /\ last \in Span /\ last.current /\ CurrentSpan(st, v) = last
  BY LastSpan DEF Open
<1>2. span \in Span /\ span.current /\ span.start = last.start
  BY <1>1, MoreItemIs
<1>3. t = UpdateCurrentSpan(st, v, span)
  BY <1>1 DEF AddItem, MoreItem
<1>4. /\ more \in Seq(Span) /\ Len(more) = Len(p) /\ Open(more, q)
      /\ more[Len(p)] = span
      /\ \A i \in 1..Len(p) - 1 : more[i] = p[i]
  BY <1>1, WithItemIs
<1> HIDE DEF t, span
<1>5. /\ t \in Stores /\ t.snaps = st.snaps
      /\ t.spans = [st.spans EXCEPT ![v] = more]
      /\ \A k \in Keys : Noted(x, t.pending, k) =
                 IF k = SpanKey(v, span) THEN {span} ELSE Noted(x, st.pending, k)
  <2>1. Updates(st, t, v, span)
    BY <1>1, <1>2, <1>3, UpdateIs
  <2>2. more = WithLast(p, span)
    BY DEF WithItem, span
  <2> QED
    BY <2>1, <2>2 DEF Updates
<1>6. /\ t.spans[v] = more /\ t.snaps[v] = q
      /\ \A w \in Vats \ {v} : t.spans[w] = st.spans[w] /\ t.snaps[w] = st.snaps[w]
      /\ t.snaps = [st.snaps EXCEPT ![v] = q]
  BY <1>5 DEF Stores
<1> HIDE DEF p, q, last, more
<1>7. ASSUME NEW k \in Keys, k.vat = v
      PROVE  DescribedAt(x, t, k)
  <2>1. Noted(x, st.pending, k) = Recorded(p, q, k)
    BY <1>7 DEF Described, DescribedAt, p, q
  <2>2. SpanKey(v, span) = k <=> k.table = "transcript" /\ k.pos = {}
    BY <1>2, <1>7 DEF SpanKey, Key, Keys
  <2>3. SUFFICES Recorded(more, q, k) = IF k = SpanKey(v, span) THEN {span} ELSE Recorded(p, q, k)
    BY <1>5, <1>6, <1>7, <2>1 DEF DescribedAt
  <2>4. CASE k.table = "transcript"
    <3>1. Recorded(more, q, k) = IF k.pos = {} THEN {more[Len(more)]} ELSE SpansAt(more, Len(more) - 1, k.pos)
      BY <1>4, <2>4, RecordedSpans
    <3>2. Recorded(p, q, k) = IF k.pos = {} THEN {p[Len(p)]} ELSE SpansAt(p, Len(p) - 1, k.pos)
      BY <1>1, <2>4, RecordedSpans DEF p, q
    <3>3. SpansAt(more, Len(more) - 1, k.pos) = SpansAt(p, Len(p) - 1, k.pos)
      BY <1>4 DEF SpansAt
    <3> QED
      BY <1>4, <2>2, <2>4, <3>1, <3>2, <3>3
  <2>5. CASE k.table # "transcript"
    BY <2>2, <2>5 DEF Recorded
  <2> QED
    BY <2>4, <2>5
<1>8. Described(x, t)
  <2>1. SpanKey(v, span).vat = v
    BY DEF SpanKey, Key
  <2>2. ChangesOnly(x, st, t, v)
    BY <1>5, <1>6, <2>1 DEF ChangesOnly
  <2> QED
    BY <1>7, <2>2, DescribedStill
<1> QED
  BY <1>5, <1>6, <1>8 DEF Rewrites, p, q, more, t

(* A new span is written behind the others. *)
Writes(st, t, v, span) ==
  /\ t \in Stores /\ t.snaps = st.snaps
  /\ t.spans = [st.spans EXCEPT ![v] = Append(@, span)]
  /\ \A x : \A k \in Keys :
       Noted(x, t.pending, k) = IF k = SpanKey(v, span) THEN {span} ELSE Noted(x, st.pending, k)

LEMMA WriteIs ==
  ASSUME NEW st \in Stores, NEW v \in Vats, NEW span \in Span
  PROVE  Writes(st, WriteSpan(st, v, span), v, span)
<1> DEFINE p == st.spans[v]
           spans == [st.spans EXCEPT ![v] = Append(p, span)]
           mid == [st EXCEPT !.spans = spans]
<1>1. p \in Seq(Span) /\ Append(p, span) \in Seq(Span)
  BY RowTypes
<1>2. spans \in [Vats -> Seq(Span)]
  <2>1. st.spans \in [Vats -> Seq(Span)]
    BY DEF Stores
  <2> QED
    BY <1>1, <2>1
<1>3. [st EXCEPT !.spans[v] = Append(@, span)] = mid
  BY DEF Stores
<1> HIDE DEF spans
<1>4. mid \in Stores /\ mid.snaps = st.snaps /\ mid.spans = spans /\ mid.pending = st.pending
  BY <1>2 DEF Stores
<1> DEFINE t == WriteSpan(st, v, span)
           ks == {SpanKey(v, span)}
           value == {span}
<1>5. t = NoteExports(mid, ks, value)
  BY <1>3 DEF WriteSpan, NoteExport
<1>6. ks \in SUBSET Keys /\ value \in SUBSET Value
  BY KeyTypes DEF Value
<1> HIDE DEF mid, t, ks, value
<1>7. Notes(mid, t, ks, value)
  BY <1>4, <1>5, <1>6, NoteExportsNotes
<1>8. \A x : \A k \in Keys : Noted(x, t.pending, k) =
           IF k = SpanKey(v, span) THEN {span} ELSE Noted(x, st.pending, k)
  BY <1>4, <1>7 DEF ks, value, Notes
<1> QED
  BY <1>4, <1>7, <1>8 DEF spans, t, Notes, Writes

LEMMA EmptySpanType ==
  ASSUME NEW pos \in Nat, NEW incarnation \in Nat
  PROVE  LET span == EmptySpan(pos, incarnation)
         IN /\ span \in Span /\ span.start = pos /\ span.end = pos /\ span.items = <<>>
            /\ span.incarnation = incarnation /\ span.current /\ Len(span.items) = 0
BY DEF EmptySpan, Span

ShutSpan(span) == [span EXCEPT !.current = FALSE]
Shut(p) == WithLast(p, ShutSpan(p[Len(p)]))
Rolled(p, incarnation) == Append(Shut(p), EmptySpan(p[Len(p)].end, incarnation))

LEMMA ShutIs ==
  ASSUME NEW p \in Seq(Span), NEW q, Open(p, q)
  PROVE  LET last == p[Len(p)]
         IN /\ Shut(p) \in Seq(Span) /\ Len(Shut(p)) = Len(p) /\ Shut(p)[Len(p)] = ShutSpan(last)
            /\ \A i \in 1..Len(p) - 1 : Shut(p)[i] = p[i]
            /\ ShutSpan(last) \in Span /\ ShutSpan(last).start = last.start
            /\ ShutSpan(last).end = last.end /\ ShutSpan(last).items = last.items
            /\ ~ShutSpan(last).current
            /\ \A i \in 1..Len(p) : /\ Shut(p)[i].start = p[i].start
                                    /\ Shut(p)[i].end = Shut(p)[i].start + Len(Shut(p)[i].items)
                                    /\ ~Shut(p)[i].current
<1> DEFINE n == Len(p)
           last == p[n]
           span == ShutSpan(last)
<1>1. n \in 1..n /\ n \in Nat /\ last \in Span
  BY DEF Open
<1>2. /\ span \in Span /\ span.start = last.start /\ span.end = last.end
      /\ span.items = last.items /\ ~span.current
  <2> HIDE DEF last
  <2> QED
    BY <1>1 DEF ShutSpan, Span
<1>3. /\ Shut(p) \in Seq(Span) /\ Len(Shut(p)) = n /\ Shut(p)[n] = span
      /\ \A i \in 1..n - 1 : Shut(p)[i] = p[i]
  BY <1>1, <1>2, WithLastIs DEF Open, Shut
<1> HIDE DEF span, n
<1>4. \A i \in 1..n : i = n \/ i \in 1..n - 1
  BY <1>1
<1>5. \A i \in 1..n : p[i].end = p[i].start + Len(p[i].items)
  BY DEF Open, Orderly, n
<1>6. \A i \in 1..n - 1 : i \in 1..n /\ ~p[i].current
  BY <1>1 DEF Open, Orderly, n
<1>7. ASSUME NEW i \in 1..n
      PROVE  /\ Shut(p)[i].start = p[i].start
             /\ Shut(p)[i].end = Shut(p)[i].start + Len(Shut(p)[i].items)
             /\ ~Shut(p)[i].current
  <2>1. CASE i = n
    BY <1>1, <1>2, <1>3, <1>5, <2>1
  <2>2. CASE i # n
    BY <1>3, <1>4, <1>5, <1>6, <2>2
  <2> QED
    BY <2>1, <2>2
<1> QED
  BY <1>2, <1>3, <1>7 DEF n, span

LEMMA ShutAt ==
  ASSUME NEW p \in Seq(Span), NEW q, Open(p, q), NEW pos
  PROVE  SpansAt(Shut(p), Len(p), pos) =
           IF pos = {p[Len(p)].start} THEN {ShutSpan(p[Len(p)])} ELSE SpansAt(p, Len(p) - 1, pos)
<1> DEFINE n == Len(p)
           last == p[n]
           shut == ShutSpan(last)
           more == Shut(p)
<1>1. n \in Nat /\ n \in 1..n
  BY DEF Open
<1>2. /\ more[n] = shut /\ shut.start = last.start
      /\ \A i \in 1..n - 1 : more[i] = p[i]
  BY ShutIs
<1>3. last.start \in Nat
  <2>1. last \in Span
    BY <1>1
  <2> QED
    BY <2>1 DEF Span
<1>4. \A i \in 1..n : i = n \/ i \in 1..n - 1
  BY <1>1
<1>5. \A i \in 1..n - 1 : i \in 1..n /\ p[i].start # last.start
  <2>1. \A i \in 1..n - 1 : i \in 1..n /\ i < n
    BY <1>1
  <2>2. \A i \in 1..n - 1 : p[i].start < last.start
    BY <1>1, <2>1 DEF Open, Orderly
  <2>3. \A i \in 1..n - 1 : p[i] \in Span
    BY <1>1, <2>1
  <2>4. \A i \in 1..n - 1 : p[i].start \in Nat
    BY <2>3 DEF Span
  <2> HIDE DEF last, n
  <2> QED
    BY <1>3, <2>1, <2>2, <2>4
<1> HIDE DEF last, n, shut, more
<1>6. CASE pos = {last.start}
  <2>1. \A i \in 1..n : {more[i].start} = pos <=> i = n
    BY <1>2, <1>4, <1>5, <1>6
  <2>2. SpansAt(more, n, pos) = {shut}
    BY <1>1, <1>2, <2>1 DEF SpansAt
  <2> QED
    BY <1>6, <2>2 DEF n, last, shut, more
<1>7. CASE pos # {last.start}
  <2>1. ASSUME NEW i \in 1..n
        PROVE  {more[i].start} = pos <=> i \in 1..n - 1 /\ {p[i].start} = pos
    <3>1. CASE i = n
      BY <1>1, <1>2, <1>7, <3>1
    <3>2. CASE i # n
      BY <1>2, <1>4, <3>2
    <3> QED
      BY <3>1, <3>2
  <2>2. SpansAt(more, n, pos) = SpansAt(p, n - 1, pos)
    BY <1>2, <1>5, <2>1 DEF SpansAt
  <2> QED
    BY <1>7, <2>2 DEF n, last, shut, more
<1> QED
  BY <1>6, <1>7

LEMMA RolledIs ==
  ASSUME NEW p \in Seq(Span), NEW q, Open(p, q), p[Len(p)].items # <<>>, NEW incarnation \in Nat
  PROVE  LET more == Rolled(p, incarnation)
         IN /\ more \in Seq(Span) /\ Len(more) = Len(p) + 1 /\ Open(more, q)
            /\ more[Len(more)] = EmptySpan(p[Len(p)].end, incarnation)
            /\ \A i \in 1..Len(p) : more[i] = Shut(p)[i]
<1> DEFINE n == Len(p)
           last == p[n]
           shut == Shut(p)
           new == EmptySpan(last.end, incarnation)
           more == Rolled(p, incarnation)
<1>1. /\ n \in Nat /\ n \in 1..n /\ last \in Span /\ last.end \in Nat /\ last.start \in Nat
      /\ last.items \in Seq(Item) /\ Len(last.items) > 0
  <2>1. n \in Nat /\ n \in 1..n /\ last \in Span
    BY DEF Open
  <2>2. last.end \in Nat /\ last.start \in Nat /\ last.items \in Seq(Item)
    BY <2>1 DEF Span
  <2> QED
    BY <2>1, <2>2
<1>2. new \in Span /\ new.start = last.end /\ new.end = last.end /\ new.items = <<>> /\ new.current
      /\ Len(new.items) = 0
  BY <1>1, EmptySpanType
<1>3. /\ shut \in Seq(Span) /\ Len(shut) = n
      /\ \A i \in 1..n : /\ shut[i].start = p[i].start
                         /\ shut[i].end = shut[i].start + Len(shut[i].items)
                         /\ ~shut[i].current
  BY ShutIs
<1>4. last.start < last.end
  <2>1. last.end = last.start + Len(last.items)
    BY <1>1 DEF Open, Orderly
  <2>2. Len(last.items) \in Nat
    BY <1>1
  <2> HIDE DEF last
  <2> QED
    BY <1>1, <2>1, <2>2
<1> HIDE DEF n, shut, new
<1>5. /\ more \in Seq(Span) /\ Len(more) = n + 1 /\ more[n + 1] = new /\ more # <<>>
      /\ \A i \in 1..n : more[i] = shut[i]
  BY <1>2, <1>3, AppendProperties DEF Rolled, shut, new, n
<1> HIDE DEF more
<1>6. \A i \in 1..n + 1 : i = n + 1 \/ i \in 1..n
  BY <1>1
<1>7. \A i \in 1..n : p[i].start <= last.start /\ p[i].start \in Nat
  <2>1. \A i \in 1..n : p[i].start \in Nat
    <3>1. \A i \in 1..n : p[i] \in Span
      BY DEF n
    <3> QED
      BY <3>1 DEF Span
  <2>2. \A i \in 1..n : i < n => p[i].start < last.start
    BY <1>1 DEF Open, Orderly, n
  <2>3. \A i \in 1..n : i < n \/ i = n
    BY <1>1
  <2> HIDE DEF last
  <2> QED
    BY <1>1, <2>1, <2>2, <2>3 DEF last
<1>8. ASSUME NEW i \in 1..n + 1, NEW j \in 1..n + 1, i < j
      PROVE  more[i].start < more[j].start /\ ~more[i].current
  <2>1. i \in 1..n /\ more[i] = shut[i] /\ shut[i].start = p[i].start /\ ~shut[i].current
    BY <1>1, <1>3, <1>5, <1>8
  <2>2. CASE j = n + 1
    <3>1. more[j].start = last.end /\ p[i].start \in Nat /\ p[i].start <= last.start
      BY <1>2, <1>5, <1>7, <2>1, <2>2
    <3> HIDE DEF last
    <3> QED
      BY <1>1, <1>4, <2>1, <3>1
  <2>3. CASE j # n + 1
    <3>1. j \in 1..n /\ more[j].start = p[j].start
      BY <1>3, <1>5, <1>6, <2>3
    <3>2. p[i].start < p[j].start
      BY <1>8, <2>1, <3>1 DEF Open, Orderly, n
    <3> QED
      BY <2>1, <3>1, <3>2
  <2> QED
    BY <2>2, <2>3
<1>9. ASSUME NEW i \in 1..n + 1
      PROVE  more[i].end = more[i].start + Len(more[i].items)
  <2>1. CASE i = n + 1
    BY <1>1, <1>2, <1>5, <2>1
  <2>2. CASE i # n + 1
    BY <1>3, <1>5, <1>6, <2>2
  <2> QED
    BY <2>1, <2>2
<1>10. Open(more, q)
  <2>1. \A i, j \in 1..Len(q) : i < j => q[i].pos < q[j].pos /\ ~q[i].inUse
    BY DEF Open, Orderly
  <2> QED
    BY <1>2, <1>5, <1>8, <1>9, <2>1 DEF Open, Orderly
<1> QED
  BY <1>5, <1>10 DEF n, shut, new, more

NextIncarnation(span, isNewIncarnation) ==
  IF isNewIncarnation THEN span.incarnation + 1 ELSE span.incarnation

LEMMA RolloverWrites ==
  ASSUME NEW x, NEW st \in Stores, NEW v \in Vats, NEW isNew \in BOOLEAN,
         Open(st.spans[v], st.snaps[v]), st.spans[v][Len(st.spans[v])].items # <<>>,
         Described(x, st)
  PROVE  LET p == st.spans[v]
         IN Rewrites(x, st, DoSpanRollover(st, v, isNew), v,
                     Rolled(p, NextIncarnation(p[Len(p)], isNew)), st.snaps[v])
<1> DEFINE p == st.spans[v]
           q == st.snaps[v]
           last == p[Len(p)]
           inc == NextIncarnation(last, isNew)
           shut == ShutSpan(last)
           new == EmptySpan(last.end, inc)
           more == Rolled(p, inc)
           mid == CloseSpan(st, v)
           t == DoSpanRollover(st, v, isNew)
<1>1. p \in Seq(Span) /\ p # <<>> /\ last \in Span /\ CurrentSpan(st, v) = last
      /\ Len(p) \in 1..Len(p) /\ Len(p) \in Nat
  BY LastSpan DEF Open
<1>2. inc \in Nat /\ last.end \in Nat /\ last.start \in Nat
  <2> HIDE DEF last
  <2> QED
    BY <1>1 DEF Span, NextIncarnation
<1>3. new \in Span /\ new.current
  <2> HIDE DEF inc, last
  <2> QED
    BY <1>2, EmptySpanType
<1>4. /\ Shut(p) \in Seq(Span) /\ Len(Shut(p)) = Len(p) /\ Shut(p)[Len(p)] = shut
      /\ shut \in Span /\ shut.start = last.start /\ ~shut.current
      /\ \A i \in 1..Len(p) - 1 : Shut(p)[i] = p[i]
  BY <1>1, ShutIs
<1>5. Updates(st, mid, v, shut)
  <2>1. mid = UpdateCurrentSpan(st, v, shut)
    BY <1>1 DEF CloseSpan, ShutSpan
  <2> HIDE DEF mid, shut
  <2> QED
    BY <1>1, <1>4, <2>1, UpdateIs
<1>6. t = WriteSpan(mid, v, new)
  BY <1>1 DEF DoSpanRollover, NextIncarnation
<1>7. /\ more \in Seq(Span) /\ Len(more) = Len(p) + 1 /\ Open(more, q)
      /\ more[Len(more)] = new
      /\ \A i \in 1..Len(p) : more[i] = Shut(p)[i]
  <2> HIDE DEF inc
  <2> QED
    BY <1>1, <1>2, RolledIs
<1> HIDE DEF t, mid, shut, new, inc, more
<1>8. mid \in Stores /\ mid.snaps = st.snaps /\ mid.spans = [st.spans EXCEPT ![v] = Shut(p)]
  BY <1>5 DEF Updates, Shut, shut
<1>9. Writes(mid, t, v, new)
  BY <1>3, <1>6, <1>8, WriteIs
<1>10. more = Append(Shut(p), new)
  BY DEF more, new, Rolled
<1>11. /\ t \in Stores /\ t.snaps = st.snaps /\ t.spans = [st.spans EXCEPT ![v] = more]
       /\ \A k \in Keys : Noted(x, t.pending, k) =
            IF k = SpanKey(v, new) THEN {new}
            ELSE IF k = SpanKey(v, shut) THEN {shut} ELSE Noted(x, st.pending, k)
  <2>1. st.spans \in [Vats -> Seq(Span)]
    BY DEF Stores
  <2>2. t.spans = [mid.spans EXCEPT ![v] = Append(mid.spans[v], new)]
    BY <1>9 DEF Writes
  <2>3. mid.spans[v] = Shut(p)
    BY <1>8, <2>1
  <2>4. t.spans = [st.spans EXCEPT ![v] = more]
    BY <1>8, <1>10, <2>1, <2>2, <2>3
  <2>5. \A k \in Keys : Noted(x, t.pending, k) =
          IF k = SpanKey(v, new) THEN {new} ELSE Noted(x, mid.pending, k)
    BY <1>9 DEF Writes
  <2>6. \A k \in Keys : Noted(x, mid.pending, k) =
          IF k = SpanKey(v, shut) THEN {shut} ELSE Noted(x, st.pending, k)
    BY <1>5 DEF Updates
  <2>7. t \in Stores /\ t.snaps = st.snaps
    BY <1>8, <1>9 DEF Writes
  <2> QED
    BY <2>4, <2>5, <2>6, <2>7
<1>12. /\ t.spans[v] = more /\ t.snaps[v] = q
       /\ \A w \in Vats \ {v} : t.spans[w] = st.spans[w] /\ t.snaps[w] = st.snaps[w]
       /\ t.snaps = [st.snaps EXCEPT ![v] = q]
  BY <1>11 DEF Stores
<1>13. SpanKey(v, new).vat = v /\ SpanKey(v, shut).vat = v
  BY DEF SpanKey, Key
<1>14. ASSUME NEW k \in Keys, k.vat = v
       PROVE  DescribedAt(x, t, k)
  <2>1. Noted(x, st.pending, k) = Recorded(p, q, k)
    BY <1>14 DEF Described, DescribedAt
  <2>2. /\ SpanKey(v, new) = k <=> k.table = "transcript" /\ k.pos = {}
        /\ SpanKey(v, shut) = k <=> k.table = "transcript" /\ k.pos = {last.start}
    BY <1>3, <1>4, <1>14 DEF SpanKey, Key, Keys
  <2>3. SUFFICES Recorded(more, q, k) = IF k = SpanKey(v, new) THEN {new}
                   ELSE IF k = SpanKey(v, shut) THEN {shut} ELSE Recorded(p, q, k)
    BY <1>11, <1>12, <1>14, <2>1 DEF DescribedAt
  <2>4. CASE k.table = "transcript"
    <3> DEFINE n == Len(p)
    <3>1. Recorded(more, q, k) = IF k.pos = {} THEN {new} ELSE SpansAt(more, n, k.pos)
      <4>1. Recorded(more, q, k) = IF k.pos = {} THEN {more[Len(more)]}
                                   ELSE SpansAt(more, Len(more) - 1, k.pos)
        <5> HIDE DEF p, q
        <5> QED
          BY <1>7, <2>4, RecordedSpans
      <4>2. Len(more) - 1 = n
        BY <1>1, <1>7
      <4> QED
        BY <1>7, <4>1, <4>2
    <3>2. k.pos # {} => Recorded(p, q, k) = SpansAt(p, n - 1, k.pos)
      BY <1>1, <2>4, RecordedSpans
    <3>3. SpansAt(more, n, k.pos) = SpansAt(Shut(p), n, k.pos)
      BY <1>7 DEF SpansAt
    <3>4. SpansAt(Shut(p), n, k.pos) = IF k.pos = {last.start} THEN {shut} ELSE SpansAt(p, n - 1, k.pos)
      BY <1>1, ShutAt DEF shut
    <3> HIDE DEF p, q, last, n
    <3>5. CASE k.pos = {}
      BY <2>2, <2>4, <3>1, <3>5
    <3>6. CASE k.pos # {}
      BY <2>2, <2>4, <3>1, <3>2, <3>3, <3>4, <3>6
    <3> QED
      BY <3>5, <3>6
  <2>5. CASE k.table # "transcript"
    BY <2>2, <2>5 DEF Recorded
  <2> QED
    BY <2>4, <2>5
<1>15. Described(x, t)
  <2>1. ChangesOnly(x, st, t, v)
    BY <1>11, <1>12, <1>13 DEF ChangesOnly
  <2> QED
    BY <1>14, <2>1, DescribedStill
<1> QED
  BY <1>11, <1>12, <1>15 DEF Rewrites, more, inc, t

LEMMA InitWrites ==
  ASSUME NEW x, NEW st \in Stores, NEW v \in Vats,
         st.spans[v] = <<>>, st.snaps[v] = <<>>, Described(x, st)
  PROVE  Rewrites(x, st, InitTranscript(st, v), v, <<EmptySpan(0, 0)>>, <<>>)
<1> DEFINE new == EmptySpan(0, 0)
           t == InitTranscript(st, v)
           none == <<>>
           one == <<new>>
<1>1. new \in Span /\ new.current
  BY EmptySpanType
<1> HIDE DEF new, t
<1>2. Writes(st, t, v, new)
  BY <1>1, WriteIs DEF InitTranscript, t, new
<1>3. Append(<<>>, new) = one
  OBVIOUS
<1>4. /\ t \in Stores /\ t.snaps = st.snaps /\ t.spans = [st.spans EXCEPT ![v] = one]
      /\ \A k \in Keys : Noted(x, t.pending, k) =
           IF k = SpanKey(v, new) THEN {new} ELSE Noted(x, st.pending, k)
  BY <1>2, <1>3 DEF Writes
<1>5. /\ t.spans[v] = one /\ t.snaps[v] = none
      /\ \A w \in Vats \ {v} : t.spans[w] = st.spans[w] /\ t.snaps[w] = st.snaps[w]
      /\ t.snaps = [st.snaps EXCEPT ![v] = none]
  BY <1>4 DEF Stores
<1>6. SpanKey(v, new).vat = v
  BY DEF SpanKey, Key
<1>7. one \in Seq(Span) /\ none \in Seq(Span) /\ ToSet(one) = {new} /\ ToSet(none) = {}
  BY <1>1 DEF ToSet
<1> HIDE DEF one, none
<1>8. ASSUME NEW k \in Keys, k.vat = v
      PROVE  DescribedAt(x, t, k)
  <2>1. Noted(x, st.pending, k) = Recorded(none, none, k)
    BY <1>8 DEF Described, DescribedAt, none
  <2>2. SpanKey(v, new) = k <=> k.table = "transcript" /\ k.pos = {}
    BY <1>1, <1>8 DEF SpanKey, Key, Keys
  <2>3. Recorded(one, none, k) = IF k = SpanKey(v, new) THEN {new} ELSE Recorded(none, none, k)
    <3>1. CASE k.table = "transcript"
      BY <1>7, <1>8, <3>1 DEF Recorded
    <3>2. CASE k.table # "transcript"
      BY <2>2, <3>2 DEF Recorded
    <3> QED
      BY <3>1, <3>2
  <2> QED
    BY <1>4, <1>5, <1>8, <2>1, <2>3 DEF DescribedAt
<1>9. Described(x, t)
  <2>1. ChangesOnly(x, st, t, v)
    BY <1>4, <1>5, <1>6 DEF ChangesOnly
  <2> QED
    BY <1>8, <2>1, DescribedStill
<1> QED
  BY <1>4, <1>5, <1>9 DEF Rewrites, t, one, none, new

LEMMA StopTranscriptWrites ==
  ASSUME NEW x, NEW st \in Stores, NEW v \in Vats,
         Open(st.spans[v], st.snaps[v]), Described(x, st)
  PROVE  Rewrites(x, st, StopUsingTranscript(st, v), v, Shut(st.spans[v]), st.snaps[v])
<1> DEFINE p == st.spans[v]
           q == st.snaps[v]
           last == p[Len(p)]
           shut == ShutSpan(last)
           mid == CloseSpan(st, v)
           t == StopUsingTranscript(st, v)
           key == Key("transcript", v, {})
<1>1. p \in Seq(Span) /\ p # <<>> /\ last \in Span /\ CurrentSpan(st, v) = last
      /\ Len(p) \in 1..Len(p) /\ Len(p) \in Nat /\ last.current
  BY LastSpan DEF Open
<1>2. /\ Shut(p) \in Seq(Span) /\ Len(Shut(p)) = Len(p)
      /\ shut \in Span /\ shut.start = last.start /\ ~shut.current
      /\ \A i \in 1..Len(p) : ~Shut(p)[i].current
  BY <1>1, ShutIs
<1>3. Updates(st, mid, v, shut)
  <2>1. mid = UpdateCurrentSpan(st, v, shut)
    BY <1>1 DEF CloseSpan, ShutSpan
  <2> HIDE DEF mid, shut
  <2> QED
    BY <1>1, <1>2, <2>1, UpdateIs
<1> DEFINE ks == {key}
           value == {}
<1>4. t = NoteExports(mid, ks, value)
  BY <1>1 DEF StopUsingTranscript, NoteExport
<1>5. ks \in SUBSET Keys /\ value \in SUBSET Value
  BY KeyTypes
<1> HIDE DEF t, mid, shut, key, ks, value
<1>6. mid \in Stores /\ mid.snaps = st.snaps /\ mid.spans = [st.spans EXCEPT ![v] = Shut(p)]
  BY <1>3 DEF Updates, Shut, shut
<1>7. Notes(mid, t, ks, value)
  BY <1>4, <1>5, <1>6, NoteExportsNotes
<1>8. /\ t \in Stores /\ t.snaps = st.snaps /\ t.spans = [st.spans EXCEPT ![v] = Shut(p)]
      /\ \A k \in Keys : Noted(x, t.pending, k) =
           IF k = key THEN {} ELSE IF k = SpanKey(v, shut) THEN {shut} ELSE Noted(x, st.pending, k)
  <2>1. \A k \in Keys : Noted(x, t.pending, k) = IF k = key THEN {} ELSE Noted(x, mid.pending, k)
    BY <1>7 DEF Notes, ks, value
  <2>2. \A k \in Keys : Noted(x, mid.pending, k) =
          IF k = SpanKey(v, shut) THEN {shut} ELSE Noted(x, st.pending, k)
    BY <1>3 DEF Updates
  <2>3. t \in Stores /\ t.snaps = mid.snaps /\ t.spans = mid.spans
    BY <1>7 DEF Notes
  <2> QED
    BY <1>6, <2>1, <2>2, <2>3
<1>9. /\ t.spans[v] = Shut(p) /\ t.snaps[v] = q
      /\ \A w \in Vats \ {v} : t.spans[w] = st.spans[w] /\ t.snaps[w] = st.snaps[w]
      /\ t.snaps = [st.snaps EXCEPT ![v] = q]
  BY <1>8 DEF Stores
<1>10. SpanKey(v, shut).vat = v /\ key.vat = v
  BY DEF SpanKey, Key, key
<1>11. ASSUME NEW k \in Keys, k.vat = v
       PROVE  DescribedAt(x, t, k)
  <2>1. Noted(x, st.pending, k) = Recorded(p, q, k)
    BY <1>11 DEF Described, DescribedAt
  <2>2. /\ key = k <=> k.table = "transcript" /\ k.pos = {}
        /\ SpanKey(v, shut) = k <=> k.table = "transcript" /\ k.pos = {last.start}
    BY <1>2, <1>11 DEF SpanKey, Key, Keys, key
  <2>3. SUFFICES Recorded(Shut(p), q, k) = IF k = key THEN {}
                   ELSE IF k = SpanKey(v, shut) THEN {shut} ELSE Recorded(p, q, k)
    BY <1>8, <1>9, <1>11, <2>1 DEF DescribedAt
  <2>4. CASE k.table = "transcript"
    <3>1. Recorded(Shut(p), q, k) = SpansAt(Shut(p), Len(p), k.pos)
      <4> HIDE DEF p, q
      <4> QED
        BY <1>2, <2>4, RecordedSpans
    <3>2. k.pos # {} => Recorded(p, q, k) = SpansAt(p, Len(p) - 1, k.pos)
      BY <1>1, <2>4, RecordedSpans
    <3>3. SpansAt(Shut(p), Len(p), k.pos) =
            IF k.pos = {last.start} THEN {shut} ELSE SpansAt(p, Len(p) - 1, k.pos)
      BY <1>1, ShutAt DEF shut
    <3> HIDE DEF p, q, last
    <3>4. CASE k.pos = {}
      <4>1. SpansAt(Shut(p), Len(p), k.pos) = {}
        BY <3>4 DEF SpansAt
      <4> QED
        BY <2>2, <2>4, <3>1, <3>4, <4>1
    <3>5. CASE k.pos # {}
      BY <2>2, <2>4, <3>1, <3>2, <3>3, <3>5
    <3> QED
      BY <3>4, <3>5
  <2>5. CASE k.table # "transcript"
    BY <2>2, <2>5 DEF Recorded
  <2> QED
    BY <2>4, <2>5
<1>12. Described(x, t)
  <2>1. ChangesOnly(x, st, t, v)
    BY <1>8, <1>9, <1>10 DEF ChangesOnly
  <2> QED
    BY <1>11, <2>1, DescribedStill
<1> QED
  BY <1>8, <1>9, <1>12 DEF Rewrites, t

(* The keys under which the snapshots of a vat are recorded. *)
SnapsAt(q, pos) == {q[i] : i \in {i \in 1..Len(q) : {q[i].pos} = pos}}
LastInUse(q) == q # <<>> /\ q[Len(q)].inUse
UnusedSnap(snap) == [snap EXCEPT !.inUse = FALSE]
Unused(q) == IF q = <<>> THEN q ELSE [q EXCEPT ![Len(q)] = UnusedSnap(q[Len(q)])]

LEMMA RecordedSnaps ==
  ASSUME NEW p, NEW q \in Seq(Snap), NEW k \in Keys, k.table = "snapshot", Orderly(p, q)
  PROVE  Recorded(p, q, k) =
           IF k.pos # {} THEN SnapsAt(q, k.pos)
           ELSE IF LastInUse(q) THEN {[pos |-> q[Len(q)].pos]} ELSE {}
<1> DEFINE n == Len(q)
<1>1. n \in Nat /\ DOMAIN q = 1..n /\ ToSet(q) = {q[i] : i \in 1..n} /\ (q # <<>> => n \in 1..n)
  BY DEF ToSet
<1>2. CASE k.pos # {}
  BY <1>1, <1>2 DEF Recorded, SnapsAt
<1>3. CASE k.pos = {}
  <2>1. Recorded(p, q, k) = {[pos |-> q[i].pos] : i \in {i \in 1..n : q[i].inUse}}
    BY <1>1, <1>3 DEF Recorded
  <2>2. \A i \in 1..n : i # n => ~q[i].inUse
    <3>1. \A i \in 1..n : i # n => i < n /\ n \in 1..n
      <4> HIDE DEF n
      <4> QED
        BY <1>1
    <3> QED
      BY <3>1 DEF Orderly
  <2> HIDE DEF n
  <2>3. CASE LastInUse(q)
    <3>1. n \in 1..n /\ q[n].inUse
      BY <1>1, <2>3 DEF LastInUse, n
    <3>2. {i \in 1..n : q[i].inUse} = {n}
      BY <2>2, <3>1
    <3>3. {[pos |-> q[i].pos] : i \in {n}} = {[pos |-> q[n].pos]}
      OBVIOUS
    <3> QED
      BY <1>3, <2>1, <2>3, <3>2, <3>3 DEF n
  <2>4. CASE ~LastInUse(q)
    <3>1. q = <<>> => n = 0
      BY DEF n
    <3>2. \A i \in 1..n : ~q[i].inUse
      <4>1. q = <<>> \/ ~q[n].inUse
        BY <2>4 DEF LastInUse, n
      <4> QED
        BY <1>1, <2>2, <3>1, <4>1
    <3> QED
      BY <1>3, <2>1, <2>4, <3>2
  <2> QED
    BY <2>3, <2>4
<1> QED
  BY <1>2, <1>3

LEMMA InUseIs ==
  ASSUME NEW st \in Stores, NEW v \in Vats, Orderly(st.spans[v], st.snaps[v])
  PROVE  LET q == st.snaps[v]
         IN SnapshotInUse(st, v) = IF LastInUse(q) THEN {Len(q)} ELSE {}
<1> DEFINE q == st.snaps[v]
           n == Len(q)
<1>1. n \in Nat /\ DOMAIN q = 1..n /\ (q # <<>> => n \in 1..n) /\ (q = <<>> => n = 0)
  BY RowTypes
<1>2. \A i \in 1..n : i # n => ~q[i].inUse
  <2>1. \A i \in 1..n : i # n => i < n /\ n \in 1..n
    BY <1>1
  <2> QED
    BY <2>1 DEF Orderly
<1>3. SnapshotInUse(st, v) = {i \in 1..n : q[i].inUse}
  BY <1>1 DEF SnapshotInUse
<1> HIDE DEF q
<1>4. CASE LastInUse(q)
  BY <1>1, <1>2, <1>3, <1>4 DEF LastInUse, q
<1>5. CASE ~LastInUse(q)
  <2>1. \A i \in 1..n : ~q[i].inUse
    <3>1. q = <<>> \/ ~q[n].inUse
      BY <1>5 DEF LastInUse
    <3> HIDE DEF n
    <3> QED
      BY <1>1, <1>2, <3>1
  <2> QED
    BY <1>3, <1>5, <2>1 DEF q
<1> QED
  BY <1>4, <1>5

LEMMA UnusedIs ==
  ASSUME NEW q \in Seq(Snap)
  PROVE  /\ Unused(q) \in Seq(Snap) /\ Len(Unused(q)) = Len(q)
         /\ \A i \in 1..Len(q) - 1 : Unused(q)[i] = q[i]
         /\ q # <<>> => Unused(q)[Len(q)] = UnusedSnap(q[Len(q)])
         /\ \A i \in 1..Len(q) : Unused(q)[i].pos = q[i].pos /\ Unused(q)[i].heap = q[i].heap
         /\ \A p : Orderly(p, q) =>
              Orderly(p, Unused(q)) /\ \A i \in 1..Len(q) : ~Unused(q)[i].inUse
         /\ \A pos : Below(q, pos) => Below(Unused(q), pos)
         /\ ~LastInUse(q) => Unused(q) = q
<1> DEFINE n == Len(q)
           last == q[n]
           r == Unused(q)
           snap == UnusedSnap(last)
<1>1. CASE q = <<>>
  <2>1. r = q /\ n = 0
    BY <1>1 DEF Unused
  <2>2. 1..Len(q) = {} /\ 1..Len(q) - 1 = {}
    BY <2>1
  <2> HIDE DEF r
  <2>3. \A p : Orderly(p, q) => Orderly(p, r) /\ \A i \in 1..Len(q) : ~r[i].inUse
    BY <2>1, <2>2
  <2>4. \A pos : Below(q, pos) => Below(r, pos)
    BY <2>1
  <2>5. r \in Seq(Snap) /\ Len(r) = Len(q) /\ (~LastInUse(q) => r = q)
    BY <2>1
  <2> QED
    BY <1>1, <2>2, <2>3, <2>4, <2>5 DEF r
<1>2. CASE q # <<>>
  <2>1. n \in Nat /\ n \in 1..n /\ last \in Snap /\ \A i \in 1..n : i = n \/ i \in 1..n - 1
    BY <1>2
  <2>2. snap \in Snap /\ snap.pos = last.pos /\ snap.heap = last.heap /\ ~snap.inUse
        /\ (~last.inUse => snap = last)
    <3> HIDE DEF last
    <3> QED
      BY <2>1 DEF UnusedSnap, Snap
  <2>3. /\ r \in Seq(Snap) /\ Len(r) = n
        /\ \A i \in 1..n : r[i] = IF i = n THEN snap ELSE q[i]
    <3>1. r = [q EXCEPT ![n] = snap]
      BY <1>2 DEF Unused
    <3> HIDE DEF snap, r, n
    <3> QED
      BY <2>1, <2>2, <3>1, ExceptSeq DEF n
  <2> HIDE DEF r, snap
  <2>4. \A i \in 1..n : r[i].pos = q[i].pos /\ r[i].heap = q[i].heap
    BY <2>2, <2>3
  <2>5. \A i \in 1..n - 1 : i \in 1..n /\ i < n /\ r[i] = q[i]
    BY <2>1, <2>3
  <2>6. r[n] = snap
    BY <2>1, <2>3
  <2>7. ASSUME NEW p, Orderly(p, q)
        PROVE  Orderly(p, r) /\ \A i \in 1..n : ~r[i].inUse
    <3>1. \A i \in 1..n - 1 : ~q[i].inUse
      BY <2>1, <2>5, <2>7 DEF Orderly
    <3>2. \A i \in 1..n : ~r[i].inUse
      BY <2>1, <2>2, <2>5, <2>6, <3>1
    <3> QED
      BY <2>3, <2>4, <2>7, <3>2 DEF Orderly
  <2>8. ASSUME NEW pos, Below(q, pos)
        PROVE  Below(r, pos)
    BY <2>3, <2>4, <2>8 DEF Below
  <2>9. ASSUME ~LastInUse(q)
        PROVE  r = q
    <3>1. ~last.inUse
      BY <1>2, <2>9 DEF LastInUse
    <3>2. \A i \in 1..n : r[i] = q[i]
      BY <2>2, <2>3, <3>1
    <3> QED
      BY <2>3, <3>2, SeqEqual
  <2> QED
    BY <2>3, <2>4, <2>5, <2>6, <2>7, <2>8, <2>9 DEF r, snap
<1> QED
  BY <1>1, <1>2

LEMMA WithSnaps ==
  ASSUME NEW st \in Stores, NEW v \in Vats, NEW q \in Seq(Snap)
  PROVE  LET t == [st EXCEPT !.snaps[v] = q]
         IN /\ t \in Stores /\ t.spans = st.spans /\ t.pending = st.pending
            /\ t.snaps = [st.snaps EXCEPT ![v] = q]
<1>1. [st.snaps EXCEPT ![v] = q] \in [Vats -> Seq(Snap)]
  <2>1. st.snaps \in [Vats -> Seq(Snap)]
    BY DEF Stores
  <2> QED
    BY <2>1
<1> QED
  BY <1>1 DEF Stores

LEMMA StopSnapshotWrites ==
  ASSUME NEW x, NEW st \in Stores, NEW v \in Vats,
         Orderly(st.spans[v], st.snaps[v]), Described(x, st)
  PROVE  Rewrites(x, st, StopUsingLastSnapshot(st, v), v, st.spans[v], Unused(st.snaps[v]))
<1> DEFINE p == st.spans[v]
           q == st.snaps[v]
           n == Len(q)
           last == q[n]
           snap == UnusedSnap(last)
           t == StopUsingLastSnapshot(st, v)
<1>1. q \in Seq(Snap) /\ SnapshotInUse(st, v) = IF LastInUse(q) THEN {n} ELSE {}
  BY RowTypes, InUseIs
<1>2. CASE ~LastInUse(q)
  <2>1. t = st /\ Unused(q) = q
    BY <1>1, <1>2, UnusedIs DEF StopUsingLastSnapshot
  <2> QED
    BY <2>1 DEF Rewrites, Stores
<1>3. CASE LastInUse(q)
  <2>1. n \in Nat /\ n \in 1..n /\ last \in Snap /\ q # <<>>
    BY <1>1, <1>3 DEF LastInUse
  <2>2. snap \in Snap /\ snap.pos = last.pos /\ last.pos \in Nat
    <3> HIDE DEF last
    <3> QED
      BY <2>1 DEF UnusedSnap, Snap
  <2> DEFINE r == Unused(q)
             at == Key("snapshot", v, {snap.pos})
             latest == Key("snapshot", v, {})
             one == NoteExports(st, {at}, {snap})
             two == [one EXCEPT !.snaps[v] = r]
  <2>3. /\ r \in Seq(Snap) /\ Len(r) = n /\ Orderly(p, r) /\ \A i \in 1..n : ~r[i].inUse
    BY <1>1, UnusedIs
  <2>4. /\ at \in Keys /\ latest \in Keys /\ snap \in Value /\ at.vat = v /\ latest.vat = v
        /\ at # latest
    BY <2>2, KeyTypes DEF Value, Key
  <2>5. Notes(st, one, {at}, {snap})
    <3> DEFINE ks == {at}
               value == {snap}
    <3>1. ks \in SUBSET Keys /\ value \in SUBSET Value
      BY <2>4
    <3> HIDE DEF ks, value
    <3>2. Notes(st, NoteExports(st, ks, value), ks, value)
      BY <3>1, NoteExportsNotes
    <3> QED
      BY <3>2 DEF ks, value
  <2>6. t = NoteExports(two, {latest}, {})
    <3>1. (CHOOSE i \in SnapshotInUse(st, v) : TRUE) = n /\ SnapshotInUse(st, v) # {}
      BY <1>1, <1>3
    <3>2. /\ one \in Stores /\ one.snaps = st.snaps
      BY <2>5 DEF Notes
    <3>3. [one EXCEPT !.snaps[v][n] = snap] = two
      <4>1. r = [q EXCEPT ![n] = snap]
        BY <2>1 DEF Unused
      <4> HIDE DEF one
      <4>2. one.snaps[v] = q
        BY <3>2
      <4> QED
        BY <3>2, <4>1, <4>2 DEF Stores
    <3> QED
      BY <3>1, <3>3 DEF StopUsingLastSnapshot, NoteExport, UnusedSnap
  <2> HIDE DEF one, two, r, at, latest, snap, t
  <2>7. /\ two \in Stores /\ two.spans = st.spans /\ two.pending = one.pending
        /\ two.snaps = [st.snaps EXCEPT ![v] = r]
    <3>1. one \in Stores /\ one.snaps = st.snaps /\ one.spans = st.spans
      BY <2>5 DEF Notes
    <3> QED
      BY <2>3, <3>1, WithSnaps DEF two
  <2>8. Notes(two, t, {latest}, {})
    <3> DEFINE ks == {latest}
               value == {}
    <3>1. ks \in SUBSET Keys /\ value \in SUBSET Value
      BY <2>4
    <3> HIDE DEF ks, value
    <3>2. Notes(two, NoteExports(two, ks, value), ks, value)
      BY <2>7, <3>1, NoteExportsNotes
    <3> QED
      BY <2>6, <3>2 DEF ks, value
  <2>9. /\ t \in Stores /\ t.spans = st.spans /\ t.snaps = [st.snaps EXCEPT ![v] = r]
        /\ \A k \in Keys : Noted(x, t.pending, k) =
             IF k = latest THEN {} ELSE IF k = at THEN {snap} ELSE Noted(x, st.pending, k)
    <3>1. \A k \in Keys : Noted(x, t.pending, k) = IF k = latest THEN {} ELSE Noted(x, two.pending, k)
      BY <2>8 DEF Notes
    <3>2. \A k \in Keys : Noted(x, two.pending, k) = IF k = at THEN {snap} ELSE Noted(x, st.pending, k)
      BY <2>5, <2>7 DEF Notes
    <3>3. t \in Stores /\ t.spans = two.spans /\ t.snaps = two.snaps
      BY <2>8 DEF Notes
    <3> QED
      BY <2>7, <3>1, <3>2, <3>3
  <2>10. /\ t.spans[v] = p /\ t.snaps[v] = r
         /\ \A w \in Vats \ {v} : t.spans[w] = st.spans[w] /\ t.snaps[w] = st.snaps[w]
         /\ t.spans = [st.spans EXCEPT ![v] = p]
    BY <2>9 DEF Stores
  <2>11. ASSUME NEW k \in Keys, k.vat = v
         PROVE  DescribedAt(x, t, k)
    <3>1. Noted(x, st.pending, k) = Recorded(p, q, k)
      BY <2>11 DEF Described, DescribedAt
    <3>2. /\ latest = k <=> k.table = "snapshot" /\ k.pos = {}
          /\ at = k <=> k.table = "snapshot" /\ k.pos = {last.pos}
      BY <2>2, <2>11 DEF Key, Keys, at, latest
    <3>3. SUFFICES Recorded(p, r, k) =
             IF k = latest THEN {} ELSE IF k = at THEN {snap} ELSE Recorded(p, q, k)
      BY <2>9, <2>10, <2>11, <3>1 DEF DescribedAt
    <3>4. CASE k.table = "snapshot"
      <4>1. Recorded(p, r, k) = IF k.pos # {} THEN SnapsAt(r, k.pos)
                                ELSE IF LastInUse(r) THEN {[pos |-> r[Len(r)].pos]} ELSE {}
        <5> HIDE DEF p
        <5> QED
          BY <2>3, <3>4, RecordedSnaps
      <4>2. Recorded(p, q, k) = IF k.pos # {} THEN SnapsAt(q, k.pos)
                                ELSE IF LastInUse(q) THEN {[pos |-> q[Len(q)].pos]} ELSE {}
        BY <1>1, <3>4, RecordedSnaps
      <4>3. CASE k.pos = {}
        <5>1. ~LastInUse(r)
          BY <2>1, <2>3 DEF LastInUse
        <5> QED
          BY <3>2, <3>4, <4>1, <4>3, <5>1
      <4>4. CASE k.pos # {}
        <5>1. SnapsAt(r, k.pos) = IF k.pos = {last.pos} THEN {snap} ELSE SnapsAt(q, k.pos)
          <6>1. /\ r[n] = snap /\ \A i \in 1..n - 1 : r[i] = q[i]
                /\ \A i \in 1..n : r[i].pos = q[i].pos
            BY <1>1, <2>1, UnusedIs DEF r, snap
          <6>2. \A i \in 1..n : i = n \/ (i < n /\ i \in 1..n - 1)
            <7> HIDE DEF n
            <7> QED
              BY <2>1
          <6>3. \A i \in 1..n : i # n => q[i].pos # last.pos
            <7>1. \A i \in 1..n : i # n => q[i].pos < last.pos
              BY <2>1, <6>2 DEF Orderly
            <7>2. \A i \in 1..n : q[i] \in Snap
              BY <1>1
            <7>3. \A i \in 1..n : q[i].pos \in Nat
              BY <7>2 DEF Snap
            <7> HIDE DEF last, q, n
            <7> QED
              BY <2>2, <7>1, <7>3
          <6>4. SnapsAt(r, k.pos) = {r[i] : i \in {i \in 1..n : {q[i].pos} = k.pos}}
            BY <2>3, <6>1 DEF SnapsAt
          <6>5. CASE k.pos = {last.pos}
            <7>1. {i \in 1..n : {q[i].pos} = k.pos} = {n}
              BY <2>1, <6>3, <6>5
            <7>2. {r[i] : i \in {n}} = {r[n]}
              OBVIOUS
            <7>3. SnapsAt(r, k.pos) = {r[n]}
              BY <6>4, <7>1, <7>2
            <7> QED
              BY <6>1, <6>5, <7>3
          <6>6. CASE k.pos # {last.pos}
            <7>1. \A i \in 1..n : {q[i].pos} = k.pos => r[i] = q[i]
              BY <6>1, <6>2, <6>6
            <7>2. SnapsAt(q, k.pos) = {q[i] : i \in {i \in 1..n : {q[i].pos} = k.pos}}
              BY DEF SnapsAt
            <7> HIDE DEF last, q, n
            <7> QED
              BY <6>4, <6>6, <7>1, <7>2
          <6> QED
            BY <6>5, <6>6
        <5> HIDE DEF p, q, last
        <5> QED
          BY <3>2, <3>4, <4>1, <4>2, <4>4, <5>1
      <4> QED
        BY <4>3, <4>4
    <3>5. CASE k.table # "snapshot"
      <4>1. k.table = "transcript"
        BY <3>5 DEF Keys
      <4> QED
        BY <3>2, <3>5, <4>1 DEF Recorded
    <3> QED
      BY <3>4, <3>5
  <2>12. Described(x, t)
    <3>1. ChangesOnly(x, st, t, v)
      BY <2>4, <2>9, <2>10 DEF ChangesOnly
    <3> QED
      BY <2>11, <3>1, DescribedStill
  <2> QED
    BY <2>9, <2>10, <2>12 DEF Rewrites, t, r
<1> QED
  BY <1>2, <1>3

NewSnap(pos, heap) == [pos |-> pos, inUse |-> TRUE, heap |-> heap]
WithSnap(q, pos, heap) == Append(Unused(q), NewSnap(pos, heap))

LEMMA WithSnapIs ==
  ASSUME NEW p, NEW q \in Seq(Snap), Orderly(p, q),
         NEW pos \in Nat, NEW heap \in Seq(Item), Below(q, pos)
  PROVE  LET r == WithSnap(q, pos, heap)
         IN /\ r \in Seq(Snap) /\ Orderly(p, r) /\ Len(r) = Len(q) + 1
            /\ r[Len(r)] = NewSnap(pos, heap) /\ LastInUse(r) /\ Below(r, pos + 1)
            /\ \A i \in 1..Len(q) : r[i] = Unused(q)[i] /\ r[i].pos < pos
<1> DEFINE n == Len(q)
           u == Unused(q)
           snap == NewSnap(pos, heap)
           r == WithSnap(q, pos, heap)
<1>1. /\ n \in Nat /\ u \in Seq(Snap) /\ Len(u) = n /\ Orderly(p, u) /\ Below(u, pos)
      /\ \A i \in 1..n : ~u[i].inUse
  BY UnusedIs
<1>2. snap \in Snap /\ snap.pos = pos /\ snap.inUse
  BY DEF NewSnap, Snap
<1> HIDE DEF n, u, snap
<1>3. /\ r \in Seq(Snap) /\ Len(r) = n + 1 /\ r[n + 1] = snap /\ r # <<>>
      /\ \A i \in 1..n : r[i] = u[i]
  BY <1>1, <1>2, AppendProperties DEF WithSnap, u, snap
<1> HIDE DEF r
<1>4. \A i \in 1..n + 1 : i = n + 1 \/ i \in 1..n
  BY <1>1
<1>5. \A i \in 1..n : r[i].pos < pos /\ ~r[i].inUse /\ r[i].pos \in Nat
  <2>1. \A i \in 1..n : u[i] \in Snap /\ u[i].pos < pos
    BY <1>1 DEF Below
  <2> QED
    BY <1>1, <1>3, <2>1 DEF Snap
<1>6. ASSUME NEW i \in 1..n + 1, NEW j \in 1..n + 1, i < j
      PROVE  r[i].pos < r[j].pos /\ ~r[i].inUse
  <2>1. i \in 1..n
    BY <1>1, <1>6
  <2>2. CASE j = n + 1
    BY <1>2, <1>3, <1>5, <2>1, <2>2
  <2>3. CASE j # n + 1
    <3>1. j \in 1..n
      BY <1>4, <2>3
    <3>2. u[i].pos < u[j].pos
      BY <1>1, <1>6, <2>1, <3>1 DEF Orderly
    <3> QED
      BY <1>3, <1>5, <2>1, <3>1, <3>2
  <2> QED
    BY <2>2, <2>3
<1>7. Orderly(p, r)
  BY <1>3, <1>6 DEF Orderly
<1>8. Below(r, pos + 1)
  <2>1. ASSUME NEW i \in 1..n + 1
        PROVE  r[i].pos < pos + 1
    <3>1. CASE i = n + 1
      BY <1>2, <1>3, <3>1
    <3>2. CASE i # n + 1
      BY <1>4, <1>5, <3>2
    <3> QED
      BY <3>1, <3>2
  <2> QED
    BY <1>3, <2>1 DEF Below
<1> QED
  BY <1>2, <1>3, <1>5, <1>7, <1>8 DEF LastInUse, n, u, snap, r

LEMMA SaveWrites ==
  ASSUME NEW x, NEW st \in Stores, NEW v \in Vats, NEW pos \in Nat, NEW heap \in Seq(Item),
         Orderly(st.spans[v], st.snaps[v]), Below(st.snaps[v], pos), Described(x, st)
  PROVE  Rewrites(x, st, SaveSnapshot(st, v, pos, heap), v, st.spans[v],
                  WithSnap(st.snaps[v], pos, heap))
<1> DEFINE p == st.spans[v]
           q == st.snaps[v]
           n == Len(q)
           u == Unused(q)
           r == WithSnap(q, pos, heap)
           snap == NewSnap(pos, heap)
           stopped == StopUsingLastSnapshot(st, v)
           saved == [stopped EXCEPT !.snaps[v] = Append(@, snap)]
           at == Key("snapshot", v, {pos})
           latest == Key("snapshot", v, {})
           mark == [pos |-> pos]
           one == NoteExports(saved, {at}, {snap})
           t == SaveSnapshot(st, v, pos, heap)
<1>1. q \in Seq(Snap) /\ n \in Nat /\ p \in Seq(Span)
  BY RowTypes
<1>2. Rewrites(x, st, stopped, v, p, u)
  BY StopSnapshotWrites
<1>3. /\ u \in Seq(Snap) /\ Len(u) = n /\ Orderly(p, u) /\ \A i \in 1..n : ~u[i].inUse
  BY <1>1, UnusedIs
<1>4. /\ r \in Seq(Snap) /\ Orderly(p, r) /\ Len(r) = n + 1 /\ r[n + 1] = snap /\ LastInUse(r)
      /\ \A i \in 1..n : r[i] = u[i] /\ r[i].pos < pos
  <2>1. Orderly(p, q) /\ Below(q, pos)
    OBVIOUS
  <2> HIDE DEF p, q
  <2> QED
    BY <1>1, <2>1, WithSnapIs
<1>5. t = NoteExports(one, {latest}, {mark})
  BY DEF SaveSnapshot, NoteExport, NewSnap
<1>6. /\ at \in Keys /\ latest \in Keys /\ snap \in Value /\ mark \in Value
      /\ at.vat = v /\ latest.vat = v /\ snap.pos = pos
  BY KeyTypes DEF Value, Key, NewSnap, Snap
<1> HIDE DEF t, one, stopped, r, u, at, latest, mark, snap, saved
<1>7. stopped \in Stores /\ stopped.spans[v] = p /\ stopped.snaps[v] = u
  BY <1>2 DEF Rewrites, Stores
<1>8. /\ saved \in Stores /\ saved.spans = stopped.spans /\ saved.pending = stopped.pending
      /\ saved.snaps = [st.snaps EXCEPT ![v] = r]
  <2>1. r = Append(u, snap)
    BY DEF r, u, snap, WithSnap
  <2>2. saved = [stopped EXCEPT !.snaps[v] = r]
    BY <1>7, <2>1 DEF saved, Stores
  <2>3. stopped.snaps = [st.snaps EXCEPT ![v] = u]
    BY <1>2 DEF Rewrites
  <2>4. [stopped.snaps EXCEPT ![v] = r] = [st.snaps EXCEPT ![v] = r]
    BY <2>3 DEF Stores
  <2> QED
    BY <1>4, <1>7, <2>2, <2>4, WithSnaps
<1>9. Notes(saved, one, {at}, {snap})
  <2> DEFINE ks == {at}
             value == {snap}
  <2>1. ks \in SUBSET Keys /\ value \in SUBSET Value
    BY <1>6
  <2> HIDE DEF ks, value
  <2>2. Notes(saved, NoteExports(saved, ks, value), ks, value)
    BY <1>8, <2>1, NoteExportsNotes
  <2> QED
    BY <2>2 DEF ks, value, one
<1>10. Notes(one, t, {latest}, {mark})
  <2> DEFINE ks == {latest}
             value == {mark}
  <2>1. ks \in SUBSET Keys /\ value \in SUBSET Value /\ one \in Stores
    BY <1>6, <1>9 DEF Notes
  <2> HIDE DEF ks, value
  <2>2. Notes(one, NoteExports(one, ks, value), ks, value)
    BY <2>1, NoteExportsNotes
  <2> QED
    BY <1>5, <2>2 DEF ks, value
<1>11. /\ t \in Stores /\ t.spans = stopped.spans /\ t.snaps = [st.snaps EXCEPT ![v] = r]
       /\ \A k \in Keys : Noted(x, t.pending, k) =
            IF k = latest THEN {mark} ELSE IF k = at THEN {snap} ELSE Noted(x, stopped.pending, k)
  <2>1. \A k \in Keys : Noted(x, t.pending, k) = IF k = latest THEN {mark} ELSE Noted(x, one.pending, k)
    BY <1>10 DEF Notes
  <2>2. \A k \in Keys : Noted(x, one.pending, k) = IF k = at THEN {snap} ELSE Noted(x, stopped.pending, k)
    BY <1>8, <1>9 DEF Notes
  <2>3. t \in Stores /\ t.spans = saved.spans /\ t.snaps = saved.snaps
    BY <1>9, <1>10 DEF Notes
  <2> QED
    BY <1>8, <2>1, <2>2, <2>3
<1>12. /\ t.spans = [st.spans EXCEPT ![v] = p] /\ t.spans[v] = p /\ t.snaps[v] = r
       /\ \A w \in Vats \ {v} : t.spans[w] = stopped.spans[w] /\ t.snaps[w] = stopped.snaps[w]
  <2>1. stopped.snaps = [st.snaps EXCEPT ![v] = u] /\ stopped.spans = [st.spans EXCEPT ![v] = p]
    BY <1>2 DEF Rewrites
  <2>2. \A w \in Vats \ {v} : t.snaps[w] = stopped.snaps[w]
    BY <1>11, <2>1 DEF Stores
  <2>3. t.snaps[v] = r
    BY <1>11 DEF Stores
  <2> QED
    BY <1>7, <1>11, <2>1, <2>2, <2>3
<1>13. ASSUME NEW k \in Keys, k.vat = v
       PROVE  DescribedAt(x, t, k)
  <2>1. Noted(x, stopped.pending, k) = Recorded(p, u, k)
    BY <1>2, <1>7, <1>13 DEF Described, DescribedAt, Rewrites
  <2>2. /\ latest = k <=> k.table = "snapshot" /\ k.pos = {}
        /\ at = k <=> k.table = "snapshot" /\ k.pos = {pos}
    BY <1>13 DEF Key, Keys, at, latest
  <2>3. SUFFICES Recorded(p, r, k) =
           IF k = latest THEN {mark} ELSE IF k = at THEN {snap} ELSE Recorded(p, u, k)
    BY <1>11, <1>12, <1>13, <2>1 DEF DescribedAt
  <2>4. CASE k.table = "snapshot"
    <3>1. Recorded(p, r, k) = IF k.pos # {} THEN SnapsAt(r, k.pos)
                              ELSE IF LastInUse(r) THEN {[pos |-> r[Len(r)].pos]} ELSE {}
      <4> HIDE DEF p
      <4> QED
        BY <1>4, <2>4, RecordedSnaps
    <3>2. Recorded(p, u, k) = IF k.pos # {} THEN SnapsAt(u, k.pos)
                              ELSE IF LastInUse(u) THEN {[pos |-> u[Len(u)].pos]} ELSE {}
      <4> HIDE DEF p
      <4> QED
        BY <1>3, <2>4, RecordedSnaps
    <3>3. CASE k.pos = {}
      <4>1. Recorded(p, r, k) = {mark}
        BY <1>4, <1>6, <3>1, <3>3 DEF mark
      <4> QED
        BY <2>2, <2>4, <3>3, <4>1
    <3>4. CASE k.pos # {}
      <4> HIDE DEF p, q, n
      <4>1. \A i \in 1..n + 1 : i = n + 1 \/ i \in 1..n
        BY <1>1
      <4>2. \A i \in 1..n : r[i] = u[i] /\ r[i].pos # pos
        <5>1. \A i \in 1..n : u[i] \in Snap
          BY <1>3
        <5>2. \A i \in 1..n : u[i].pos \in Nat
          BY <5>1 DEF Snap
        <5> QED
          BY <1>4, <5>2
      <4>3. SnapsAt(r, k.pos) = {r[i] : i \in {i \in 1..n + 1 : {r[i].pos} = k.pos}}
        BY <1>4 DEF SnapsAt
      <4>4. SnapsAt(u, k.pos) = {u[i] : i \in {i \in 1..n : {u[i].pos} = k.pos}}
        BY <1>3 DEF SnapsAt
      <4>5. CASE k.pos = {pos}
        <5>1. {i \in 1..n + 1 : {r[i].pos} = k.pos} = {n + 1}
          <6>1. n + 1 \in 1..n + 1 /\ r[n + 1].pos = pos
            BY <1>1, <1>4, <1>6
          <6>2. \A i \in 1..n + 1 : {r[i].pos} = k.pos <=> i = n + 1
            BY <4>1, <4>2, <4>5, <6>1
          <6> QED
            BY <6>1, <6>2
        <5>2. {r[i] : i \in {n + 1}} = {r[n + 1]}
          OBVIOUS
        <5>3. SnapsAt(r, k.pos) = {snap}
          BY <1>4, <4>3, <5>1, <5>2
        <5> QED
          BY <2>2, <2>4, <3>1, <3>4, <4>5, <5>3
      <4>6. CASE k.pos # {pos}
        <5>1. \A i \in 1..n + 1 : {r[i].pos} = k.pos <=> i \in 1..n /\ {u[i].pos} = k.pos
          <6>1. ASSUME NEW i \in 1..n + 1
                PROVE  {r[i].pos} = k.pos <=> i \in 1..n /\ {u[i].pos} = k.pos
            <7>1. CASE i = n + 1
              BY <1>1, <1>4, <1>6, <4>6, <7>1
            <7>2. CASE i # n + 1
              BY <4>1, <4>2, <7>2
            <7> QED
              BY <7>1, <7>2
          <6> QED
            BY <6>1
        <5>2. \A i \in 1..n : i \in 1..n + 1
          BY <1>1
        <5>3. SnapsAt(r, k.pos) = SnapsAt(u, k.pos)
          BY <4>2, <4>3, <4>4, <5>1, <5>2
        <5> QED
          BY <2>2, <2>4, <3>1, <3>2, <3>4, <4>6, <5>3
      <4> QED
        BY <4>5, <4>6
    <3> QED
      BY <3>3, <3>4
  <2>5. CASE k.table # "snapshot"
    <3>1. k.table = "transcript"
      BY <2>5 DEF Keys
    <3> QED
      BY <2>2, <2>5, <3>1 DEF Recorded
  <2> QED
    BY <2>4, <2>5
<1>14. Described(x, t)
  <2>1. ChangesOnly(x, stopped, t, v)
    BY <1>6, <1>11, <1>12 DEF ChangesOnly
  <2>2. Described(x, stopped)
    BY <1>2 DEF Rewrites
  <2> QED
    BY <1>13, <2>1, <2>2, DescribedStill
<1> QED
  BY <1>11, <1>12, <1>14 DEF Rewrites, t, r

(* Slow deletion takes the newest spans and snapshots of a dead vat. *)
Prefix(s, n, kept, dropped) ==
  /\ Len(kept) = n /\ \A i \in 1..n : kept[i] = s[i]
  /\ dropped = {s[i] : i \in n + 1..Len(s)}

LEMMA KeptIs ==
  ASSUME NEW S, NEW s \in Seq(S), NEW budget \in Nat
  PROVE  /\ Kept(budget, s) \in Seq(S)
         /\ \E n \in 0..Len(s) : Prefix(s, n, Kept(budget, s), ToSet(Dropped(budget, s)))
<1> DEFINE f == FewerOf(budget, s)
           m == Len(s)
           n == m - f
<1>1. f \in 0..m /\ m \in Nat
  BY DEF FewerOf
<1>2. n \in 0..m /\ n \in Nat
  BY <1>1
<1> HIDE DEF f
<1>3. \A i \in 1..n : s[i] \in S
  BY <1>2
<1>4. /\ Kept(budget, s) \in Seq(S) /\ Len(Kept(budget, s)) = n
      /\ \A i \in 1..n : Kept(budget, s)[i] = s[i]
  <2>1. Kept(budget, s) = SubSeq(s, 1, n)
    BY DEF Kept, f
  <2> HIDE DEF n
  <2>2. /\ SubSeq(s, 1, n) \in Seq(S)
        /\ Len(SubSeq(s, 1, n)) = IF 1 <= n THEN n - 1 + 1 ELSE 0
        /\ \A i \in 1..n - 1 + 1 : SubSeq(s, 1, n)[i] = s[1 + i - 1]
    BY <1>2, <1>3, SubSeqProperties
  <2> QED
    BY <1>2, <2>1, <2>2
<1>5. ToSet(Dropped(budget, s)) = {s[i] : i \in n + 1..m}
  <2> DEFINE d == SubSeq(s, n + 1, m)
  <2>1. Dropped(budget, s) = d
    BY DEF Dropped, f
  <2> HIDE DEF n
  <2>2. \A i \in n + 1..m : s[i] \in S
    BY <1>1, <1>2
  <2>3. /\ d \in Seq(S) /\ Len(d) = (IF n + 1 <= m THEN m - (n + 1) + 1 ELSE 0)
        /\ \A i \in 1..m - (n + 1) + 1 : d[i] = s[(n + 1) + i - 1]
    <3> HIDE DEF m
    <3> QED
      BY <1>1, <1>2, <2>2, SubSeqProperties
  <2> HIDE DEF d, m
  <2>4. Len(d) = m - n /\ \A i \in 1..m - n : d[i] = s[n + i]
    BY <1>1, <1>2, <2>3
  <2>5. ToSet(d) = {d[i] : i \in 1..m - n}
    <3>1. DOMAIN d = 1..m - n
      BY <2>3, <2>4
    <3> QED
      BY <3>1 DEF ToSet
  <2>6. \A i \in 1..m - n : n + i \in n + 1..m
    BY <1>1, <1>2
  <2>7. \A j \in n + 1..m : j - n \in 1..m - n /\ n + (j - n) = j
    BY <1>1, <1>2
  <2>8. \A j \in n + 1..m : d[j - n] = s[j]
    BY <2>4, <2>7
  <2>9. ASSUME NEW e
        PROVE  e \in {d[i] : i \in 1..m - n} <=> e \in {s[i] : i \in n + 1..m}
    <3>1. ASSUME NEW i \in 1..m - n, e = d[i]
          PROVE  e \in {s[j] : j \in n + 1..m}
      BY <2>4, <2>6, <3>1
    <3>2. ASSUME NEW j \in n + 1..m, e = s[j]
          PROVE  e \in {d[i] : i \in 1..m - n}
      BY <2>7, <2>8, <3>2
    <3> QED
      BY <3>1, <3>2
  <2> QED
    BY <2>1, <2>5, <2>9
<1>6. Prefix(s, n, Kept(budget, s), ToSet(Dropped(budget, s)))
  BY <1>4, <1>5 DEF Prefix
<1> QED
  BY <1>2, <1>4, <1>6

LEMMA DeleteSnapshotsWrites ==
  ASSUME NEW x, NEW st \in Stores, NEW v \in Vats, NEW budget \in Nat,
         Closed(st.spans[v], st.snaps[v]), Described(x, st)
  PROVE  LET t == DeleteVatSnapshots(st, v, budget)
         IN /\ Rewrites(x, st, t, v, st.spans[v], Kept(budget, st.snaps[v]))
            /\ Closed(t.spans[v], t.snaps[v])
<1> DEFINE p == st.spans[v]
           q == st.snaps[v]
           r == Kept(budget, q)
           gone == ToSet(Dropped(budget, q))
           ks == {Key("snapshot", v, {snap.pos}) : snap \in gone}
           none == {}
           mid == [st EXCEPT !.snaps[v] = r]
           t == DeleteVatSnapshots(st, v, budget)
<1>1. q \in Seq(Snap) /\ Len(q) \in Nat
  BY RowTypes
<1>2. r \in Seq(Snap) /\ \E n \in 0..Len(q) : Prefix(q, n, r, gone)
  <2> HIDE DEF q
  <2> QED
    BY <1>1, KeptIs
<1>3. PICK n \in 0..Len(q) :
        Len(r) = n /\ (\A i \in 1..n : r[i] = q[i]) /\ gone = {q[i] : i \in n + 1..Len(q)}
  BY <1>2 DEF Prefix
<1>4. \A i \in 1..n : i \in 1..Len(q)
  BY <1>1
<1>5. \A i \in n + 1..Len(q) : i \in 1..Len(q)
  BY <1>1
<1>6. \A i \in 1..Len(q) : q[i] \in Snap /\ ~q[i].inUse /\ q[i].pos \in Nat
  <2>1. \A i \in 1..Len(q) : q[i] \in Snap
    BY <1>1
  <2> QED
    BY <2>1 DEF Snap, Closed
<1>7. \A snap \in gone : ~snap.inUse /\ snap.pos \in Nat
  BY <1>3, <1>5, <1>6
<1>8. ks \in SUBSET Keys /\ none \in SUBSET Value /\ \A k \in ks : k.vat = v
  <2> HIDE DEF gone
  <2>1. \A pos \in Nat : Key("snapshot", v, {pos}) \in Keys
    BY KeyTypes
  <2>2. \A pos : Key("snapshot", v, {pos}).vat = v
    BY DEF Key
  <2> QED
    BY <1>7, <2>1, <2>2
<1>9. t = NoteExports(mid, ks, none)
  BY <1>7 DEF DeleteVatSnapshots
<1>10. /\ mid \in Stores /\ mid.spans = st.spans /\ mid.pending = st.pending
       /\ mid.snaps = [st.snaps EXCEPT ![v] = r]
  BY <1>2, WithSnaps
<1> HIDE DEF mid, ks, none, gone, t
<1>11. Notes(mid, t, ks, none)
  BY <1>8, <1>9, <1>10, NoteExportsNotes
<1>12. /\ t \in Stores /\ t.spans = st.spans /\ t.snaps = [st.snaps EXCEPT ![v] = r]
       /\ \A k \in Keys : Noted(x, t.pending, k) =
                            IF k \in ks THEN {} ELSE Noted(x, st.pending, k)
  BY <1>10, <1>11 DEF Notes, none
<1>13. /\ t.spans[v] = p /\ t.snaps[v] = r /\ t.spans = [st.spans EXCEPT ![v] = p]
       /\ \A w \in Vats \ {v} : t.spans[w] = st.spans[w] /\ t.snaps[w] = st.snaps[w]
  BY <1>12 DEF Stores
<1>14. Orderly(p, q) /\ Closed(p, r)
  BY <1>3, <1>4, <1>6 DEF Closed, Orderly
<1> HIDE DEF p, q, r
<1>15. \A i, j \in 1..Len(q) : q[i].pos = q[j].pos => i = j
  <2>1. \A i, j \in 1..Len(q) : i < j => q[i].pos < q[j].pos
    BY <1>14 DEF Orderly
  <2>2. \A i, j \in 1..Len(q) : i < j \/ j < i \/ i = j
    BY <1>1
  <2> QED
    BY <1>6, <2>1, <2>2
<1>16. ~LastInUse(q) /\ ~LastInUse(r)
  <2>1. q # <<>> => Len(q) \in 1..Len(q)
    BY <1>1
  <2>2. r # <<>> => Len(r) \in 1..Len(r)
    BY <1>2
  <2> QED
    BY <1>3, <1>4, <1>6, <2>1, <2>2 DEF LastInUse
<1>17. ASSUME NEW k \in Keys, k.vat = v
       PROVE  DescribedAt(x, t, k)
  <2>1. Noted(x, st.pending, k) = Recorded(p, q, k)
    BY <1>17 DEF Described, DescribedAt, p, q
  <2>2. SUFFICES Recorded(p, r, k) = IF k \in ks THEN {} ELSE Recorded(p, q, k)
    BY <1>12, <1>13, <1>17, <2>1 DEF DescribedAt
  <2>3. k \in ks <=> k.table = "snapshot" /\ \E i \in n + 1..Len(q) : k.pos = {q[i].pos}
    <3>1. \A pos : k = Key("snapshot", v, {pos}) <=> k.table = "snapshot" /\ k.pos = {pos}
      BY <1>17 DEF Key, Keys
    <3>2. k \in ks <=> \E snap \in gone : k = Key("snapshot", v, {snap.pos})
      BY DEF ks
    <3>3. k \in ks <=> \E i \in n + 1..Len(q) : k = Key("snapshot", v, {q[i].pos})
      BY <1>3, <3>2
    <3> QED
      BY <3>1, <3>3
  <2>4. CASE k.table = "snapshot"
    <3>1. /\ Recorded(p, r, k) = IF k.pos # {} THEN SnapsAt(r, k.pos) ELSE {}
          /\ Recorded(p, q, k) = IF k.pos # {} THEN SnapsAt(q, k.pos) ELSE {}
      <4>1. Orderly(p, r)
        BY <1>14 DEF Closed
      <4> QED
        BY <1>1, <1>2, <1>14, <1>16, <2>4, <4>1, RecordedSnaps
    <3>2. SnapsAt(r, k.pos) = {q[i] : i \in {i \in 1..n : {q[i].pos} = k.pos}}
      BY <1>3 DEF SnapsAt
    <3>3. SnapsAt(q, k.pos) = {q[i] : i \in {i \in 1..Len(q) : {q[i].pos} = k.pos}}
      BY DEF SnapsAt
    <3>4. \A i \in 1..Len(q) : i \in 1..n \/ i \in n + 1..Len(q)
      BY <1>1
    <3>5. \A i \in 1..n : i \notin n + 1..Len(q)
      BY <1>1
    <3>6. CASE k \in ks
      <4>1. PICK j \in n + 1..Len(q) : k.pos = {q[j].pos}
        BY <2>3, <3>6
      <4>2. \A i \in 1..n : {q[i].pos} # k.pos
        BY <1>4, <1>5, <1>15, <3>5, <4>1
      <4>3. SnapsAt(r, k.pos) = {}
        BY <3>2, <4>2
      <4> QED
        BY <3>1, <3>6, <4>3
    <3>7. CASE k \notin ks
      <4>1. \A i \in n + 1..Len(q) : {q[i].pos} # k.pos
        BY <2>3, <2>4, <3>7
      <4>2. SnapsAt(r, k.pos) = SnapsAt(q, k.pos)
        BY <1>4, <3>2, <3>3, <3>4, <4>1
      <4> QED
        BY <3>1, <3>7, <4>2
    <3> QED
      BY <3>6, <3>7
  <2>5. CASE k.table # "snapshot"
    <3>1. k.table = "transcript"
      BY <2>5 DEF Keys
    <3> QED
      BY <2>3, <2>5, <3>1 DEF Recorded
  <2> QED
    BY <2>4, <2>5
<1>18. Described(x, t)
  <2>1. ChangesOnly(x, st, t, v)
    BY <1>8, <1>12, <1>13 DEF ChangesOnly
  <2> QED
    BY <1>17, <2>1, DescribedStill
<1> QED
  BY <1>12, <1>13, <1>14, <1>18 DEF Rewrites, p, q, r, t

LEMMA DeleteTranscriptsWrites ==
  ASSUME NEW x, NEW st \in Stores, NEW v \in Vats, NEW budget \in Nat,
         Closed(st.spans[v], st.snaps[v]), Described(x, st)
  PROVE  LET t == DeleteVatTranscripts(st, v, budget)
         IN /\ Rewrites(x, st, t, v, Kept(budget, st.spans[v]), st.snaps[v])
            /\ Closed(t.spans[v], t.snaps[v])
<1> DEFINE p == st.spans[v]
           q == st.snaps[v]
           r == Kept(budget, p)
           gone == ToSet(Dropped(budget, p))
           ks == {SpanKey(v, span) : span \in gone}
           none == {}
           spans == [st.spans EXCEPT ![v] = r]
           mid == [st EXCEPT !.spans = spans]
           t == DeleteVatTranscripts(st, v, budget)
<1>1. p \in Seq(Span) /\ Len(p) \in Nat
  BY RowTypes
<1>2. r \in Seq(Span) /\ \E n \in 0..Len(p) : Prefix(p, n, r, gone)
  <2> HIDE DEF p
  <2> QED
    BY <1>1, KeptIs
<1>3. PICK n \in 0..Len(p) :
        Len(r) = n /\ (\A i \in 1..n : r[i] = p[i]) /\ gone = {p[i] : i \in n + 1..Len(p)}
  BY <1>2 DEF Prefix
<1>4. \A i \in 1..n : i \in 1..Len(p)
  BY <1>1
<1>5. \A i \in n + 1..Len(p) : i \in 1..Len(p)
  BY <1>1
<1>6. \A i \in 1..Len(p) : p[i] \in Span /\ ~p[i].current /\ p[i].start \in Nat
  <2>1. \A i \in 1..Len(p) : p[i] \in Span
    BY <1>1
  <2> QED
    BY <2>1 DEF Span, Closed
<1>7. \A span \in gone : span \in Span /\ ~span.current
  BY <1>3, <1>5, <1>6
<1>8. ks \in SUBSET Keys /\ none \in SUBSET Value /\ \A k \in ks : k.vat = v
  <2> HIDE DEF gone
  <2>1. \A span \in Span : SpanKey(v, span) \in Keys
    BY KeyTypes
  <2>2. \A span : SpanKey(v, span).vat = v
    BY DEF SpanKey, Key
  <2> QED
    BY <1>7, <2>1, <2>2
<1>9. t = NoteExports(mid, ks, none)
  BY DEF DeleteVatTranscripts, Stores
<1>10. /\ mid \in Stores /\ mid.spans = spans /\ mid.pending = st.pending /\ mid.snaps = st.snaps
  <2>1. spans \in [Vats -> Seq(Span)]
    <3>1. st.spans \in [Vats -> Seq(Span)]
      BY DEF Stores
    <3> QED
      BY <1>2, <3>1
  <2> HIDE DEF spans
  <2> QED
    BY <2>1 DEF Stores
<1> HIDE DEF mid, ks, none, gone, t
<1>11. Notes(mid, t, ks, none)
  BY <1>8, <1>9, <1>10, NoteExportsNotes
<1>12. /\ t \in Stores /\ t.snaps = st.snaps /\ t.spans = [st.spans EXCEPT ![v] = r]
       /\ \A k \in Keys : Noted(x, t.pending, k) =
                            IF k \in ks THEN {} ELSE Noted(x, st.pending, k)
  BY <1>10, <1>11 DEF Notes, none
<1>13. /\ t.spans[v] = r /\ t.snaps[v] = q /\ t.snaps = [st.snaps EXCEPT ![v] = q]
       /\ \A w \in Vats \ {v} : t.spans[w] = st.spans[w] /\ t.snaps[w] = st.snaps[w]
  BY <1>12 DEF Stores
<1>14. Orderly(p, q) /\ Closed(r, q)
  BY <1>3, <1>4, <1>6 DEF Closed, Orderly
<1> HIDE DEF p, q, r
<1>15. \A i, j \in 1..Len(p) : p[i].start = p[j].start => i = j
  <2>1. \A i, j \in 1..Len(p) : i < j => p[i].start < p[j].start
    BY <1>14 DEF Orderly
  <2>2. \A i, j \in 1..Len(p) : i < j \/ j < i \/ i = j
    BY <1>1
  <2> QED
    BY <1>6, <2>1, <2>2
<1>16. ASSUME NEW k \in Keys, k.vat = v
       PROVE  DescribedAt(x, t, k)
  <2>1. Noted(x, st.pending, k) = Recorded(p, q, k)
    BY <1>16 DEF Described, DescribedAt, p, q
  <2>2. SUFFICES Recorded(r, q, k) = IF k \in ks THEN {} ELSE Recorded(p, q, k)
    BY <1>12, <1>13, <1>16, <2>1 DEF DescribedAt
  <2>3. k \in ks <=> k.table = "transcript" /\ \E i \in n + 1..Len(p) : k.pos = {p[i].start}
    <3>1. \A i \in n + 1..Len(p) :
            k = SpanKey(v, p[i]) <=> k.table = "transcript" /\ k.pos = {p[i].start}
      BY <1>5, <1>6, <1>16 DEF Key, Keys, SpanKey
    <3>2. k \in ks <=> \E span \in gone : k = SpanKey(v, span)
      BY DEF ks
    <3>3. k \in ks <=> \E i \in n + 1..Len(p) : k = SpanKey(v, p[i])
      BY <1>3, <3>2
    <3> QED
      BY <3>1, <3>3
  <2>4. CASE k.table = "transcript"
    <3>1. /\ Recorded(r, q, k) = SpansAt(r, Len(r), k.pos)
          /\ Recorded(p, q, k) = SpansAt(p, Len(p), k.pos)
      <4>1. (\A i \in 1..Len(r) : ~r[i].current) /\ (\A i \in 1..Len(p) : ~p[i].current)
        BY <1>3, <1>4, <1>6
      <4> QED
        BY <1>1, <1>2, <2>4, <4>1, RecordedSpans
    <3>2. SpansAt(r, Len(r), k.pos) = {p[i] : i \in {i \in 1..n : {p[i].start} = k.pos}}
      BY <1>3 DEF SpansAt
    <3>3. SpansAt(p, Len(p), k.pos) = {p[i] : i \in {i \in 1..Len(p) : {p[i].start} = k.pos}}
      BY DEF SpansAt
    <3>4. \A i \in 1..Len(p) : i \in 1..n \/ i \in n + 1..Len(p)
      BY <1>1
    <3>5. \A i \in 1..n : i \notin n + 1..Len(p)
      BY <1>1
    <3>6. CASE k \in ks
      <4>1. PICK j \in n + 1..Len(p) : k.pos = {p[j].start}
        BY <2>3, <3>6
      <4>2. \A i \in 1..n : {p[i].start} # k.pos
        BY <1>4, <1>5, <1>15, <3>5, <4>1
      <4>3. SpansAt(r, Len(r), k.pos) = {}
        BY <3>2, <4>2
      <4> QED
        BY <3>1, <3>6, <4>3
    <3>7. CASE k \notin ks
      <4>1. \A i \in n + 1..Len(p) : {p[i].start} # k.pos
        BY <2>3, <2>4, <3>7
      <4>2. SpansAt(r, Len(r), k.pos) = SpansAt(p, Len(p), k.pos)
        BY <1>4, <3>2, <3>3, <3>4, <4>1
      <4> QED
        BY <3>1, <3>7, <4>2
    <3> QED
      BY <3>6, <3>7
  <2>5. CASE k.table # "transcript"
    BY <2>3, <2>5 DEF Recorded
  <2> QED
    BY <2>4, <2>5
<1>17. Described(x, t)
  <2>1. ChangesOnly(x, st, t, v)
    BY <1>8, <1>12, <1>13 DEF ChangesOnly
  <2> QED
    BY <1>16, <2>1, DescribedStill
<1> QED
  BY <1>12, <1>13, <1>14, <1>17 DEF Rewrites, p, q, r, t

-----------------------------------------------------------------------------
(* The host's copy describes the database when the changes noted since do. *)

LEMMA FlushedDescribes ==
  ASSUME NEW x, DOMAIN x \subseteq Keys, NEW st \in Stores, Described(x, st)
  PROVE  /\ DOMAIN FlushedExports(x, st) \subseteq Keys
         /\ Described(FlushedExports(x, st), [st EXCEPT !.pending = <<>>])
<1> DEFINE y == FlushedExports(x, st)
           Of(k) == IF k \in DOMAIN st.pending THEN st.pending[k] ELSE x[k]
           dom == {k \in DOMAIN st.pending \cup DOMAIN x : Of(k) # {}}
           none == <<>>
           t == [st EXCEPT !.pending = none]
<1>1. DOMAIN st.pending \subseteq Keys
  <2>1. st.pending \in Changes
    BY DEF Stores
  <2> QED
    BY <2>1 DEF Changes
<1>2. y = [k \in dom |-> Of(k)]
  BY DEF FlushedExports
<1>3. DOMAIN y = dom /\ \A k \in dom : y[k] = Of(k)
  BY <1>2
<1>4. dom \subseteq Keys
  BY <1>1
<1>5. DOMAIN none = {}
  OBVIOUS
<1>6. \A k \in Keys : Noted(y, none, k) = Noted(x, st.pending, k)
  <2> HIDE DEF y, none
  <2> QED
    BY <1>3, <1>5 DEF Noted
<1> HIDE DEF y, none
<1>7. t.pending = none /\ t.spans = st.spans /\ t.snaps = st.snaps
  BY DEF Stores
<1>8. Described(y, t)
  BY <1>6, <1>7 DEF Described, DescribedAt
<1> QED
  BY <1>3, <1>4, <1>8 DEF y, none

LEMMA FlushedIsRecords ==
  ASSUME NEW x, DOMAIN x \subseteq Keys, NEW st \in Stores, Described(x, st),
         \A v \in Vats : Orderly(st.spans[v], st.snaps[v])
  PROVE  FlushedExports(x, st) = ExportRecords(st)
<1> DEFINE Of(k) == IF k \in DOMAIN st.pending THEN st.pending[k] ELSE x[k]
           dom == {k \in DOMAIN st.pending \cup DOMAIN x : Of(k) # {}}
           spanKeys == UNION {{SpanKey(v, st.spans[v][i]) : i \in DOMAIN st.spans[v]} :
                              v \in DOMAIN st.spans}
           snapKeys == UNION {{Key("snapshot", v, {st.snaps[v][i].pos}) : i \in DOMAIN st.snaps[v]} :
                              v \in DOMAIN st.snaps}
           inUseKeys == {Key("snapshot", v, {}) :
                         v \in {v \in DOMAIN st.snaps : SnapshotInUse(st, v) # {}}}
           ks == spanKeys \cup snapKeys \cup inUseKeys
           At(k) == IF k \in inUseKeys
                    THEN {[pos |-> st.snaps[k.vat][i].pos] : i \in SnapshotInUse(st, k.vat)}
                    ELSE IF k.table = "snapshot"
                    THEN {s \in ToSet(st.snaps[k.vat]) : {s.pos} = k.pos}
                    ELSE {s \in ToSet(st.spans[k.vat]) : SpanKey(k.vat, s) = k}
           Rec(k) == Recorded(st.spans[k.vat], st.snaps[k.vat], k)
           SnapKey(v, i) == Key("snapshot", v, {st.snaps[v][i].pos})
<1>1. DOMAIN st.pending \subseteq Keys /\ DOMAIN st.spans = Vats /\ DOMAIN st.snaps = Vats
  <2>1. st.pending \in Changes
    BY DEF Stores
  <2> QED
    BY <2>1 DEF Changes, Stores
<1>2. FlushedExports(x, st) = [k \in dom |-> Of(k)]
  BY DEF FlushedExports
<1>3. ExportRecords(st) = [k \in ks |-> At(k)]
  BY DEF ExportRecords
<1>4. dom \subseteq Keys /\ \A k \in Keys : k \in dom <=> Noted(x, st.pending, k) # {}
  BY <1>1 DEF Noted
<1>5. \A k \in dom : Of(k) = Noted(x, st.pending, k)
  BY <1>1 DEF Noted
<1>6. \A k \in Keys : Noted(x, st.pending, k) = Rec(k)
  BY DEF Described, DescribedAt
<1> HIDE DEF dom
<1>7. ASSUME NEW v \in Vats
      PROVE  /\ \A i \in DOMAIN st.spans[v] :
                  st.spans[v][i] \in Span /\ SpanKey(v, st.spans[v][i]) \in Keys
             /\ \A i \in DOMAIN st.snaps[v] : /\ st.snaps[v][i].pos \in Nat
                                              /\ Key("snapshot", v, {st.snaps[v][i].pos}) \in Keys
             /\ Key("snapshot", v, {}) \in Keys
  <2>1. st.spans[v] \in Seq(Span) /\ st.snaps[v] \in Seq(Snap)
    BY RowTypes
  <2>2. \A i \in DOMAIN st.spans[v] : st.spans[v][i] \in Span
    BY <2>1
  <2>3. \A i \in DOMAIN st.snaps[v] : st.snaps[v][i] \in Snap
    BY <2>1
  <2>4. \A i \in DOMAIN st.snaps[v] : st.snaps[v][i].pos \in Nat
    BY <2>3 DEF Snap
  <2> QED
    BY <2>2, <2>4, KeyTypes
<1>8. \A k : k \in snapKeys <=> \E w \in Vats : \E i \in DOMAIN st.snaps[w] : k = SnapKey(w, i)
  <2>1. snapKeys = UNION {{SnapKey(v, i) : i \in DOMAIN st.snaps[v]} : v \in DOMAIN st.snaps}
    OBVIOUS
  <2> HIDE DEF SnapKey, snapKeys
  <2> QED
    BY <1>1, <2>1
<1>9. ks \subseteq Keys
  <2>1. spanKeys \subseteq Keys
    BY <1>1, <1>7
  <2>2. snapKeys \subseteq Keys
    <3>1. \A w \in Vats : \A i \in DOMAIN st.snaps[w] : SnapKey(w, i) \in Keys
      BY <1>7
    <3> HIDE DEF SnapKey, snapKeys
    <3> QED
      BY <1>8, <3>1
  <2>3. inUseKeys \subseteq Keys
    BY <1>1, <1>7
  <2> HIDE DEF spanKeys, snapKeys, inUseKeys
  <2> QED
    BY <2>1, <2>2, <2>3
<1>10. ASSUME NEW k \in Keys
       PROVE  (k \in ks <=> Rec(k) # {}) /\ (k \in ks => At(k) = Rec(k))
  <2> DEFINE v == k.vat
             p == st.spans[v]
             q == st.snaps[v]
  <2>1. v \in Vats /\ \A table, w, pos : k = Key(table, w, pos) <=>
                                           k.table = table /\ w = v /\ k.pos = pos
    BY DEF Keys, Key
  <2>2. /\ k \in spanKeys <=> \E i \in DOMAIN p : SpanKey(v, p[i]) = k
        /\ k \in snapKeys <=> k.table = "snapshot" /\ \E i \in DOMAIN q : {q[i].pos} = k.pos
        /\ k \in inUseKeys <=> k.table = "snapshot" /\ k.pos = {} /\ SnapshotInUse(st, v) # {}
    <3>1. k \in spanKeys <=> \E i \in DOMAIN p : SpanKey(v, p[i]) = k
      <4>1. \A w \in Vats : \A i \in DOMAIN st.spans[w] : SpanKey(w, st.spans[w][i]) = k => w = v
        BY <2>1 DEF SpanKey
      <4> QED
        BY <1>1, <2>1, <4>1
    <3>2. k \in snapKeys <=> k.table = "snapshot" /\ \E i \in DOMAIN q : {q[i].pos} = k.pos
      <4>1. \A w \in Vats : \A i \in DOMAIN st.snaps[w] :
              k = Key("snapshot", w, {st.snaps[w][i].pos}) <=>
                w = v /\ k.table = "snapshot" /\ {st.snaps[w][i].pos} = k.pos
        BY <2>1
      <4>2. k \in snapKeys <=> \E w \in Vats : \E i \in DOMAIN st.snaps[w] :
                                 k = Key("snapshot", w, {st.snaps[w][i].pos})
        <5>1. k \in snapKeys <=> \E w \in Vats : \E i \in DOMAIN st.snaps[w] : k = SnapKey(w, i)
          BY <1>8
        <5> HIDE DEF snapKeys
        <5> QED
          BY <5>1
      <4> HIDE DEF snapKeys
      <4>3. ASSUME k \in snapKeys
            PROVE  k.table = "snapshot" /\ \E i \in DOMAIN q : {q[i].pos} = k.pos
        <5>1. PICK w \in Vats : \E i \in DOMAIN st.snaps[w] :
                                  k = Key("snapshot", w, {st.snaps[w][i].pos})
          BY <4>2, <4>3
        <5>2. PICK i \in DOMAIN st.snaps[w] : k = Key("snapshot", w, {st.snaps[w][i].pos})
          BY <5>1
        <5>3. w = v /\ k.table = "snapshot" /\ {st.snaps[w][i].pos} = k.pos
          BY <4>1, <5>2
        <5> QED
          BY <5>3
      <4>4. ASSUME k.table = "snapshot", NEW i \in DOMAIN q, {q[i].pos} = k.pos
            PROVE  k \in snapKeys
        <5>1. k = Key("snapshot", v, {st.snaps[v][i].pos})
          BY <2>1, <4>1, <4>4
        <5> QED
          BY <2>1, <4>2, <5>1
      <4> QED
        BY <4>3, <4>4
    <3>3. k \in inUseKeys <=> k.table = "snapshot" /\ k.pos = {} /\ SnapshotInUse(st, v) # {}
      BY <1>1, <2>1
    <3> QED
      BY <3>1, <3>2, <3>3
  <2>3. ToSet(p) = {p[i] : i \in DOMAIN p} /\ ToSet(q) = {q[i] : i \in DOMAIN q}
    BY DEF ToSet
  <2>4. SnapshotInUse(st, v) = {i \in DOMAIN q : q[i].inUse}
    BY DEF SnapshotInUse
  <2> HIDE DEF spanKeys, snapKeys, inUseKeys, p, q
  <2>5. CASE k.table = "transcript"
    <3>1. Rec(k) = {span \in ToSet(p) : SpanKey(v, span) = k} /\ At(k) = Rec(k)
      BY <2>2, <2>5 DEF Recorded, p
    <3>2. Rec(k) # {} <=> \E i \in DOMAIN p : SpanKey(v, p[i]) = k
      BY <2>3, <3>1
    <3> QED
      BY <2>2, <2>5, <3>1, <3>2
  <2>6. CASE k.table = "snapshot" /\ k.pos = {}
    <3>1. Rec(k) = {[pos |-> q[i].pos] : i \in SnapshotInUse(st, v)}
      BY <2>4, <2>6 DEF Recorded, q
    <3>2. k \notin spanKeys /\ k \notin snapKeys
      <4>1. \A span : SpanKey(v, span).table = "transcript"
        BY DEF SpanKey, Key
      <4> QED
        BY <2>2, <2>6, <4>1
    <3>3. k \in inUseKeys => At(k) = Rec(k)
      BY <3>1 DEF q
    <3>4. k \in ks <=> k \in inUseKeys
      BY <3>2
    <3>5. k \in inUseKeys <=> SnapshotInUse(st, v) # {}
      BY <2>2, <2>6
    <3>6. Rec(k) # {} <=> SnapshotInUse(st, v) # {}
      BY <3>1
    <3> HIDE DEF At, ks, Rec
    <3> QED
      BY <3>3, <3>4, <3>5, <3>6
  <2>7. CASE k.table = "snapshot" /\ k.pos # {}
    <3>1. Rec(k) = {s \in ToSet(q) : {s.pos} = k.pos}
      BY <2>7 DEF Recorded, q
    <3>2. k \notin spanKeys /\ k \notin inUseKeys
      <4>1. \A span : SpanKey(v, span).table = "transcript"
        BY DEF SpanKey, Key
      <4> QED
        BY <2>2, <2>7, <4>1
    <3>3. At(k) = Rec(k)
      BY <2>7, <3>1, <3>2 DEF q
    <3>4. Rec(k) # {} <=> \E i \in DOMAIN q : {q[i].pos} = k.pos
      BY <2>3, <3>1
    <3> QED
      BY <2>2, <2>7, <3>2, <3>3, <3>4
  <2> QED
    BY <2>5, <2>6, <2>7 DEF Keys
<1> HIDE DEF ks, At, Of, Rec
<1>11. ks = dom
  BY <1>4, <1>6, <1>9, <1>10
<1>12. \A k \in dom : At(k) = Of(k)
  BY <1>4, <1>5, <1>6, <1>10, <1>11
<1> QED
  BY <1>2, <1>3, <1>11, <1>12

-----------------------------------------------------------------------------
(* The recently used vats. *)

Distinct(s) == \A i, j \in 1..Len(s) : s[i] = s[j] => i = j
Within(s, S) == \A i \in 1..Len(s) : s[i] \in S

LEMMA RemovedIs ==
  ASSUME NEW s \in Seq(Vats), Distinct(s), NEW e, NEW S, Within(s, S)
  PROVE  LET r == Without(s, e)
         IN r \in Seq(Vats) /\ Distinct(r) /\ Within(r, S \ {e})
<1> DEFINE r == Without(s, e)
<1>1. CASE \E i \in 1..Len(s) : s[i] = e
  <2>1. PICK k \in 1..Len(s) : s[k] = e
    BY <1>1
  <2>2. {i \in 1..Len(s) : s[i] = e} = {k}
    BY <2>1 DEF Distinct
  <2>3. {i \in DOMAIN s : s[i] = e} = {k}
    BY <2>2
  <2> DEFINE n == Len(s)
             a == SubSeq(s, 1, k - 1)
             b == SubSeq(s, k + 1, n)
  <2>4. r = a \o b
    BY <2>3 DEF Without, RemoveAt
  <2>5. n \in Nat /\ k \in 1..n /\ \A i \in 1..n : s[i] \in Vats
    BY <2>1
  <2> HIDE DEF r, n
  <2>6. a \in Seq(Vats) /\ Len(a) = k - 1 /\ \A i \in 1..k - 1 : a[i] = s[i]
    <3>1. 1 \in Int /\ k - 1 \in Int /\ \A i \in 1..k - 1 : s[i] \in Vats
      BY <2>5
    <3>2. /\ a \in Seq(Vats) /\ Len(a) = IF 1 <= k - 1 THEN (k - 1) - 1 + 1 ELSE 0
          /\ \A i \in 1..(k - 1) - 1 + 1 : a[i] = s[1 + i - 1]
      <4> DEFINE m == k - 1
      <4> HIDE DEF m
      <4> QED
        BY <3>1, SubSeqProperties DEF m
    <3> HIDE DEF a
    <3> QED
      BY <2>5, <3>2
  <2>7. b \in Seq(Vats) /\ Len(b) = n - k /\ \A i \in 1..n - k : b[i] = s[k + i]
    <3>1. k + 1 \in Int /\ n \in Int /\ \A i \in k + 1..n : s[i] \in Vats
      BY <2>5
    <3>2. /\ b \in Seq(Vats) /\ Len(b) = IF k + 1 <= n THEN n - (k + 1) + 1 ELSE 0
          /\ \A i \in 1..n - (k + 1) + 1 : b[i] = s[(k + 1) + i - 1]
      <4> DEFINE m == k + 1
      <4> HIDE DEF m
      <4> QED
        BY <3>1, SubSeqProperties DEF m
    <3> HIDE DEF b
    <3> QED
      BY <2>5, <3>2
  <2> HIDE DEF a, b
  <2>8. /\ r \in Seq(Vats) /\ Len(r) = n - 1
        /\ \A i \in 1..n - 1 : r[i] = IF i < k THEN s[i] ELSE s[i + 1]
    <3>1. /\ r \in Seq(Vats) /\ Len(r) = Len(a) + Len(b)
          /\ \A i \in 1..Len(a) + Len(b) : r[i] = IF i <= Len(a) THEN a[i] ELSE b[i - Len(a)]
      BY <2>4, <2>6, <2>7, ConcatProperties
    <3>2. Len(a) + Len(b) = n - 1
      BY <2>5, <2>6, <2>7
    <3>3. ASSUME NEW i \in 1..n - 1
          PROVE  r[i] = IF i < k THEN s[i] ELSE s[i + 1]
      <4>1. CASE i < k
        <5>1. i \in 1..k - 1 /\ i <= k - 1
          BY <2>5, <4>1
        <5> QED
          BY <2>6, <3>1, <3>2, <4>1, <5>1
      <4>2. CASE ~(i < k)
        <5>1. i - (k - 1) \in 1..n - k /\ ~(i <= k - 1) /\ k + (i - (k - 1)) = i + 1
          BY <2>5, <4>2
        <5>2. r[i] = b[i - (k - 1)]
          BY <2>6, <3>1, <3>2, <5>1
        <5>3. b[i - (k - 1)] = s[k + (i - (k - 1))]
          BY <2>7, <5>1
        <5> QED
          BY <4>2, <5>1, <5>2, <5>3
      <4> QED
        BY <4>1, <4>2
    <3> QED
      BY <3>1, <3>2, <3>3
  <2> DEFINE at(i) == IF i < k THEN i ELSE i + 1
  <2>9. \A i \in 1..n - 1 : at(i) \in 1..n /\ at(i) # k /\ r[i] = s[at(i)]
    BY <2>5, <2>8
  <2>10. \A i, j \in 1..n - 1 : at(i) = at(j) => i = j
    BY <2>5
  <2> HIDE DEF at
  <2>11. \A i, j \in 1..n : s[i] = s[j] => i = j
    BY DEF Distinct, n
  <2>12. Distinct(r)
    BY <2>8, <2>9, <2>10, <2>11 DEF Distinct
  <2>13. \A i \in 1..n : s[i] \in S
    BY DEF Within, n
  <2>14. ASSUME NEW i \in 1..n - 1
         PROVE  r[i] \in S \ {e}
    <3>1. at(i) \in 1..n /\ at(i) # k /\ r[i] = s[at(i)]
      BY <2>9
    <3>2. s[at(i)] # e
      BY <2>1, <2>5, <2>11, <3>1
    <3> QED
      BY <2>13, <3>1, <3>2
  <2>15. Within(r, S \ {e})
    BY <2>8, <2>14 DEF Within
  <2> QED
    BY <2>8, <2>12, <2>15 DEF r
<1>2. CASE ~\E i \in 1..Len(s) : s[i] = e
  <2>1. r = s
    BY <1>2 DEF Without
  <2> HIDE DEF r
  <2> QED
    BY <1>2, <2>1 DEF Within, r
<1> QED
  BY <1>1, <1>2

-----------------------------------------------------------------------------
(* The state of a crank: the database and the workers. *)

Dbs == [store : Stores, alive : SUBSET Vats, created : SUBSET Vats, terminated : Seq(Vats),
        reapQueue : Seq(Vats), dirt : [Vats -> Nat], meter : [Meters -> Nat]]
Rams == [online : SUBSET Vats, heap : [Vats -> Seq(Item)], recent : Seq(Vats), failed : BOOLEAN]
States == [db : Dbs, ram : Rams]

(* A database and the export data x that the host was given. *)
DbOK(x, d) ==
  /\ d \in Dbs /\ Described(x, d.store)
  /\ d.alive \subseteq d.created /\ IsFiniteSet(d.alive)
  /\ Within(d.terminated, d.created \ d.alive)
  /\ \A v \in d.alive : Living(d.store.spans[v], d.store.snaps[v])
  /\ \A v \in Vats \ d.alive : Closed(d.store.spans[v], d.store.snaps[v])
  /\ \A v \in Vats \ d.created : d.store.spans[v] = <<>> /\ d.store.snaps[v] = <<>>

(* A worker that is on line can be given the next delivery. *)
Works(s, w) ==
  /\ w \in s.db.alive /\ s.ram.heap[w] = Rebuilt(s.db.store, w)
  /\ CurrentSpan(s.db.store, w).items # <<>>

(* Workers and database agree, except that the vats of R are among the     *)
(* recently used ones before they are on line, and that the workers of W   *)
(* are ahead of a database that was rolled back.                           *)
Sane(x, s) == s \in States /\ DbOK(x, s.db)
Sound(x, s, R, W) ==
  /\ Sane(x, s) /\ ~s.ram.failed
  /\ Distinct(s.ram.recent) /\ Within(s.ram.recent, s.ram.online \cup R)
  /\ \A w \in s.ram.online \ W : Works(s, w)

(* A step that is about v leaves the other vats alone, but may evict them. *)
Moves(s, t, v) ==
  /\ \A w \in Vats \ {v} : /\ t.db.store.spans[w] = s.db.store.spans[w]
                           /\ t.db.store.snaps[w] = s.db.store.snaps[w]
                           /\ w \in t.db.alive <=> w \in s.db.alive
  /\ t.db.meter = s.db.meter
  /\ \A w \in t.ram.online \ {v} : w \in s.ram.online /\ t.ram.heap[w] = s.ram.heap[w]

(* An incarnation's experience only grows. *)
Grows(st, t, v) ==
  LET before == CurrentSpan(st, v).incarnation
      after == CurrentSpan(t, v).incarnation
  IN /\ before <= after
     /\ before = after => IsPrefix(Rebuilt(st, v), Rebuilt(t, v))

Serves(s, t, v) ==
  Moves(s, t, v) /\ t.db.alive = s.db.alive /\ Grows(s.db.store, t.db.store, v)

LEMMA MovesMoves ==
  ASSUME NEW s \in States, NEW t \in States, NEW u \in States, NEW v, Moves(s, t, v), Moves(t, u, v)
  PROVE  Moves(s, u, v)
BY DEF Moves, States, Rams

LEMMA PrefixOfSelf ==
  ASSUME NEW a \in Seq(Item)
  PROVE  IsPrefix(a, a)
BY DEF IsPrefix

LEMMA PrefixOfPrefix ==
  ASSUME NEW a \in Seq(Item), NEW b \in Seq(Item), NEW c \in Seq(Item), IsPrefix(a, b), IsPrefix(b, c)
  PROVE  IsPrefix(a, c)
<1>1. /\ Len(a) \in Nat /\ Len(b) \in Nat /\ Len(c) \in Nat
      /\ Len(a) <= Len(b) /\ Len(b) <= Len(c) /\ Len(a) <= Len(c)
  BY DEF IsPrefix
<1>2. SubSeq(a, 1, Len(a)) = SubSeq(b, 1, Len(a)) /\ SubSeq(b, 1, Len(b)) = SubSeq(c, 1, Len(b))
  BY DEF IsPrefix
<1>3. ASSUME NEW i \in 1..Len(a)
      PROVE  a[i] = c[i]
  <2>1. i \in 1..Len(b)
    BY <1>1
  <2>2. SubSeq(a, 1, Len(a))[i] = a[i] /\ SubSeq(b, 1, Len(a))[i] = b[i]
    BY <1>1
  <2>3. SubSeq(b, 1, Len(b))[i] = b[i] /\ SubSeq(c, 1, Len(b))[i] = c[i]
    BY <1>1, <2>1
  <2> QED
    BY <1>2, <2>2, <2>3
<1>4. SubSeq(a, 1, Len(a)) = SubSeq(c, 1, Len(a))
  BY <1>1, <1>3
<1> QED
  BY <1>1, <1>4 DEF IsPrefix

(* What a replay makes of the rows of a vat. *)
RebuiltOf(p, q) ==
  (IF LastInUse(q) THEN q[Len(q)].heap ELSE <<>>) \o Deliveries(p[Len(p)].items)

LEMMA RebuiltIs ==
  ASSUME NEW st \in Stores, NEW v \in Vats, Open(st.spans[v], st.snaps[v])
  PROVE  /\ Rebuilt(st, v) = RebuiltOf(st.spans[v], st.snaps[v])
         /\ Rebuilt(st, v) \in Seq(Item)
<1> DEFINE p == st.spans[v]
           q == st.snaps[v]
           n == Len(q)
           base == IF LastInUse(q) THEN q[n].heap ELSE <<>>
<1>1. q \in Seq(Snap) /\ p # <<>> /\ Orderly(p, q)
  BY RowTypes DEF Open
<1>2. SnapshotInUse(st, v) = IF LastInUse(q) THEN {n} ELSE {}
  BY <1>1, InUseIs
<1>3. CurrentSpan(st, v) = p[Len(p)] /\ p[Len(p)] \in Span
  BY <1>1, LastSpan
<1>4. Deliveries(p[Len(p)].items) \in Seq(Item)
  <2>1. p[Len(p)].items \in Seq(Item)
    BY <1>3 DEF Span
  <2> QED
    BY <2>1, DeliveriesType
<1>5. base \in Seq(Item)
  <2>1. CASE LastInUse(q)
    <3>1. n \in 1..n
      BY <1>1, <2>1 DEF LastInUse
    <3>2. q[n] \in Snap
      BY <1>1, <3>1
    <3> QED
      BY <2>1, <3>2 DEF Snap
  <2>2. CASE ~LastInUse(q)
    BY <2>2
  <2> QED
    BY <2>1, <2>2
<1>6. Rebuilt(st, v) = base \o Deliveries(p[Len(p)].items)
  <2>1. CASE LastInUse(q)
    <3>1. SnapshotInUse(st, v) # {} /\ (CHOOSE i \in SnapshotInUse(st, v) : TRUE) = n
      <4>1. SnapshotInUse(st, v) = {n}
        BY <1>2, <2>1
      <4> HIDE DEF n
      <4> QED
        BY <4>1
    <3> QED
      BY <1>3, <2>1, <3>1 DEF Rebuilt
  <2>2. CASE ~LastInUse(q)
    <3>1. SnapshotInUse(st, v) = {}
      BY <1>2, <2>2
    <3> QED
      BY <1>3, <2>2, <3>1 DEF Rebuilt
  <2> QED
    BY <2>1, <2>2
<1>7. base \o Deliveries(p[Len(p)].items) \in Seq(Item)
  <2> HIDE DEF base, p, q
  <2> QED
    BY <1>4, <1>5
<1> QED
  BY <1>6, <1>7 DEF RebuiltOf

LEMMA GrowsSame ==
  ASSUME NEW st \in Stores, NEW t \in Stores, NEW v \in Vats, Open(st.spans[v], st.snaps[v]),
         t.spans[v] = st.spans[v], t.snaps[v] = st.snaps[v]
  PROVE  Rebuilt(t, v) = Rebuilt(st, v) /\ Grows(st, t, v)
<1>1. Rebuilt(t, v) = Rebuilt(st, v) /\ CurrentSpan(t, v) = CurrentSpan(st, v)
  BY DEF Rebuilt, CurrentSpan, SnapshotInUse
<1>2. Rebuilt(st, v) \in Seq(Item)
  BY RebuiltIs
<1>3. CurrentSpan(st, v).incarnation \in Nat
  <2>1. CurrentSpan(st, v) \in Span
    BY LastSpan DEF Open
  <2> QED
    BY <2>1 DEF Span
<1>4. IsPrefix(Rebuilt(st, v), Rebuilt(t, v))
  BY <1>1, <1>2, PrefixOfSelf
<1> QED
  BY <1>1, <1>3, <1>4 DEF Grows

LEMMA GrowsGrows ==
  ASSUME NEW st \in Stores, NEW t \in Stores, NEW u \in Stores, NEW v \in Vats,
         Open(st.spans[v], st.snaps[v]), Open(t.spans[v], t.snaps[v]), Open(u.spans[v], u.snaps[v]),
         Grows(st, t, v), Grows(t, u, v)
  PROVE  Grows(st, u, v)
<1>1. ASSUME NEW x \in Stores, Open(x.spans[v], x.snaps[v])
      PROVE  CurrentSpan(x, v).incarnation \in Nat /\ Rebuilt(x, v) \in Seq(Item)
  <2>1. CurrentSpan(x, v) \in Span
    BY <1>1, LastSpan DEF Open
  <2> QED
    BY <1>1, <2>1, RebuiltIs DEF Span
<1>2. /\ CurrentSpan(st, v).incarnation \in Nat /\ Rebuilt(st, v) \in Seq(Item)
      /\ CurrentSpan(t, v).incarnation \in Nat /\ Rebuilt(t, v) \in Seq(Item)
      /\ CurrentSpan(u, v).incarnation \in Nat /\ Rebuilt(u, v) \in Seq(Item)
  BY <1>1
<1>3. /\ CurrentSpan(st, v).incarnation <= CurrentSpan(t, v).incarnation
      /\ CurrentSpan(t, v).incarnation <= CurrentSpan(u, v).incarnation
  BY DEF Grows
<1>4. CurrentSpan(st, v).incarnation <= CurrentSpan(u, v).incarnation
  BY <1>2, <1>3
<1>5. ASSUME CurrentSpan(st, v).incarnation = CurrentSpan(u, v).incarnation
      PROVE  IsPrefix(Rebuilt(st, v), Rebuilt(u, v))
  <2>1. /\ CurrentSpan(st, v).incarnation = CurrentSpan(t, v).incarnation
        /\ CurrentSpan(t, v).incarnation = CurrentSpan(u, v).incarnation
    BY <1>2, <1>3, <1>5
  <2>2. IsPrefix(Rebuilt(st, v), Rebuilt(t, v)) /\ IsPrefix(Rebuilt(t, v), Rebuilt(u, v))
    BY <2>1 DEF Grows
  <2> QED
    BY <1>2, <2>2, PrefixOfPrefix
<1> QED
  BY <1>4, <1>5 DEF Grows

LEMMA ServesServes ==
  ASSUME NEW x, NEW s, NEW t, NEW u, NEW v \in Vats, v \in s.db.alive,
         Sane(x, s), Sane(x, t), Sane(x, u), Serves(s, t, v), Serves(t, u, v)
  PROVE  Serves(s, u, v)
<1>1. /\ s \in States /\ t \in States /\ u \in States /\ Moves(s, u, v)
      /\ u.db.alive = s.db.alive /\ t.db.alive = s.db.alive
  BY MovesMoves DEF Sane, Serves
<1>2. ASSUME NEW d, DbOK(x, d), v \in d.alive
      PROVE  d.store \in Stores /\ Open(d.store.spans[v], d.store.snaps[v])
  BY <1>2 DEF DbOK, Dbs, Living
<1>3. Grows(s.db.store, u.db.store, v)
  BY <1>1, <1>2, GrowsGrows DEF Sane, Serves
<1> QED
  BY <1>1, <1>3 DEF Serves

-----------------------------------------------------------------------------
(* Workers come on line and are evicted. *)

RamOf(online, heap, recent, failed) ==
  [online |-> online, heap |-> heap, recent |-> recent, failed |-> failed]

StateOf(d, online, heap, recent, failed) == [db |-> d, ram |-> RamOf(online, heap, recent, failed)]
WithoutWorker(s, r, o, w) == [s EXCEPT !.ram.recent = r, !.ram.online = o, !.ram.heap[w] = <<>>]

LEMMA RamExcept ==
  ASSUME NEW d, NEW online, NEW heap, NEW recent, NEW failed, NEW o, NEW w, NEW r
  PROVE  WithoutWorker(StateOf(d, online, heap, recent, failed), r, o, w)
           = StateOf(d, o, [heap EXCEPT ![w] = <<>>], r, failed)
<1> DEFINE s == StateOf(d, online, heap, recent, failed)
<1>1. s = [db |-> d, ram |-> RamOf(online, heap, recent, failed)]
  BY DEF StateOf
<1> HIDE DEF s
<1> DEFINE a == [s EXCEPT !.ram.recent = r]
           b == [a EXCEPT !.ram.online = o]
           c == [b EXCEPT !.ram.heap[w] = <<>>]
<1>2. a = [db |-> d, ram |-> RamOf(online, heap, r, failed)]
  BY <1>1 DEF RamOf
<1>3. WithoutWorker(s, r, o, w) = c
  BY DEF WithoutWorker
<1> HIDE DEF a
<1>4. b = [db |-> d, ram |-> RamOf(o, heap, r, failed)]
  BY <1>2 DEF RamOf
<1> HIDE DEF b
<1>5. c = [db |-> d, ram |-> RamOf(o, [heap EXCEPT ![w] = <<>>], r, failed)]
  BY <1>4 DEF RamOf
<1> QED
  BY <1>3, <1>5 DEF s, StateOf

LEMMA StateIs ==
  ASSUME NEW s \in States
  PROVE  s = [db |-> s.db, ram |-> RamOf(s.ram.online, s.ram.heap, s.ram.recent, s.ram.failed)]
BY DEF States, Rams, RamOf

LEMMA FailIs ==
  ASSUME NEW s \in States, NEW unless
  PROVE  Fail(s, unless) = [db |-> s.db, ram |-> RamOf(s.ram.online, s.ram.heap, s.ram.recent,
                                                       s.ram.failed \/ ~unless)]
BY DEF Fail, States, Rams, RamOf

EvictedRam(s, w) ==
  RamOf(s.ram.online \ {w}, [s.ram.heap EXCEPT ![w] = <<>>], Without(s.ram.recent, w),
        s.ram.failed \/ ~Lookup(s, w))

LEMMA EvictIs ==
  ASSUME NEW s \in States, NEW w \in Vats
  PROVE  Evict(s, w) = [db |-> s.db, ram |-> EvictedRam(s, w)]
<1> DEFINE failed == s.ram.failed \/ ~Lookup(s, w)
           f == Fail(s, Lookup(s, w))
<1>1. f = [db |-> s.db, ram |-> RamOf(s.ram.online, s.ram.heap, s.ram.recent, failed)]
  BY FailIs
<1>2. f.ram.recent = s.ram.recent /\ f.ram.online = s.ram.online
  BY <1>1 DEF RamOf
<1>3. Evict(s, w) = [f EXCEPT !.ram.recent = Without(@, w), !.ram.online = @ \ {w},
                              !.ram.heap[w] = <<>>]
  BY DEF Evict
<1> HIDE DEF f, failed
<1> DEFINE r == Without(s.ram.recent, w)
           o == s.ram.online \ {w}
<1>4. Evict(s, w) = WithoutWorker(f, r, o, w)
  BY <1>1, <1>2, <1>3 DEF WithoutWorker
<1> HIDE DEF r, o
<1>5. f = StateOf(s.db, s.ram.online, s.ram.heap, s.ram.recent, failed)
  BY <1>1 DEF StateOf
<1>6. WithoutWorker(f, r, o, w) = StateOf(s.db, o, [s.ram.heap EXCEPT ![w] = <<>>], r, failed)
  BY <1>5, RamExcept
<1> QED
  BY <1>4, <1>6 DEF EvictedRam, StateOf, r, o, failed

Evicted(s, t, w) ==
  /\ t.db = s.db /\ t.ram.online = s.ram.online \ {w}
  /\ \A v \in Vats : Moves(s, t, v)

LEMMA EvictSound ==
  ASSUME NEW x, NEW s, NEW w \in Vats, NEW R, NEW W, Sound(x, s, R, W), Lookup(s, w)
  PROVE  Sound(x, Evict(s, w), R \ {w}, W \ {w}) /\ Evicted(s, Evict(s, w), w)
<1> DEFINE t == Evict(s, w)
           recent == Without(s.ram.recent, w)
<1>1. s \in States /\ s.ram \in Rams /\ s.db \in Dbs
  BY DEF Sound, Sane, States
<1>2. /\ t.db = s.db /\ t.ram.online = s.ram.online \ {w}
      /\ t.ram.heap = [s.ram.heap EXCEPT ![w] = <<>>]
      /\ t.ram.recent = recent
      /\ t.ram.failed = (s.ram.failed \/ ~Lookup(s, w))
      /\ t = [db |-> s.db, ram |-> t.ram]
      /\ t.ram = RamOf(t.ram.online, t.ram.heap, t.ram.recent, t.ram.failed)
  <2>1. t = [db |-> s.db, ram |-> EvictedRam(s, w)]
    BY <1>1, EvictIs
  <2> HIDE DEF t
  <2> QED
    BY <2>1 DEF EvictedRam, RamOf
<1>3. /\ s.ram.recent \in Seq(Vats) /\ s.ram.heap \in [Vats -> Seq(Item)]
      /\ s.ram.online \in SUBSET Vats /\ s.ram.failed = FALSE
  BY <1>1 DEF Rams, Sound
<1>4. recent \in Seq(Vats) /\ Distinct(recent) /\ Within(recent, (s.ram.online \cup R) \ {w})
  BY <1>3, RemovedIs DEF Sound
<1> HIDE DEF t, recent
<1>5. [s.ram.heap EXCEPT ![w] = <<>>] \in [Vats -> Seq(Item)]
  <2>1. <<>> \in Seq(Item)
    OBVIOUS
  <2> QED
    BY <1>3, <2>1
<1>6. t.ram.failed = FALSE
  BY <1>2, <1>3
<1>7. t \in States
  <2>1. t.ram \in Rams
    BY <1>2, <1>3, <1>4, <1>5, <1>6 DEF Rams, RamOf
  <2> QED
    BY <1>1, <1>2, <2>1 DEF States
<1>8. \A u \in t.ram.online : u # w /\ u \in s.ram.online /\ t.ram.heap[u] = s.ram.heap[u]
  BY <1>2, <1>3
<1>9. Within(recent, t.ram.online \cup (R \ {w}))
  BY <1>2, <1>4 DEF Within
<1>10. Sound(x, t, R \ {w}, W \ {w})
  BY <1>2, <1>4, <1>6, <1>7, <1>8, <1>9 DEF Sound, Sane, Works
<1>11. \A v \in Vats : Moves(s, t, v)
  BY <1>2, <1>8 DEF Moves
<1> QED
  BY <1>2, <1>10, <1>11 DEF t, Evicted

LEMMA SoundWider ==
  ASSUME NEW x, NEW s, NEW R, NEW W, NEW R2, NEW W2, Sound(x, s, R, W),
         R \subseteq R2 \cup s.ram.online, W \cap s.ram.online \subseteq W2
  PROVE  Sound(x, s, R2, W2)
BY DEF Sound, Within

LEMMA WithRecent ==
  ASSUME NEW x, NEW s, NEW R, NEW W, Sound(x, s, R, W),
         NEW recent \in Seq(Vats), Distinct(recent), NEW R2, Within(recent, s.ram.online \cup R2)
  PROVE  /\ Sound(x, [s EXCEPT !.ram.recent = recent], R2, W)
         /\ [s EXCEPT !.ram.recent = recent].db = s.db
         /\ [s EXCEPT !.ram.recent = recent].ram.online = s.ram.online
         /\ \A v \in Vats : Moves(s, [s EXCEPT !.ram.recent = recent], v)
<1> DEFINE t == [s EXCEPT !.ram.recent = recent]
<1>1. s \in States /\ s.ram \in Rams
  BY DEF Sound, Sane, States
<1>2. /\ t.db = s.db /\ t.ram.online = s.ram.online /\ t.ram.heap = s.ram.heap
      /\ t.ram.recent = recent /\ t.ram.failed = s.ram.failed /\ t \in States
  BY <1>1 DEF States, Rams
<1> HIDE DEF t
<1>3. Sound(x, t, R2, W)
  BY <1>2 DEF Sound, Sane, Works
<1>4. \A v \in Vats : Moves(s, t, v)
  BY <1>2 DEF Moves
<1> QED
  BY <1>2, <1>3, <1>4 DEF t

LEMMA PolicySound ==
  ASSUME NEW x, NEW s, NEW v \in Vats, NEW W, Sound(x, s, {v}, W), v \in s.db.alive
  PROVE  LET t == ApplyAvailabilityPolicy(s, v)
         IN /\ Sound(x, t, {v}, W) /\ Moves(s, t, v) /\ t.db = s.db
            /\ v \in s.ram.online => v \in t.ram.online
<1> DEFINE recent == s.ram.recent
           others == Without(recent, v)
           items == Append(others, v)
           t == ApplyAvailabilityPolicy(s, v)
           online == s.ram.online
<1>1. recent \in Seq(Vats) /\ Distinct(recent) /\ Within(recent, online \cup {v}) /\ online \subseteq Vats
  BY DEF Sound, Sane, States, Rams
<1>2. others \in Seq(Vats) /\ Distinct(others) /\ Within(others, (online \cup {v}) \ {v})
  BY <1>1, RemovedIs
<1> HIDE DEF recent, others
<1> DEFINE n == Len(others)
<1>3. /\ n \in Nat /\ items \in Seq(Vats) /\ Len(items) = n + 1 /\ items[n + 1] = v
      /\ \A i \in 1..n : items[i] = others[i] /\ others[i] \in online /\ others[i] # v
  <2>1. \A i \in 1..n : others[i] \in online /\ others[i] # v
    BY <1>2 DEF Within
  <2>2. n \in Nat /\ items \in Seq(Vats) /\ Len(items) = n + 1 /\ items[n + 1] = v
        /\ \A i \in 1..n : items[i] = others[i]
    BY <1>2, AppendProperties
  <2> QED
    BY <2>1, <2>2
<1>4. \A i, j \in 1..n : others[i] = others[j] => i = j
  BY <1>2 DEF Distinct
<1>5. t = IF Len(recent) = MaxVatsOnline /\ Last(recent) = v THEN s
          ELSE IF Len(items) <= MaxVatsOnline THEN [s EXCEPT !.ram.recent = items]
          ELSE Evict([s EXCEPT !.ram.recent = Tail(items)], Head(items))
  BY DEF ApplyAvailabilityPolicy, others, recent
<1> HIDE DEF items, n, t
<1>6. \A i \in 1..n + 1 : i = n + 1 \/ i \in 1..n
  BY <1>3
<1>7. Distinct(items) /\ Within(items, online \cup {v})
  <2>1. ASSUME NEW i \in 1..n + 1, NEW j \in 1..n + 1, items[i] = items[j]
        PROVE  i = j
    BY <1>3, <1>4, <1>6, <2>1
  <2> QED
    BY <1>3, <1>6, <2>1 DEF Distinct, Within
<1>8. CASE t = s
  <2>1. Moves(s, s, v)
    BY DEF Moves
  <2> QED
    BY <1>8, <2>1 DEF t
<1>9. CASE t = [s EXCEPT !.ram.recent = items]
  <2> DEFINE u == [s EXCEPT !.ram.recent = items]
  <2>1. Sound(x, u, {v}, W) /\ u.db = s.db /\ u.ram.online = s.ram.online /\ Moves(s, u, v)
    BY <1>3, <1>7, WithRecent
  <2> HIDE DEF u
  <2>2. t = u
    BY <1>9 DEF u
  <2> QED
    BY <2>1, <2>2 DEF t
<1>10. CASE ~(Len(items) <= MaxVatsOnline) /\ t = Evict([s EXCEPT !.ram.recent = Tail(items)], Head(items))
  <2>1. n >= 1
    BY <1>3, <1>10, LimitsAssumption
  <2> DEFINE h == Head(items)
             rest == Tail(items)
             u == [s EXCEPT !.ram.recent = rest]
  <2>2. h = items[1] /\ h \in online /\ h # v /\ h \in Vats
    <3>1. 1 \in 1..n /\ items # <<>>
      BY <1>3, <2>1
    <3> QED
      BY <1>1, <1>3, <3>1
  <2>3. /\ rest \in Seq(Vats) /\ Len(rest) = n
        /\ \A i \in 1..n : rest[i] = items[i + 1] /\ i + 1 \in 1..n + 1
    BY <1>3
  <2> HIDE DEF h, rest
  <2>4. Distinct(rest) /\ Within(rest, online \cup {v})
    <3>1. \A i, j \in 1..n + 1 : items[i] = items[j] => i = j
      BY <1>3, <1>7 DEF Distinct
    <3>2. ASSUME NEW i \in 1..n, NEW j \in 1..n, rest[i] = rest[j]
          PROVE  i = j
      <4>1. i + 1 = j + 1
        BY <2>3, <3>1, <3>2
      <4> QED
        BY <1>3, <4>1
    <3>3. \A i \in 1..n + 1 : items[i] \in online \cup {v}
      BY <1>3, <1>7 DEF Within
    <3> QED
      BY <2>3, <3>2, <3>3 DEF Distinct, Within
  <2>5. Sound(x, u, {v}, W) /\ u.db = s.db /\ u.ram.online = online /\ Moves(s, u, v)
    BY <2>3, <2>4, WithRecent
  <2> HIDE DEF u
  <2>6. Lookup(u, h)
    BY <2>2, <2>5 DEF Lookup
  <2> DEFINE e == Evict(u, h)
  <2>7. /\ Sound(x, e, {v} \ {h}, W \ {h}) /\ e.db = u.db /\ e.ram.online = u.ram.online \ {h}
        /\ Moves(u, e, v)
    <3> HIDE DEF online
    <3>1. v \in Vats
      OBVIOUS
    <3> DEFINE R == {v}
    <3>2. Sound(x, u, R, W)
      BY <2>5
    <3> HIDE DEF R
    <3>3. Sound(x, Evict(u, h), R \ {h}, W \ {h}) /\ Evicted(u, Evict(u, h), h)
      BY <2>2, <2>6, <3>2, EvictSound
    <3> QED
      BY <3>1, <3>3 DEF R, Evicted
  <2>8. t = e
    BY <1>10 DEF h, rest, u
  <2> HIDE DEF e
  <2>9. Sound(x, e, {v}, W)
    BY <2>7, SoundWider
  <2>10. Moves(s, e, v)
    BY <2>5, <2>7, MovesMoves DEF Sound, Sane
  <2> QED
    BY <2>2, <2>5, <2>7, <2>8, <2>9, <2>10 DEF t
<1> QED
  BY <1>5, <1>8, <1>9, <1>10

(* A step that rewrites the rows of v, and maybe its worker.               *)
Reworks(x, s, t, v, p, q) ==
  /\ t \in States /\ Rewrites(x, s.db.store, t.db.store, v, p, q)
  /\ t.db.alive = s.db.alive /\ t.db.created = s.db.created
  /\ t.db.terminated = s.db.terminated /\ t.db.meter = s.db.meter
  /\ t.ram.recent = s.ram.recent /\ t.ram.failed = s.ram.failed
  /\ s.ram.online \subseteq t.ram.online
  /\ \A w \in t.ram.online \ {v} : w \in s.ram.online /\ t.ram.heap[w] = s.ram.heap[w]

LEMMA ReworksSound ==
  ASSUME NEW x, NEW s, NEW t, NEW v \in Vats, NEW p, NEW q, NEW R, Sound(x, s, R, {}),
         v \in s.db.alive, Reworks(x, s, t, v, p, q), Living(p, q),
         v \in t.ram.online => Works(t, v)
  PROVE  Sound(x, t, R, {}) /\ Moves(s, t, v) /\ t.db.alive = s.db.alive
<1>1. s.db.store \in Stores /\ s.db \in Dbs /\ t.db \in Dbs /\ DbOK(x, s.db)
  BY DEF Sound, Sane, States, Dbs, Reworks
<1>2. /\ t.db.store.spans[v] = p /\ t.db.store.snaps[v] = q
      /\ \A w \in Vats \ {v} : /\ t.db.store.spans[w] = s.db.store.spans[w]
                               /\ t.db.store.snaps[w] = s.db.store.snaps[w]
  <2> DEFINE st == s.db.store
             u == t.db.store
  <2>1. st \in Stores /\ Rewrites(x, st, u, v, p, q)
    BY <1>1 DEF Reworks
  <2> HIDE DEF st, u
  <2>2. /\ u.spans[v] = p /\ u.snaps[v] = q
        /\ \A w \in Vats \ {v} : u.spans[w] = st.spans[w] /\ u.snaps[w] = st.snaps[w]
    BY <2>1, RewritesRows
  <2> QED
    BY <2>2 DEF st, u
<1>3. Described(x, t.db.store)
  BY DEF Reworks, Rewrites
<1>4. /\ t.db.alive = s.db.alive /\ t.db.created = s.db.created
      /\ t.db.terminated = s.db.terminated /\ v \in s.db.created
  BY <1>1 DEF Reworks, DbOK
<1>5. DbOK(x, t.db)
  <2>1. \A w \in t.db.alive : Living(t.db.store.spans[w], t.db.store.snaps[w])
    BY <1>1, <1>2, <1>4 DEF DbOK, Dbs
  <2>2. \A w \in Vats \ t.db.alive : Closed(t.db.store.spans[w], t.db.store.snaps[w])
    BY <1>1, <1>2, <1>4 DEF DbOK
  <2>3. \A w \in Vats \ t.db.created : t.db.store.spans[w] = <<>> /\ t.db.store.snaps[w] = <<>>
    BY <1>1, <1>2, <1>4 DEF DbOK
  <2> QED
    BY <1>1, <1>3, <1>4, <2>1, <2>2, <2>3 DEF DbOK
<1>6. \A w \in t.ram.online : Works(t, w)
  <2> SUFFICES ASSUME NEW w \in t.ram.online, w # v PROVE Works(t, w)
    OBVIOUS
  <2>1. w \in s.ram.online /\ t.ram.heap[w] = s.ram.heap[w]
    BY DEF Reworks
  <2>2. Works(s, w) /\ w \in Vats
    BY <2>1 DEF Sound, Sane, States, Rams
  <2>3. t.db.store.spans[w] = s.db.store.spans[w] /\ t.db.store.snaps[w] = s.db.store.snaps[w]
    BY <1>2, <2>2
  <2>4. /\ Rebuilt(t.db.store, w) = Rebuilt(s.db.store, w)
        /\ CurrentSpan(t.db.store, w) = CurrentSpan(s.db.store, w)
    BY <2>3 DEF Rebuilt, CurrentSpan, SnapshotInUse
  <2> QED
    BY <1>4, <2>1, <2>2, <2>4 DEF Works
<1>7. Sound(x, t, R, {})
  <2>1. Sane(x, t) /\ ~t.ram.failed /\ Distinct(t.ram.recent)
    BY <1>5 DEF Sound, Sane, Reworks
  <2>2. Within(t.ram.recent, t.ram.online \cup R)
    BY DEF Sound, Within, Reworks
  <2> QED
    BY <1>6, <2>1, <2>2 DEF Sound
<1>8. Moves(s, t, v)
  BY <1>2, <1>4 DEF Moves, Reworks
<1> QED
  BY <1>4, <1>7, <1>8

WithWorker(s, st, v, heap) ==
  [s EXCEPT !.db.store = st, !.ram.online = @ \cup {v}, !.ram.heap[v] = heap]

Worked(s, t, st, v, heap) ==
  /\ t \in States /\ t.db = [s.db EXCEPT !.store = st]
  /\ t.ram = RamOf(s.ram.online \cup {v}, [s.ram.heap EXCEPT ![v] = heap],
                   s.ram.recent, s.ram.failed)

LEMMA WithWorkerIs ==
  ASSUME NEW s \in States, NEW st \in Stores, NEW v \in Vats, NEW heap \in Seq(Item)
  PROVE  Worked(s, WithWorker(s, st, v, heap), st, v, heap)
<1> DEFINE t == WithWorker(s, st, v, heap)
           d == [s.db EXCEPT !.store = st]
           o == s.ram.online \cup {v}
           h == [s.ram.heap EXCEPT ![v] = heap]
           a == [s EXCEPT !.db.store = st]
           b == [a EXCEPT !.ram.online = @ \cup {v}]
           c == [b EXCEPT !.ram.heap[v] = heap]
<1>1. s = [db |-> s.db, ram |-> RamOf(s.ram.online, s.ram.heap, s.ram.recent, s.ram.failed)]
  BY StateIs
<1>2. s.ram \in Rams /\ s.db \in Dbs
  BY DEF States
<1>3. d \in Dbs
  BY <1>2 DEF Dbs
<1>4. h \in [Vats -> Seq(Item)] /\ o \in SUBSET Vats
  BY <1>2 DEF Rams
<1>5. t = c
  BY <1>1 DEF WithWorker, RamOf
<1>6. a = [db |-> d, ram |-> RamOf(s.ram.online, s.ram.heap, s.ram.recent, s.ram.failed)]
  BY <1>1
<1> HIDE DEF a, d
<1>7. b = [db |-> d, ram |-> RamOf(o, s.ram.heap, s.ram.recent, s.ram.failed)]
  <2>1. b = [a EXCEPT !.ram.online = o]
    BY <1>6 DEF RamOf
  <2> HIDE DEF b, o
  <2> QED
    BY <1>6, <2>1 DEF RamOf
<1> HIDE DEF b, o
<1>8. c = [db |-> d, ram |-> RamOf(o, h, s.ram.recent, s.ram.failed)]
  BY <1>7 DEF RamOf
<1> HIDE DEF c, h, t
<1>9. RamOf(o, h, s.ram.recent, s.ram.failed) \in Rams
  BY <1>2, <1>4 DEF Rams, RamOf
<1>10. t = [db |-> d, ram |-> RamOf(o, h, s.ram.recent, s.ram.failed)]
  BY <1>5, <1>8
<1>11. t \in States
  BY <1>3, <1>9, <1>10 DEF States
<1> QED
  BY <1>10, <1>11 DEF t, d, o, h, Worked

(* The rows of a vat whose worker is about to start. *)
Inited(p) == IF p[Len(p)].items = <<>> THEN WithItem(p, <<"init", 0>>) ELSE p
InitedStore(st, v) == IF TranscriptSize(st, v) = 0 THEN AddItem(st, v, <<"init", 0>>) ELSE st

LEMMA InitedWrites ==
  ASSUME NEW x, NEW st \in Stores, NEW v \in Vats, Described(x, st),
         Living(st.spans[v], st.snaps[v])
  PROVE  LET p == st.spans[v]
             q == st.snaps[v]
             more == Inited(p)
             last == more[Len(more)]
         IN /\ Rewrites(x, st, InitedStore(st, v), v, more, q)
            /\ Living(more, q) /\ Started(last.items) /\ Len(more) = Len(p)
            /\ last.incarnation = p[Len(p)].incarnation
            /\ Deliveries(last.items) = Deliveries(p[Len(p)].items)
<1> DEFINE p == st.spans[v]
           q == st.snaps[v]
           n == Len(p)
           item == <<"init", 0>>
<1>1. /\ p \in Seq(Span) /\ p # <<>> /\ Open(p, q) /\ n \in 1..n /\ Orderly(p, q)
      /\ Below(q, p[n].start)
  BY RowTypes DEF Living, Open
<1>2. CurrentSpan(st, v) = p[n] /\ p[n] \in Span
  BY <1>1, LastSpan
<1>3. item \in Item /\ ~Real(item)
  BY DEF Item, Kinds, Real
<1>4. p[n].end = p[n].start + Len(p[n].items)
  BY <1>1 DEF Orderly
<1>5. TranscriptSize(st, v) = 0 <=> p[n].items = <<>>
  <2>1. p[n].end \in Nat /\ p[n].start \in Nat /\ p[n].items \in Seq(Item) /\ Len(p[n].items) \in Nat
    BY <1>2 DEF Span
  <2>2. Len(p[n].items) = 0 <=> p[n].items = <<>>
    BY <2>1, EmptySeq
  <2>3. TranscriptSize(st, v) = Len(p[n].items)
    BY <1>2, <1>4, <2>1 DEF TranscriptSize
  <2> QED
    BY <2>2, <2>3
<1>6. CASE p[n].items = <<>>
  <2> DEFINE more == WithItem(p, item)
             last == more[n]
  <2>1. /\ more \in Seq(Span) /\ Len(more) = n /\ Open(more, q) /\ last = MoreItem(p[n], item)
    BY <1>1, <1>3, WithItemIs
  <2>2. /\ last.start = p[n].start /\ last.items = Append(p[n].items, item)
        /\ last.incarnation = p[n].incarnation
    <3> DEFINE span == p[n]
    <3>1. span \in Span /\ last = MoreItem(span, item)
      BY <1>2, <2>1
    <3> HIDE DEF span, item, last
    <3> QED
      BY <1>3, <3>1, MoreItemIs DEF span
  <2>3. last.items = <<item>>
    BY <1>6, <2>2
  <2>4. Started(last.items)
    <3>1. <<item>> # <<>> /\ <<item>>[1] = item /\ item[1] = "init"
      OBVIOUS
    <3> HIDE DEF last
    <3> QED
      BY <2>3, <3>1 DEF Started
  <2>5. Deliveries(last.items) = Deliveries(p[n].items)
    <3>1. p[n].items \in Seq(Item)
      BY <1>2 DEF Span
    <3> QED
      BY <1>3, <2>2, <3>1, DeliveriesAppend
  <2>6. Rewrites(x, st, AddItem(st, v, item), v, more, q)
    BY <1>1, <1>3, AddItemWrites
  <2>7. Inited(p) = more /\ InitedStore(st, v) = AddItem(st, v, item)
    BY <1>5, <1>6 DEF Inited, InitedStore
  <2> HIDE DEF more
  <2>8. Living(more, q)
    BY <1>1, <2>1, <2>2, <2>4 DEF Living
  <2> QED
    BY <2>1, <2>2, <2>4, <2>5, <2>6, <2>7, <2>8
<1>7. CASE p[n].items # <<>>
  <2>1. Inited(p) = p /\ InitedStore(st, v) = st
    BY <1>5, <1>7 DEF Inited, InitedStore
  <2>2. Rewrites(x, st, st, v, p, q)
    BY DEF Rewrites, Stores
  <2>3. Started(p[n].items)
    BY <1>7 DEF Living
  <2> HIDE DEF p
  <2> QED
    BY <2>1, <2>2, <2>3 DEF p
<1> QED
  BY <1>6, <1>7

LEMMA EnsureSound ==
  ASSUME NEW x, NEW s, NEW v \in Vats, Sound(x, s, {v}, {}), v \in s.db.alive
  PROVE  LET t == EnsureVatOnline(s, v)
         IN Sound(x, t, {}, {}) /\ v \in t.ram.online /\ Serves(s, t, v)
<1> DEFINE t == EnsureVatOnline(s, v)
           st == s.db.store
           p == st.spans[v]
           q == st.snaps[v]
           inited == InitedStore(st, v)
           more == Inited(p)
           last == more[Len(more)]
           heap == Rebuilt(inited, v)
           up == WithWorker(s, inited, v, heap)
           ok == v \in s.db.alive /\ Head(CurrentSpan(inited, v).items)[1] \in {"init", "load"}
<1>1. /\ s \in States /\ s.db \in Dbs /\ s.ram \in Rams /\ DbOK(x, s.db) /\ Living(p, q)
      /\ Described(x, st) /\ st \in Stores
  BY DEF Sound, Sane, States, DbOK, Dbs
<1>2. t = IF v \in s.ram.online THEN s ELSE ApplyAvailabilityPolicy(Fail(up, ok), v)
  BY DEF EnsureVatOnline, WithWorker, InitedStore
<1>3. /\ Rewrites(x, st, inited, v, more, q)
      /\ Living(more, q) /\ Started(last.items) /\ Len(more) = Len(p)
      /\ last.incarnation = p[Len(p)].incarnation
      /\ Deliveries(last.items) = Deliveries(p[Len(p)].items)
  <2> HIDE DEF st
  <2> QED
    BY <1>1, InitedWrites
<1>4. inited \in Stores /\ inited.spans[v] = more /\ inited.snaps[v] = q
  <2>1. inited \in Stores
    BY <1>3 DEF Rewrites
  <2> HIDE DEF inited, more, q, st
  <2>2. st \in Stores /\ Rewrites(x, st, inited, v, more, q)
    BY <1>1, <1>3
  <2> QED
    BY <2>1, <2>2, RewritesRows
<1> HIDE DEF t, inited, more
<1>5. /\ heap = RebuiltOf(more, q) /\ heap \in Seq(Item)
      /\ CurrentSpan(inited, v) = last /\ Started(CurrentSpan(inited, v).items)
  <2>1. Open(inited.spans[v], inited.snaps[v]) /\ more # <<>>
    BY <1>3, <1>4 DEF Living, Open
  <2>2. heap = RebuiltOf(inited.spans[v], inited.snaps[v]) /\ heap \in Seq(Item)
    BY <1>4, <2>1, RebuiltIs
  <2>3. CurrentSpan(inited, v) = inited.spans[v][Len(inited.spans[v])]
    BY <1>4, <2>1, LastSpan
  <2>4. CurrentSpan(inited, v) = last
    BY <1>4, <2>3
  <2> HIDE DEF heap, q, last
  <2> QED
    BY <1>3, <1>4, <2>2, <2>4
<1>6. heap = RebuiltOf(p, q) /\ Rebuilt(st, v) = RebuiltOf(p, q) /\ RebuiltOf(p, q) \in Seq(Item)
  <2>1. Rebuilt(st, v) = RebuiltOf(p, q)
    BY <1>1, RebuiltIs DEF Living
  <2>2. RebuiltOf(more, q) = RebuiltOf(p, q)
    BY <1>3 DEF RebuiltOf
  <2> QED
    BY <1>5, <2>1, <2>2
<1>7. ok
  <2> DEFINE items == CurrentSpan(inited, v).items
  <2>1. last \in Span
    <3>1. more \in Seq(Span) /\ more # <<>>
      BY <1>3, <1>4, RowTypes DEF Living, Open
    <3> QED
      BY <3>1
  <2>2. items \in Seq(Item) /\ Started(items)
    BY <1>5, <2>1 DEF Span
  <2> HIDE DEF items
  <2>3. Head(items) = items[1]
    BY <2>2 DEF Started
  <2> QED
    BY <2>2, <2>3 DEF Started, items
<1>8. /\ up \in States /\ up.db = [s.db EXCEPT !.store = inited]
      /\ up.ram = RamOf(s.ram.online \cup {v}, [s.ram.heap EXCEPT ![v] = heap],
                        s.ram.recent, s.ram.failed)
  <2> HIDE DEF heap
  <2>1. inited \in Stores /\ heap \in Seq(Item)
    BY <1>4, <1>5
  <2>2. Worked(s, up, inited, v, heap)
    BY <1>1, <2>1, WithWorkerIs
  <2> QED
    BY <2>2 DEF Worked
<1> HIDE DEF up, heap, ok
<1>9. Fail(up, ok) = up
  <2>1. Fail(up, ok) = [db |-> up.db, ram |-> RamOf(up.ram.online, up.ram.heap, up.ram.recent,
                                                    up.ram.failed \/ ~ok)]
    BY <1>8, FailIs
  <2>2. up = [db |-> up.db, ram |-> RamOf(up.ram.online, up.ram.heap, up.ram.recent, up.ram.failed)]
    BY <1>8, StateIs
  <2>3. (up.ram.failed \/ ~ok) = up.ram.failed
    <3>1. up.ram.failed \in BOOLEAN
      BY <1>8 DEF States, Rams
    <3> QED
      BY <1>7, <3>1
  <2> DEFINE failed == up.ram.failed \/ ~ok
  <2>4. Fail(up, ok) = [db |-> up.db, ram |-> RamOf(up.ram.online, up.ram.heap, up.ram.recent, failed)]
    BY <2>1
  <2>5. failed = up.ram.failed
    BY <2>3
  <2> HIDE DEF failed
  <2> QED
    BY <2>2, <2>4, <2>5
<1>10. /\ up.db.store = inited /\ up.db.alive = s.db.alive /\ up.db.created = s.db.created
       /\ up.db.terminated = s.db.terminated /\ up.db.meter = s.db.meter
       /\ up.ram.online = s.ram.online \cup {v} /\ up.ram.recent = s.ram.recent
       /\ up.ram.failed = s.ram.failed /\ up.ram.heap[v] = heap
       /\ \A w \in Vats \ {v} : up.ram.heap[w] = s.ram.heap[w]
  <2>1. up.ram.heap = [s.ram.heap EXCEPT ![v] = heap] /\ s.ram.heap \in [Vats -> Seq(Item)]
    BY <1>1, <1>8 DEF RamOf, Rams
  <2>2. /\ up.ram.online = s.ram.online \cup {v} /\ up.ram.recent = s.ram.recent
        /\ up.ram.failed = s.ram.failed
    BY <1>8 DEF RamOf
  <2>3. /\ up.db.store = inited /\ up.db.alive = s.db.alive /\ up.db.created = s.db.created
        /\ up.db.terminated = s.db.terminated /\ up.db.meter = s.db.meter
    BY <1>1, <1>8 DEF Dbs
  <2> QED
    BY <2>1, <2>2, <2>3
<1>11. Reworks(x, s, up, v, more, q)
  <2>1. \A w \in up.ram.online \ {v} : w \in s.ram.online /\ up.ram.heap[w] = s.ram.heap[w]
    BY <1>1, <1>10 DEF Rams
  <2> QED
    BY <1>3, <1>8, <1>10, <2>1 DEF Reworks
<1>12. Works(up, v)
  BY <1>5, <1>10 DEF Works, heap, Started
<1>13. Sound(x, up, {v}, {}) /\ Moves(s, up, v) /\ up.db.alive = s.db.alive
  <2> HIDE DEF q
  <2> DEFINE R == {v}
  <2>1. Sound(x, s, R, {})
    OBVIOUS
  <2> HIDE DEF R
  <2>2. Sound(x, up, R, {}) /\ Moves(s, up, v) /\ up.db.alive = s.db.alive
    BY <1>3, <1>11, <1>12, <2>1, ReworksSound
  <2> QED
    BY <2>2 DEF R
<1>14. Grows(st, up.db.store, v)
  <2>1. CurrentSpan(st, v) = p[Len(p)] /\ CurrentSpan(st, v) \in Span
    BY <1>1, LastSpan DEF Living, Open
  <2>2. /\ CurrentSpan(st, v).incarnation \in Nat
        /\ CurrentSpan(st, v).incarnation = CurrentSpan(inited, v).incarnation
    BY <1>3, <1>5, <2>1 DEF Span
  <2>3. IsPrefix(Rebuilt(st, v), Rebuilt(inited, v))
    <3> DEFINE a == RebuiltOf(p, q)
    <3>1. Rebuilt(st, v) = a /\ Rebuilt(inited, v) = a /\ a \in Seq(Item)
      BY <1>6 DEF heap
    <3> HIDE DEF a
    <3> QED
      BY <3>1, PrefixOfSelf
  <2> QED
    BY <1>10, <2>2, <2>3 DEF Grows
<1>15. CASE v \in s.ram.online
  <2>1. t = s
    BY <1>2, <1>15
  <2>2. Sound(x, s, {}, {})
    BY <1>15, SoundWider
  <2>3. Moves(s, s, v)
    BY DEF Moves
  <2>4. Grows(st, st, v)
    BY <1>1, GrowsSame DEF Living
  <2> QED
    BY <1>15, <2>1, <2>2, <2>3, <2>4 DEF Serves, t
<1>16. CASE v \notin s.ram.online
  <2> DEFINE u == ApplyAvailabilityPolicy(up, v)
  <2>1. Sound(x, u, {v}, {}) /\ Moves(up, u, v) /\ u.db = up.db /\ v \in u.ram.online
    BY <1>10, <1>13, PolicySound
  <2>2. t = u
    BY <1>2, <1>9, <1>16
  <2> HIDE DEF u
  <2>3. Sound(x, u, {}, {})
    BY <2>1, SoundWider
  <2>4. Moves(s, u, v)
    BY <1>1, <1>8, <1>13, <2>1, MovesMoves DEF Sound, Sane
  <2>5. u.db.alive = s.db.alive /\ Grows(st, u.db.store, v)
    BY <1>13, <1>14, <2>1
  <2> QED
    BY <2>1, <2>2, <2>3, <2>4, <2>5 DEF Serves, t
<1> QED
  BY <1>15, <1>16

-----------------------------------------------------------------------------
(* Deliveries and snapshots. *)

Deliverable(u, v, heap, st, dirt) ==
  [u EXCEPT !.ram.heap[v] = heap, !.db.store = st, !.db.dirt[v] = dirt]
DeliveredTo(u, t, v, heap, st) ==
  /\ t \in States /\ t.db.store = st
  /\ t.db.alive = u.db.alive /\ t.db.created = u.db.created
  /\ t.db.terminated = u.db.terminated /\ t.db.meter = u.db.meter
  /\ t.ram.online = u.ram.online /\ t.ram.recent = u.ram.recent /\ t.ram.failed = u.ram.failed
  /\ t.ram.heap[v] = heap /\ \A w \in Vats \ {v} : t.ram.heap[w] = u.ram.heap[w]

LEMMA DeliveredToIs ==
  ASSUME NEW u \in States, NEW v \in Vats, NEW heap \in Seq(Item), NEW st \in Stores, NEW dirt \in Nat
  PROVE  DeliveredTo(u, Deliverable(u, v, heap, st, dirt), v, heap, st)
<1> DEFINE h == [u.ram.heap EXCEPT ![v] = heap]
           ds == [u.db.dirt EXCEPT ![v] = dirt]
           a == [u EXCEPT !.ram.heap[v] = heap]
           b == [a EXCEPT !.db.store = st]
           c == [b EXCEPT !.db.dirt[v] = dirt]
           r == RamOf(u.ram.online, h, u.ram.recent, u.ram.failed)
           d == [u.db EXCEPT !.store = st]
           e == [d EXCEPT !.dirt = ds]
           t == Deliverable(u, v, heap, st, dirt)
<1>1. /\ u.ram \in Rams /\ u.db \in Dbs
      /\ u = [db |-> u.db, ram |-> RamOf(u.ram.online, u.ram.heap, u.ram.recent, u.ram.failed)]
  BY StateIs DEF States
<1>2. h \in [Vats -> Seq(Item)] /\ ds \in [Vats -> Nat] /\ h[v] = heap
      /\ \A w \in Vats \ {v} : h[w] = u.ram.heap[w]
  BY <1>1 DEF Rams, Dbs
<1>3. d \in Dbs /\ d.store = st /\ d.alive = u.db.alive /\ d.created = u.db.created
      /\ d.terminated = u.db.terminated /\ d.meter = u.db.meter /\ d.dirt = u.db.dirt
  BY <1>1 DEF Dbs
<1>4. t = c
  BY <1>1 DEF Deliverable
<1> HIDE DEF d, t
<1>5. e \in Dbs /\ e.store = st /\ e.alive = u.db.alive /\ e.created = u.db.created
      /\ e.terminated = u.db.terminated /\ e.meter = u.db.meter
  <2> HIDE DEF ds
  <2> QED
    BY <1>2, <1>3 DEF Dbs
<1>6. a = [db |-> u.db, ram |-> r]
  BY <1>1 DEF RamOf
<1> HIDE DEF a, r, h
<1>7. b = [db |-> d, ram |-> r]
  BY <1>6 DEF d
<1> HIDE DEF b
<1>8. c = [db |-> e, ram |-> r]
  <2>1. c = [db |-> [d EXCEPT !.dirt[v] = dirt], ram |-> r]
    BY <1>7
  <2>2. [d EXCEPT !.dirt[v] = dirt] = e
    BY <1>1, <1>3 DEF Dbs
  <2> QED
    BY <2>1, <2>2
<1> HIDE DEF c, e
<1>9. r \in Rams
  BY <1>1, <1>2 DEF Rams, RamOf, r
<1>10. /\ r.online = u.ram.online /\ r.recent = u.ram.recent /\ r.failed = u.ram.failed
       /\ r.heap = h
  BY DEF r, RamOf
<1>11. t = [db |-> e, ram |-> r]
  BY <1>4, <1>8
<1>12. t \in States
  BY <1>5, <1>9, <1>11 DEF States
<1> QED
  BY <1>2, <1>5, <1>10, <1>11, <1>12 DEF DeliveredTo, t

LEMMA RebuiltAppend ==
  ASSUME NEW p \in Seq(Span), NEW q \in Seq(Snap), Open(p, q), NEW item \in Item, Real(item)
  PROVE  RebuiltOf(WithItem(p, item), q) = Append(RebuiltOf(p, q), item)
<1> DEFINE n == Len(p)
           span == p[n]
           more == WithItem(p, item)
           base == IF LastInUse(q) THEN q[Len(q)].heap ELSE <<>>
           ds == Deliveries(span.items)
<1>1. n \in 1..n /\ span \in Span /\ Len(more) = n /\ more[n] = MoreItem(span, item)
  <2>1. n \in 1..n /\ span \in Span
    BY DEF Open
  <2>2. Len(more) = n /\ more[n] = MoreItem(span, item)
    BY WithItemIs
  <2> QED
    BY <2>1, <2>2
<1> HIDE DEF span
<1>2. MoreItem(span, item).items = Append(span.items, item) /\ span.items \in Seq(Item)
  BY <1>1, MoreItemIs DEF Span
<1>3. Deliveries(more[n].items) = Append(ds, item)
  BY <1>1, <1>2, DeliveriesAppend
<1>4. ds \in Seq(Item)
  BY <1>2, DeliveriesType
<1>5. base \in Seq(Item)
  <2>1. CASE LastInUse(q)
    <3>1. q[Len(q)] \in Snap
      BY <2>1 DEF LastInUse
    <3> QED
      BY <2>1, <3>1 DEF Snap
  <2>2. CASE ~LastInUse(q)
    BY <2>2
  <2> QED
    BY <2>1, <2>2
<1>6. RebuiltOf(p, q) = base \o ds /\ RebuiltOf(more, q) = base \o Deliveries(more[n].items)
  BY <1>1 DEF RebuiltOf, span
<1> HIDE DEF base, ds
<1>7. base \o Append(ds, item) = Append(base \o ds, item)
  BY <1>4, <1>5
<1> QED
  BY <1>3, <1>6, <1>7

LEMMA DeliverSound ==
  ASSUME NEW x, NEW s, NEW v \in Vats, Sound(x, s, {}, {}), v \in s.db.alive, cranks \in Nat,
         NEW kind \in {"start", "boyd", "msg"}
  PROVE  LET t == DeliverToVat(s, v, kind)
         IN Sound(x, t, {}, {}) /\ v \in t.ram.online /\ Serves(s, t, v)
<1> DEFINE pol == ApplyAvailabilityPolicy(s, v)
           u == EnsureVatOnline(pol, v)
           item == <<kind, cranks>>
           st == AddItem(u.db.store, v, item)
           heap == Append(u.ram.heap[v], item)
           dirt == IF kind = "boyd" THEN 0 ELSE u.db.dirt[v]
           t == DeliverToVat(s, v, kind)
           p == u.db.store.spans[v]
           q == u.db.store.snaps[v]
           more == WithItem(p, item)
<1>1. Sound(x, pol, {v}, {}) /\ Moves(s, pol, v) /\ pol.db = s.db
  <2>1. Sound(x, s, {v}, {})
    BY SoundWider
  <2> QED
    BY <2>1, PolicySound
<1> HIDE DEF pol
<1>2. Sound(x, u, {}, {}) /\ v \in u.ram.online /\ Serves(pol, u, v) /\ v \in u.db.alive
  <2>1. Sound(x, u, {}, {}) /\ v \in u.ram.online /\ Serves(pol, u, v)
    BY <1>1, EnsureSound
  <2> QED
    BY <1>1, <2>1 DEF Serves
<1>3. t = [u EXCEPT !.ram.heap[v] = Append(@, item), !.db.store = AddItem(@, v, item),
                    !.db.dirt[v] = IF kind = "boyd" THEN 0 ELSE @]
  BY DEF DeliverToVat, pol
<1> HIDE DEF u, t
<1>4. u \in States /\ u.db \in Dbs /\ u.ram \in Rams /\ DbOK(x, u.db) /\ Works(u, v)
  BY <1>2 DEF Sound, Sane, States
<1>5. /\ u.db.store \in Stores /\ Described(x, u.db.store) /\ Living(p, q) /\ Open(p, q)
      /\ p \in Seq(Span) /\ q \in Seq(Snap) /\ Below(q, p[Len(p)].start)
  BY <1>2, <1>4, RowTypes DEF DbOK, Dbs, Living
<1>6. item \in Item /\ Real(item)
  BY DEF Item, Kinds, Real
<1>7. t = Deliverable(u, v, heap, st, dirt)
  <2> HIDE DEF item
  <2> QED
    BY <1>3, <1>4 DEF Deliverable, States, Rams, Dbs
<1>8. Rewrites(x, u.db.store, st, v, more, q)
  <2> HIDE DEF item
  <2> DEFINE old == u.db.store
  <2>1. old \in Stores /\ Described(x, old) /\ Open(old.spans[v], old.snaps[v])
    BY <1>5
  <2> HIDE DEF old
  <2>2. Rewrites(x, old, AddItem(old, v, item), v, WithItem(old.spans[v], item), old.snaps[v])
    BY <1>6, <2>1, AddItemWrites
  <2> QED
    BY <2>2 DEF old
<1>9. st \in Stores /\ st.spans[v] = more /\ st.snaps[v] = q
  <2> DEFINE old == u.db.store
  <2>1. st \in Stores
    BY <1>8 DEF Rewrites
  <2>2. old \in Stores /\ Rewrites(x, old, st, v, more, q)
    BY <1>5, <1>8
  <2> HIDE DEF st, more, q, old
  <2>3. /\ st.spans[v] = more /\ st.snaps[v] = q
        /\ \A w \in Vats \ {v} : st.spans[w] = old.spans[w] /\ st.snaps[w] = old.snaps[w]
    BY <2>1, <2>2, RewritesRows
  <2> QED
    BY <2>1, <2>3
<1>10. heap \in Seq(Item) /\ dirt \in Nat /\ u.ram.heap[v] = Rebuilt(u.db.store, v)
  BY <1>4, <1>6 DEF Rams, Dbs, Works
<1>11. DeliveredTo(u, t, v, heap, st)
  <2> HIDE DEF heap, st, dirt
  <2> QED
    BY <1>4, <1>7, <1>9, <1>10, DeliveredToIs
<1>12. Rebuilt(st, v) = heap /\ Rebuilt(st, v) = Append(Rebuilt(u.db.store, v), item)
  <2> HIDE DEF item, more
  <2>1. Open(more, q)
    BY <1>5, <1>6, WithItemIs DEF more
  <2>2. Rebuilt(st, v) = RebuiltOf(more, q)
    <3> HIDE DEF st, q
    <3> QED
      BY <1>9, <2>1, RebuiltIs
  <2>3. Rebuilt(u.db.store, v) = RebuiltOf(p, q)
    BY <1>5, RebuiltIs
  <2>4. RebuiltOf(more, q) = Append(RebuiltOf(p, q), item)
    BY <1>5, <1>6, RebuiltAppend DEF more
  <2> QED
    BY <1>10, <2>2, <2>3, <2>4
<1>13. /\ Len(more) = Len(p) /\ more # <<>> /\ more \in Seq(Span) /\ Open(more, q)
       /\ more[Len(p)].start = p[Len(p)].start
       /\ more[Len(p)].incarnation = p[Len(p)].incarnation
       /\ more[Len(p)].items = Append(p[Len(p)].items, item)
       /\ p[Len(p)] \in Span
  <2> HIDE DEF item
  <2> DEFINE span == p[Len(p)]
  <2>1. span \in Span /\ more[Len(p)] = MoreItem(span, item)
        /\ Len(more) = Len(p) /\ more \in Seq(Span) /\ Open(more, q)
    <3>1. span \in Span
      BY <1>5 DEF Open
    <3> HIDE DEF p, q
    <3>2. more[Len(p)] = MoreItem(span, item)
          /\ Len(more) = Len(p) /\ more \in Seq(Span) /\ Open(more, q)
      BY <1>5, <1>6, WithItemIs
    <3> QED
      BY <3>1, <3>2
  <2> HIDE DEF span, more
  <2>2. /\ MoreItem(span, item).start = span.start
        /\ MoreItem(span, item).incarnation = span.incarnation
        /\ MoreItem(span, item).items = Append(span.items, item)
    BY <1>6, <2>1, MoreItemIs
  <2> QED
    BY <2>1, <2>2 DEF span, Open
<1>14. CurrentSpan(st, v) = more[Len(more)] /\ CurrentSpan(u.db.store, v) = p[Len(p)]
  <2>1. CurrentSpan(u.db.store, v) = p[Len(p)]
    BY <1>5, LastSpan DEF Open
  <2> HIDE DEF st, more
  <2>2. CurrentSpan(st, v) = more[Len(more)]
    BY <1>9, <1>13, LastSpan
  <2> QED
    BY <2>1, <2>2
<1>15. /\ p[Len(p)].items \in Seq(Item) /\ p[Len(p)].items # <<>>
       /\ p[Len(p)].incarnation \in Nat
  <2>1. p[Len(p)].items # <<>>
    BY <1>4, <1>14 DEF Works
  <2> QED
    BY <1>13, <2>1 DEF Span
<1>16. Started(more[Len(more)].items)
  <2> DEFINE items == p[Len(p)].items
             longer == Append(items, item)
  <2>1. Started(items) /\ items \in Seq(Item) /\ items # <<>>
    BY <1>5, <1>15 DEF Living
  <2> HIDE DEF items, item
  <2>2. longer[1] = items[1] /\ longer # <<>>
    BY <1>6, <2>1
  <2> HIDE DEF longer
  <2>3. Started(longer)
    BY <2>1, <2>2 DEF Started
  <2> QED
    BY <1>13, <2>3 DEF longer, items
<1>17. Living(more, q)
  BY <1>5, <1>13, <1>16 DEF Living
<1>18. Works(t, v)
  BY <1>2, <1>11, <1>12, <1>14, <1>16 DEF Works, DeliveredTo, Started
<1>19. Reworks(x, u, t, v, more, q)
  <2>1. \A w \in t.ram.online \ {v} : w \in u.ram.online /\ t.ram.heap[w] = u.ram.heap[w]
    BY <1>4, <1>11 DEF DeliveredTo, Rams
  <2> QED
    BY <1>8, <1>11, <2>1 DEF Reworks, DeliveredTo
<1>20. Sound(x, t, {}, {}) /\ Moves(u, t, v) /\ t.db.alive = u.db.alive
  <2> HIDE DEF more, q
  <2> QED
    BY <1>2, <1>17, <1>18, <1>19, ReworksSound
<1>21. Grows(u.db.store, t.db.store, v)
  <2>1. IsPrefix(Rebuilt(u.db.store, v), Rebuilt(st, v))
    <3> DEFINE a == Rebuilt(u.db.store, v)
    <3>1. a \in Seq(Item) /\ Rebuilt(st, v) = Append(a, item)
      BY <1>5, <1>12, RebuiltIs
    <3> HIDE DEF a, item, st
    <3>2. Append(a, item) = a \o <<item>> /\ <<item>> \in Seq(Item)
      BY <1>6, <3>1
    <3> QED
      BY <1>6, <3>1, <3>2 DEF IsPrefix, a
  <2>2. t.db.store = st
    BY <1>11 DEF DeliveredTo
  <2>3. CurrentSpan(st, v).incarnation = CurrentSpan(u.db.store, v).incarnation
    BY <1>13, <1>14
  <2> HIDE DEF st
  <2> QED
    BY <1>14, <1>15, <2>1, <2>2, <2>3 DEF Grows
<1>22. v \in t.ram.online
  BY <1>2, <1>11 DEF DeliveredTo
<1>23. Serves(s, t, v)
  <2>1. Serves(u, t, v)
    BY <1>20, <1>21 DEF Serves
  <2>2. Serves(s, pol, v)
    <3>1. pol.db.store = s.db.store /\ pol.db.alive = s.db.alive
      BY <1>1
    <3>2. s.db.store \in Stores /\ Open(s.db.store.spans[v], s.db.store.snaps[v])
      BY DEF Sound, Sane, DbOK, Dbs, Living
    <3>3. Grows(s.db.store, s.db.store, v)
      BY <3>2, GrowsSame
    <3> QED
      BY <1>1, <3>1, <3>3 DEF Serves
  <2>3. Sane(x, s) /\ Sane(x, pol) /\ Sane(x, u) /\ Sane(x, t) /\ v \in pol.db.alive
    BY <1>1, <1>2, <1>20 DEF Sound
  <2>4. Serves(s, u, v)
    BY <1>2, <2>2, <2>3, ServesServes
  <2> QED
    BY <2>1, <2>3, <2>4, ServesServes
<1> QED
  BY <1>20, <1>22, <1>23 DEF t

LEMMA RewritesRewrites ==
  ASSUME NEW x, NEW st \in Stores, NEW t, NEW u, NEW v \in Vats, NEW p, NEW q, NEW p2, NEW q2,
         Rewrites(x, st, t, v, p, q), Rewrites(x, t, u, v, p2, q2)
  PROVE  Rewrites(x, st, u, v, p2, q2)
<1>1. st.spans \in [Vats -> Seq(Span)] /\ st.snaps \in [Vats -> Seq(Snap)]
  BY DEF Stores
<1>2. u.spans = [st.spans EXCEPT ![v] = p2] /\ u.snaps = [st.snaps EXCEPT ![v] = q2]
  BY <1>1 DEF Rewrites
<1> QED
  BY <1>2 DEF Rewrites

(* The rows of v after an operation, seen one operation at a time.         *)
OpenRows(x, st, t, v, p, q) ==
  Rewrites(x, st, t, v, p, q) /\ t.spans[v] = p /\ t.snaps[v] = q /\ Open(p, q)
  /\ p \in Seq(Span) /\ q \in Seq(Snap) /\ p[Len(p)] \in Span

LEMMA OpenRowsIs ==
  ASSUME NEW x, NEW st \in Stores, NEW t, NEW v \in Vats, NEW p, NEW q,
         Rewrites(x, st, t, v, p, q), Open(p, q)
  PROVE  OpenRows(x, st, t, v, p, q)
<1>1. /\ t.spans[v] = p /\ t.snaps[v] = q
      /\ \A w \in Vats \ {v} : t.spans[w] = st.spans[w] /\ t.snaps[w] = st.snaps[w]
  BY RewritesRows
<1>2. t \in Stores
  BY DEF Rewrites
<1>3. p \in Seq(Span) /\ q \in Seq(Snap)
  BY <1>1, <1>2, RowTypes
<1>4. p[Len(p)] \in Span
  BY <1>3 DEF Open
<1> QED
  BY <1>1, <1>3, <1>4 DEF OpenRows

LEMMA AddItemRows ==
  ASSUME NEW x, NEW st \in Stores, NEW t, NEW v \in Vats, NEW p, NEW q, OpenRows(x, st, t, v, p, q),
         NEW item \in Item
  PROVE  /\ OpenRows(x, st, AddItem(t, v, item), v, WithItem(p, item), q)
         /\ WithItem(p, item)[Len(WithItem(p, item))] = MoreItem(p[Len(p)], item)
<1> DEFINE u == AddItem(t, v, item)
           more == WithItem(p, item)
<1>1. /\ Rewrites(x, st, t, v, p, q) /\ t.spans[v] = p /\ t.snaps[v] = q /\ Open(p, q)
      /\ p \in Seq(Span) /\ t \in Stores /\ Described(x, t)
  BY DEF OpenRows, Rewrites
<1>2. Rewrites(x, t, AddItem(t, v, item), v, WithItem(t.spans[v], item), t.snaps[v])
  BY <1>1, AddItemWrites
<1>3. Rewrites(x, t, u, v, more, q)
  BY <1>1, <1>2
<1>4. /\ more \in Seq(Span) /\ Len(more) = Len(p) /\ Open(more, q)
      /\ more[Len(p)] = MoreItem(p[Len(p)], item)
  BY <1>1, WithItemIs
<1> HIDE DEF u, more
<1>5. Rewrites(x, st, u, v, more, q)
  BY <1>1, <1>3, RewritesRewrites
<1>6. OpenRows(x, st, u, v, more, q)
  BY <1>4, <1>5, OpenRowsIs
<1> QED
  BY <1>4, <1>6 DEF u, more

RolledOver(p, isNew) == Rolled(p, NextIncarnation(p[Len(p)], isNew))

LEMMA RolloverRows ==
  ASSUME NEW x, NEW st \in Stores, NEW t, NEW v \in Vats, NEW p, NEW q, OpenRows(x, st, t, v, p, q),
         NEW isNew \in BOOLEAN, p[Len(p)].items # <<>>
  PROVE  /\ OpenRows(x, st, DoSpanRollover(t, v, isNew), v, RolledOver(p, isNew), q)
         /\ RolledOver(p, isNew)[Len(RolledOver(p, isNew))] =
              EmptySpan(p[Len(p)].end, NextIncarnation(p[Len(p)], isNew))
<1> DEFINE u == DoSpanRollover(t, v, isNew)
           incarnation == NextIncarnation(p[Len(p)], isNew)
           more == Rolled(p, incarnation)
<1>1. /\ Rewrites(x, st, t, v, p, q) /\ t.spans[v] = p /\ t.snaps[v] = q /\ Open(p, q)
      /\ p \in Seq(Span) /\ t \in Stores /\ Described(x, t) /\ p[Len(p)] \in Span
  BY DEF OpenRows, Rewrites
<1>2. incarnation \in Nat
  BY <1>1 DEF NextIncarnation, Span
<1>3. LET r == t.spans[v]
      IN Rewrites(x, t, DoSpanRollover(t, v, isNew), v,
                  Rolled(r, NextIncarnation(r[Len(r)], isNew)), t.snaps[v])
  BY <1>1, RolloverWrites
<1>4. Rewrites(x, t, u, v, more, q)
  BY <1>1, <1>3
<1>5. /\ Open(more, q) /\ more[Len(more)] = EmptySpan(p[Len(p)].end, incarnation)
  BY <1>1, <1>2, RolledIs
<1> HIDE DEF u, more
<1>6. Rewrites(x, st, u, v, more, q)
  BY <1>1, <1>4, RewritesRewrites
<1>7. OpenRows(x, st, u, v, more, q)
  BY <1>5, <1>6, OpenRowsIs
<1> QED
  BY <1>2, <1>5, <1>7 DEF u, more, RolledOver

LEMMA LongSpanIs ==
  ASSUME NEW span \in Span, NEW item \in Item
  PROVE  /\ MoreItem(span, item) \in Span /\ MoreItem(span, item).start = span.start
         /\ MoreItem(span, item).end = span.end + 1
         /\ MoreItem(span, item).items = Append(span.items, item)
         /\ MoreItem(span, item).items # <<>>
         /\ MoreItem(span, item).incarnation = span.incarnation
<1>1. /\ MoreItem(span, item) \in Span /\ MoreItem(span, item).start = span.start
      /\ MoreItem(span, item).end = span.end + 1
      /\ MoreItem(span, item).items = Append(span.items, item)
      /\ MoreItem(span, item).incarnation = span.incarnation
  BY MoreItemIs
<1>2. Append(span.items, item) # <<>>
  BY DEF Span
<1> QED
  BY <1>1, <1>2

(* A snapshot of the heap, and a new span that starts from it.             *)
Snapshotted(st, v, heap) ==
  LET saved == SaveSnapshot(st, v, CurrentSpan(st, v).end, heap)
      rolled == DoSpanRollover(AddItem(saved, v, <<"save", 0>>), v, FALSE)
  IN AddItem(rolled, v, <<"load", 0>>)
Reloads(x, st, t, v, p, q, heap) ==
  /\ Rewrites(x, st, t, v, p, q) /\ Living(p, q) /\ RebuiltOf(p, q) = heap
  /\ t \in Stores /\ t.spans[v] = p /\ t.snaps[v] = q
  /\ CurrentSpan(t, v).items # <<>> /\ Rebuilt(t, v) = heap
  /\ CurrentSpan(t, v).incarnation = CurrentSpan(st, v).incarnation

LEMMA SnapshottedReloads ==
  ASSUME NEW x, NEW st \in Stores, NEW v \in Vats, Described(x, st),
         Living(st.spans[v], st.snaps[v]), CurrentSpan(st, v).items # <<>>, NEW heap \in Seq(Item)
  PROVE  \E p, q : Reloads(x, st, Snapshotted(st, v, heap), v, p, q, heap)
<1> DEFINE p == st.spans[v]
           q == st.snaps[v]
           last == p[Len(p)]
           pos == last.end
           save == <<"save", 0>>
           load == <<"load", 0>>
           saved == SaveSnapshot(st, v, pos, heap)
           q1 == WithSnap(q, pos, heap)
           p1 == WithItem(p, save)
           noted == AddItem(saved, v, save)
           incarnation == last.incarnation
           p2 == RolledOver(p1, FALSE)
           rolled == DoSpanRollover(noted, v, FALSE)
           p3 == WithItem(p2, load)
           t == AddItem(rolled, v, load)
<1>1. /\ p \in Seq(Span) /\ q \in Seq(Snap) /\ Open(p, q) /\ Orderly(p, q) /\ p # <<>>
      /\ Below(q, last.start)
  BY RowTypes DEF Living, Open
<1>2. CurrentSpan(st, v) = last /\ last \in Span /\ Len(p) \in 1..Len(p)
  BY <1>1, LastSpan
<1>3. last.end = last.start + Len(last.items)
  BY <1>1, <1>2 DEF Orderly
<1>4. /\ last.start \in Nat /\ pos \in Nat /\ last.items \in Seq(Item) /\ incarnation \in Nat
      /\ last.items # <<>>
  BY <1>2 DEF Span
<1>5. Below(q, pos)
  <2>1. pos > last.start
    BY <1>3, <1>4
  <2>2. q \in Seq(Snap)
    BY <1>1
  <2> HIDE DEF pos, last, q
  <2>3. \A i \in 1..Len(q) : q[i].pos \in Nat
    <3>1. \A i \in 1..Len(q) : q[i] \in Snap
      BY <2>2
    <3> QED
      BY <3>1 DEF Snap
  <2> QED
    BY <1>1, <1>4, <2>1, <2>3 DEF Below
<1>6. Snapshotted(st, v, heap) = t
  BY <1>2 DEF Snapshotted
<1>7. Rewrites(x, st, saved, v, p, q1)
  <2> HIDE DEF pos
  <2> QED
    BY <1>1, <1>4, <1>5, SaveWrites
<1> HIDE DEF pos
<1>8. /\ q1 \in Seq(Snap) /\ Orderly(p, q1) /\ q1[Len(q1)] = NewSnap(pos, heap)
      /\ LastInUse(q1) /\ Below(q1, pos + 1)
  <2> HIDE DEF p, q
  <2> QED
    BY <1>1, <1>4, <1>5, WithSnapIs
<1>9. Open(p, q1)
  BY <1>1, <1>8 DEF Open
<1> HIDE DEF saved, q1, p1, p2, p3, noted, rolled, t, save, load, p, q
<1>10. OpenRows(x, st, saved, v, p, q1)
  BY <1>7, <1>9, OpenRowsIs
<1>11. save \in Item /\ load \in Item /\ ~Real(load)
  BY DEF Item, Kinds, Real, save, load
<1>12. OpenRows(x, st, noted, v, p1, q1) /\ p1[Len(p1)] = MoreItem(last, save)
  BY <1>10, <1>11, AddItemRows DEF noted, p1
<1> HIDE DEF last
<1>13. /\ p1[Len(p1)] \in Span /\ p1[Len(p1)].end = pos + 1 /\ p1[Len(p1)].items # <<>>
       /\ p1[Len(p1)].incarnation = incarnation
  BY <1>2, <1>11, <1>12, LongSpanIs DEF pos
<1>14. OpenRows(x, st, rolled, v, p2, q1) /\ p2[Len(p2)] = EmptySpan(pos + 1, incarnation)
  <2>1. incarnation = NextIncarnation(p1[Len(p1)], FALSE)
    BY <1>13 DEF NextIncarnation
  <2> HIDE DEF incarnation
  <2>2. /\ OpenRows(x, st, rolled, v, p2, q1)
        /\ p2[Len(p2)] = EmptySpan(p1[Len(p1)].end, NextIncarnation(p1[Len(p1)], FALSE))
    BY <1>12, <1>13, RolloverRows DEF rolled, p2
  <2> QED
    BY <1>13, <2>1, <2>2
<1> HIDE DEF incarnation
<1>15. OpenRows(x, st, t, v, p3, q1) /\ p3[Len(p3)] = MoreItem(EmptySpan(pos + 1, incarnation), load)
  <2>1. OpenRows(x, st, t, v, p3, q1) /\ p3[Len(p3)] = MoreItem(p2[Len(p2)], load)
    BY <1>11, <1>14, AddItemRows DEF t, p3
  <2> QED
    BY <1>14, <2>1
<1> DEFINE end == p3[Len(p3)]
<1>16. /\ end.start = pos + 1 /\ end.items = <<load>> /\ end.incarnation = incarnation
       /\ end \in Span
  <2> DEFINE empty == EmptySpan(pos + 1, incarnation)
  <2>1. pos + 1 \in Nat /\ incarnation \in Nat
    BY <1>4
  <2>2. /\ empty \in Span /\ empty.start = pos + 1 /\ empty.items = <<>>
        /\ empty.incarnation = incarnation
    BY <2>1, EmptySpanType
  <2> HIDE DEF empty
  <2>3. /\ MoreItem(empty, load) \in Span /\ MoreItem(empty, load).start = pos + 1
        /\ MoreItem(empty, load).items = Append(empty.items, load)
        /\ MoreItem(empty, load).incarnation = incarnation
    BY <1>11, <2>2, LongSpanIs
  <2>4. end = MoreItem(empty, load)
    BY <1>15 DEF empty
  <2>5. Append(<<>>, load) = <<load>>
    OBVIOUS
  <2> QED
    BY <2>2, <2>3, <2>4, <2>5
<1>17. Started(end.items) /\ end.items # <<>>
  <2>1. <<load>> # <<>> /\ <<load>>[1] = load /\ load[1] = "load"
    BY DEF load
  <2> HIDE DEF end
  <2> QED
    BY <1>16, <2>1 DEF Started
<1>18. Living(p3, q1)
  BY <1>8, <1>15, <1>16, <1>17 DEF Living, OpenRows
<1>19. RebuiltOf(p3, q1) = heap
  <2>1. Deliveries(<<load>>) = <<>>
    <3>1. <<>> \in Seq(Item) /\ Append(<<>>, load) = <<load>>
      OBVIOUS
    <3>2. Deliveries(Append(<<>>, load)) = Deliveries(<<>>)
      BY <1>11, <3>1, DeliveriesAppend
    <3> QED
      BY <3>1, <3>2, NoDeliveries
  <2>2. q1[Len(q1)].heap = heap
    BY <1>8 DEF NewSnap
  <2>3. heap \o <<>> = heap
    OBVIOUS
  <2>4. RebuiltOf(p3, q1) = q1[Len(q1)].heap \o Deliveries(end.items)
    BY <1>8 DEF RebuiltOf
  <2> HIDE DEF end
  <2> QED
    BY <1>16, <2>1, <2>2, <2>3, <2>4
<1>20. t \in Stores /\ t.spans[v] = p3 /\ t.snaps[v] = q1 /\ Open(p3, q1) /\ p3 # <<>>
  BY <1>15 DEF OpenRows, Rewrites, Open
<1>21. Rebuilt(t, v) = heap /\ CurrentSpan(t, v) = end
  <2>1. Rebuilt(t, v) = RebuiltOf(t.spans[v], t.snaps[v])
    BY <1>20, RebuiltIs
  <2>2. CurrentSpan(t, v) = t.spans[v][Len(t.spans[v])]
    BY <1>20, LastSpan
  <2> QED
    BY <1>19, <1>20, <2>1, <2>2
<1>22. Rewrites(x, st, t, v, p3, q1)
  BY <1>15 DEF OpenRows
<1> HIDE DEF end
<1>23. Reloads(x, st, t, v, p3, q1, heap)
  BY <1>2, <1>16, <1>17, <1>18, <1>19, <1>20, <1>21, <1>22 DEF Reloads, incarnation
<1> QED
  BY <1>6, <1>23

WithStore(s, st) == [s EXCEPT !.db.store = st]

LEMMA WithStoreIs ==
  ASSUME NEW s \in States, NEW st \in Stores
  PROVE  /\ WithStore(s, st) \in States /\ WithStore(s, st).db = [s.db EXCEPT !.store = st]
         /\ WithStore(s, st).ram = s.ram
<1> DEFINE d == [s.db EXCEPT !.store = st]
<1>1. s.db \in Dbs /\ s.ram \in Rams
  BY DEF States
<1>2. d \in Dbs
  BY <1>1 DEF Dbs
<1>3. WithStore(s, st) = [db |-> d, ram |-> s.ram]
  BY DEF WithStore, States
<1> QED
  BY <1>1, <1>2, <1>3 DEF States

LEMMA SaveSnapshotSound ==
  ASSUME NEW x, NEW s, NEW v \in Vats, Sound(x, s, {}, {}), v \in s.db.alive, cranks \in Nat
  PROVE  LET t == SaveVatSnapshot(s, v)
         IN Sound(x, t, {}, {}) /\ v \in t.ram.online /\ Serves(s, t, v)
<1> DEFINE dead == DeliverToVat(s, v, "boyd")
           st == dead.db.store
           heap == dead.ram.heap[v]
           new == Snapshotted(st, v, heap)
           t == SaveVatSnapshot(s, v)
<1>1. Sound(x, dead, {}, {}) /\ v \in dead.ram.online /\ Serves(s, dead, v)
  <2> DEFINE kind == "boyd"
  <2>1. kind \in {"start", "boyd", "msg"}
    OBVIOUS
  <2> HIDE DEF kind
  <2>2. LET u == DeliverToVat(s, v, kind)
        IN Sound(x, u, {}, {}) /\ v \in u.ram.online /\ Serves(s, u, v)
    BY <2>1, DeliverSound
  <2> QED
    BY <2>2 DEF kind
<1>2. t = WithStore(dead, new)
  BY DEF SaveVatSnapshot, WithStore, Snapshotted
<1> HIDE DEF dead, t
<1>3. /\ dead \in States /\ DbOK(x, dead.db) /\ Works(dead, v) /\ v \in dead.db.alive
      /\ dead.ram \in Rams /\ dead.db \in Dbs
  BY <1>1 DEF Sound, Sane, States, Serves
<1>4. /\ st \in Stores /\ Described(x, st) /\ Living(st.spans[v], st.snaps[v])
      /\ CurrentSpan(st, v).items # <<>> /\ heap \in Seq(Item) /\ heap = Rebuilt(st, v)
  BY <1>3 DEF DbOK, Dbs, Works, Rams
<1>5. PICK p, q : Reloads(x, st, new, v, p, q, heap)
  <2> HIDE DEF st, heap
  <2> QED
    BY <1>4, SnapshottedReloads
<1> HIDE DEF new
<1>6. new \in Stores
  BY <1>5 DEF Reloads
<1>7. t \in States /\ t.db = [dead.db EXCEPT !.store = new] /\ t.ram = dead.ram
  BY <1>2, <1>3, <1>6, WithStoreIs
<1>8. /\ t.db.store = new /\ t.db.alive = dead.db.alive /\ t.db.created = dead.db.created
      /\ t.db.terminated = dead.db.terminated /\ t.db.meter = dead.db.meter
  BY <1>3, <1>7 DEF Dbs
<1>9. Works(t, v)
  BY <1>3, <1>5, <1>7, <1>8 DEF Works, Reloads
<1>10. Reworks(x, dead, t, v, p, q)
  BY <1>5, <1>7, <1>8 DEF Reworks, Reloads
<1>11. Sound(x, t, {}, {}) /\ Moves(dead, t, v) /\ t.db.alive = dead.db.alive
  <2>1. Living(p, q)
    BY <1>5 DEF Reloads
  <2> QED
    BY <1>1, <1>3, <1>9, <1>10, <2>1, ReworksSound
<1>12. Serves(dead, t, v)
  <2>1. IsPrefix(Rebuilt(st, v), Rebuilt(new, v))
    <3>1. Rebuilt(new, v) = heap
      BY <1>5 DEF Reloads
    <3>2. IsPrefix(heap, heap)
      BY <1>4, PrefixOfSelf
    <3> QED
      BY <1>4, <3>1, <3>2
  <2>2. CurrentSpan(new, v).incarnation = CurrentSpan(st, v).incarnation
    BY <1>5 DEF Reloads
  <2>3. CurrentSpan(st, v).incarnation \in Nat
    <3>1. CurrentSpan(st, v) \in Span
      BY <1>4, LastSpan DEF Living, Open
    <3> QED
      BY <3>1 DEF Span
  <2>4. Grows(st, t.db.store, v)
    BY <1>8, <2>1, <2>2, <2>3 DEF Grows
  <2> QED
    BY <1>11, <2>4 DEF Serves
<1>13. Serves(s, t, v)
  <2>1. Sane(x, s) /\ Sane(x, dead) /\ Sane(x, t)
    BY <1>1, <1>11 DEF Sound
  <2> QED
    BY <1>1, <1>12, <2>1, ServesServes
<1> QED
  BY <1>1, <1>7, <1>11, <1>13 DEF t

LEMMA MaybeSnapshotSound ==
  ASSUME NEW x, NEW s, NEW v \in Vats, Sound(x, s, {}, {}), v \in s.db.alive, cranks \in Nat,
         NEW least
  PROVE  LET t == MaybeSaveSnapshot(s, v, least)
         IN Sound(x, t, {}, {}) /\ Serves(s, t, v)
<1> DEFINE t == MaybeSaveSnapshot(s, v, least)
           u == EnsureVatOnline(s, v)
           w == SaveVatSnapshot(u, v)
<1>1. t = s \/ t = w
  BY DEF MaybeSaveSnapshot
<1> HIDE DEF t
<1>2. CASE t = s
  <2>1. Moves(s, s, v)
    BY DEF Moves
  <2>2. s.db.store \in Stores /\ Open(s.db.store.spans[v], s.db.store.snaps[v])
    BY DEF Sound, Sane, DbOK, Dbs, Living
  <2>3. Grows(s.db.store, s.db.store, v)
    BY <2>2, GrowsSame
  <2> QED
    BY <1>2, <2>1, <2>3 DEF Serves, t
<1>3. CASE t = w
  <2>1. Sound(x, s, {v}, {})
    BY SoundWider
  <2>2. Sound(x, u, {}, {}) /\ v \in u.ram.online /\ Serves(s, u, v)
    BY <2>1, EnsureSound
  <2>3. v \in u.db.alive
    BY <2>2 DEF Serves
  <2> HIDE DEF u
  <2>4. Sound(x, w, {}, {}) /\ v \in w.ram.online /\ Serves(u, w, v)
    BY <2>2, <2>3, SaveSnapshotSound
  <2> HIDE DEF w
  <2>5. Serves(s, w, v)
    <3>1. Sane(x, s) /\ Sane(x, u) /\ Sane(x, w)
      BY <2>2, <2>4 DEF Sound
    <3> QED
      BY <2>2, <2>4, <3>1, ServesServes
  <2> QED
    BY <1>3, <2>4, <2>5 DEF t
<1> QED
  BY <1>1, <1>2, <1>3

LEMMA StopSnapshotRows ==
  ASSUME NEW x, NEW st \in Stores, NEW t, NEW v \in Vats, NEW p, NEW q, OpenRows(x, st, t, v, p, q)
  PROVE  OpenRows(x, st, StopUsingLastSnapshot(t, v), v, p, Unused(q))
<1> DEFINE u == StopUsingLastSnapshot(t, v)
           r == Unused(q)
<1>1. /\ Rewrites(x, st, t, v, p, q) /\ t.spans[v] = p /\ t.snaps[v] = q /\ Open(p, q)
      /\ p \in Seq(Span) /\ t \in Stores /\ Described(x, t) /\ q \in Seq(Snap) /\ Orderly(p, q)
  BY DEF OpenRows, Rewrites, Open
<1>2. Rewrites(x, t, StopUsingLastSnapshot(t, v), v, t.spans[v], Unused(t.snaps[v]))
  BY <1>1, StopSnapshotWrites
<1>3. Rewrites(x, t, u, v, p, r)
  BY <1>1, <1>2
<1>4. Orderly(p, r)
  BY <1>1, UnusedIs
<1>5. Open(p, r)
  BY <1>1, <1>4 DEF Open
<1> HIDE DEF u, r
<1>6. Rewrites(x, st, u, v, p, r)
  BY <1>1, <1>3, RewritesRewrites
<1>7. OpenRows(x, st, u, v, p, r)
  BY <1>5, <1>6, OpenRowsIs
<1> QED
  BY <1>7 DEF u, r

(* A new incarnation starts with an empty span and no snapshot in use.     *)
Reborn(st, v) ==
  DoSpanRollover(StopUsingLastSnapshot(AddItem(st, v, <<"shutdown", 0>>), v), v, TRUE)
Begins(x, st, t, v, p, q) ==
  /\ Rewrites(x, st, t, v, p, q) /\ Living(p, q) /\ t \in Stores
  /\ CurrentSpan(st, v).incarnation \in Nat
  /\ CurrentSpan(t, v).incarnation = CurrentSpan(st, v).incarnation + 1

LEMMA RebornBegins ==
  ASSUME NEW x, NEW st \in Stores, NEW v \in Vats, Described(x, st),
         Living(st.spans[v], st.snaps[v])
  PROVE  \E p, q : Begins(x, st, Reborn(st, v), v, p, q)
<1> DEFINE p == st.spans[v]
           q == st.snaps[v]
           last == p[Len(p)]
           item == <<"shutdown", 0>>
           shut == AddItem(st, v, item)
           p1 == WithItem(p, item)
           unused == StopUsingLastSnapshot(shut, v)
           q1 == Unused(q)
           p2 == RolledOver(p1, TRUE)
           t == DoSpanRollover(unused, v, TRUE)
<1>1. /\ p \in Seq(Span) /\ q \in Seq(Snap) /\ Open(p, q) /\ Orderly(p, q) /\ p # <<>>
      /\ Below(q, last.start)
  BY RowTypes DEF Living, Open
<1>2. CurrentSpan(st, v) = last /\ last \in Span /\ Len(p) \in 1..Len(p)
  BY <1>1, LastSpan
<1>3. last.end = last.start + Len(last.items)
  BY <1>1, <1>2 DEF Orderly
<1>4. /\ last.start \in Nat /\ last.end \in Nat /\ last.items \in Seq(Item)
      /\ last.incarnation \in Nat
  BY <1>2 DEF Span
<1>5. Rewrites(x, st, st, v, p, q)
  BY DEF Rewrites, Stores
<1>6. Reborn(st, v) = t
  BY DEF Reborn
<1>7. Below(q, last.end + 1)
  <2>1. last.end >= last.start
    BY <1>3, <1>4
  <2>2. q \in Seq(Snap)
    BY <1>1
  <2> HIDE DEF last, q
  <2>3. \A i \in 1..Len(q) : q[i].pos \in Nat
    <3>1. \A i \in 1..Len(q) : q[i] \in Snap
      BY <2>2
    <3> QED
      BY <3>1 DEF Snap
  <2> QED
    BY <1>1, <1>4, <2>1, <2>3 DEF Below
<1> HIDE DEF p, q, item, shut, p1, unused, q1, p2, t
<1>8. OpenRows(x, st, st, v, p, q)
  BY <1>1, <1>5, OpenRowsIs
<1>9. item \in Item
  BY DEF Item, Kinds, item
<1>10. OpenRows(x, st, shut, v, p1, q) /\ p1[Len(p1)] = MoreItem(last, item)
  BY <1>8, <1>9, AddItemRows DEF shut, p1
<1> HIDE DEF last
<1>11. /\ p1[Len(p1)] \in Span /\ p1[Len(p1)].end = last.end + 1 /\ p1[Len(p1)].items # <<>>
       /\ p1[Len(p1)].incarnation = last.incarnation
  BY <1>2, <1>9, <1>10, LongSpanIs
<1>12. OpenRows(x, st, unused, v, p1, q1)
  BY <1>10, StopSnapshotRows DEF unused, q1
<1>13. /\ OpenRows(x, st, t, v, p2, q1)
       /\ p2[Len(p2)] = EmptySpan(p1[Len(p1)].end, NextIncarnation(p1[Len(p1)], TRUE))
  BY <1>11, <1>12, RolloverRows DEF t, p2
<1>14. p2[Len(p2)] = EmptySpan(last.end + 1, last.incarnation + 1)
  BY <1>11, <1>13 DEF NextIncarnation
<1>15. /\ p2[Len(p2)].start = last.end + 1 /\ p2[Len(p2)].items = <<>>
       /\ p2[Len(p2)].incarnation = last.incarnation + 1
  <2> DEFINE pos == last.end + 1
             incarnation == last.incarnation + 1
             empty == EmptySpan(pos, incarnation)
  <2>1. pos \in Nat /\ incarnation \in Nat
    BY <1>4
  <2> HIDE DEF pos, incarnation
  <2>2. empty.start = pos /\ empty.items = <<>> /\ empty.incarnation = incarnation
    BY <2>1, EmptySpanType
  <2> QED
    BY <1>14, <2>2 DEF pos, incarnation
<1>16. Below(q1, last.end + 1)
  BY <1>1, <1>7, UnusedIs DEF q1
<1>17. Living(p2, q1)
  BY <1>13, <1>15, <1>16 DEF Living, OpenRows
<1>18. t \in Stores /\ t.spans[v] = p2 /\ p2 # <<>> /\ Rewrites(x, st, t, v, p2, q1)
  BY <1>13 DEF OpenRows, Rewrites, Open
<1>19. CurrentSpan(t, v) = p2[Len(p2)]
  BY <1>18, LastSpan
<1>20. Begins(x, st, t, v, p2, q1)
  BY <1>2, <1>4, <1>15, <1>17, <1>18, <1>19 DEF Begins
<1> QED
  BY <1>6, <1>20

-----------------------------------------------------------------------------
(* Workers are stopped. *)

LEMMA StopWorkerSound ==
  ASSUME NEW x, NEW s, NEW v \in Vats, NEW W, Sound(x, s, {}, W)
  PROVE  LET t == StopWorker(s, v)
         IN /\ Sound(x, t, {}, W \ {v}) /\ v \notin t.ram.online /\ t.db = s.db
            /\ \A w \in Vats : Moves(s, t, w)
<1> DEFINE t == StopWorker(s, v)
<1>1. CASE v \in s.ram.online
  <2> DEFINE e == Evict(s, v)
  <2>1. t = e
    BY <1>1 DEF StopWorker
  <2>2. Lookup(s, v)
    BY <1>1 DEF Lookup
  <2> DEFINE R == {}
  <2>3. Sound(x, s, R, W)
    OBVIOUS
  <2> HIDE DEF R
  <2>4. Sound(x, e, R \ {v}, W \ {v}) /\ Evicted(s, e, v)
    BY <2>2, <2>3, EvictSound
  <2>5. R \ {v} = {}
    BY DEF R
  <2> HIDE DEF e, t
  <2>6. /\ e.db = s.db /\ e.ram.online = s.ram.online \ {v}
        /\ \A w \in Vats : Moves(s, e, w)
    BY <2>4 DEF Evicted
  <2>7. Sound(x, e, {}, W \ {v})
    BY <2>4, <2>5
  <2> QED
    BY <2>1, <2>6, <2>7 DEF t
<1>2. CASE v \notin s.ram.online
  <2>1. t = s
    BY <1>2 DEF StopWorker
  <2>2. \A w \in s.ram.online \ (W \ {v}) : w \in s.ram.online \ W
    BY <1>2
  <2>3. Sound(x, s, {}, W \ {v})
    BY <2>2 DEF Sound
  <2>4. \A w \in Vats : Moves(s, s, w)
    BY DEF Moves
  <2> QED
    BY <1>2, <2>1, <2>3, <2>4
<1> QED
  BY <1>1, <1>2

LEMMA IncarnationSound ==
  ASSUME NEW x, NEW s, NEW v \in Vats, Sound(x, s, {}, {}), v \in s.db.alive
  PROVE  LET t == BeginNewWorkerIncarnation(s, v)
         IN Sound(x, t, {}, {}) /\ Serves(s, t, v)
<1> DEFINE u == Evict(s, v)
           st == u.db.store
           new == Reborn(st, v)
           t == BeginNewWorkerIncarnation(s, v)
           R == {}
           W == {}
<1>1. Sound(x, u, R \ {v}, W \ {v}) /\ Evicted(s, u, v)
  <2>1. Lookup(s, v) /\ Sound(x, s, R, W)
    BY DEF Lookup
  <2> HIDE DEF R, W
  <2> QED
    BY <2>1, EvictSound
<1>2. t = WithStore(u, new)
  BY DEF BeginNewWorkerIncarnation, WithStore, Reborn
<1> HIDE DEF u, t
<1>3. Sound(x, u, {}, {}) /\ u.db = s.db /\ v \notin u.ram.online /\ Moves(s, u, v)
  <2>1. R \ {v} = {} /\ W \ {v} = {}
    OBVIOUS
  <2> HIDE DEF R, W
  <2> QED
    BY <1>1, <2>1 DEF Evicted
<1>4. u \in States /\ DbOK(x, u.db) /\ u.db \in Dbs /\ v \in u.db.alive
  BY <1>3 DEF Sound, Sane, States
<1>5. st \in Stores /\ Described(x, st) /\ Living(st.spans[v], st.snaps[v])
  BY <1>4 DEF DbOK, Dbs
<1>6. PICK p, q : Begins(x, st, new, v, p, q)
  <2> HIDE DEF st
  <2> QED
    BY <1>5, RebornBegins
<1> HIDE DEF new
<1>7. new \in Stores
  BY <1>6 DEF Begins
<1>8. t \in States /\ t.db = [u.db EXCEPT !.store = new] /\ t.ram = u.ram
  BY <1>2, <1>4, <1>7, WithStoreIs
<1>9. /\ t.db.store = new /\ t.db.alive = u.db.alive /\ t.db.created = u.db.created
      /\ t.db.terminated = u.db.terminated /\ t.db.meter = u.db.meter
  BY <1>4, <1>8 DEF Dbs
<1>10. Reworks(x, u, t, v, p, q) /\ Living(p, q)
  BY <1>6, <1>8, <1>9 DEF Reworks, Begins
<1>11. Sound(x, t, {}, {}) /\ Moves(u, t, v) /\ t.db.alive = u.db.alive
  <2>1. v \notin t.ram.online
    BY <1>3, <1>8
  <2> QED
    BY <1>3, <1>4, <1>10, <2>1, ReworksSound
<1>12. Grows(s.db.store, t.db.store, v)
  <2>1. /\ CurrentSpan(st, v).incarnation \in Nat
        /\ CurrentSpan(new, v).incarnation = CurrentSpan(st, v).incarnation + 1
    BY <1>6 DEF Begins
  <2>2. st = s.db.store
    BY <1>3
  <2> HIDE DEF st
  <2> QED
    BY <1>9, <2>1, <2>2 DEF Grows
<1>13. Moves(s, t, v)
  BY <1>3, <1>4, <1>8, <1>11, MovesMoves DEF Sound, Sane
<1> QED
  BY <1>3, <1>9, <1>11, <1>12, <1>13 DEF Serves, t

LEMMA ServesSame ==
  ASSUME NEW x, NEW s, NEW t, NEW v \in Vats, Sane(x, s), Moves(s, t, v), t.db = s.db,
         v \in s.db.alive
  PROVE  Serves(s, t, v)
<1>1. s.db.store \in Stores /\ Open(s.db.store.spans[v], s.db.store.snaps[v])
  BY DEF Sane, DbOK, Dbs, Living
<1>2. Grows(s.db.store, s.db.store, v)
  BY <1>1, GrowsSame
<1> QED
  BY <1>2 DEF Serves

LEMMA LogSound ==
  ASSUME NEW x, NEW s, NEW v \in Vats, Sound(x, s, {}, {}), v \in s.db.alive, cranks \in Nat,
         NEW kind \in {"start", "boyd", "msg"}, NEW outcome
  PROVE  LET t == DeliverAndLog(s, v, kind, outcome)
         IN Sound(x, t, {}, {}) /\ Serves(s, t, v)
<1> DEFINE done == DeliverToVat(s, v, kind)
           stopped == StopWorker(done, v)
           t == DeliverAndLog(s, v, kind, outcome)
<1>1. Sound(x, done, {}, {}) /\ Serves(s, done, v)
  BY DeliverSound
<1>2. t = done \/ t = stopped
  BY DEF DeliverAndLog
<1> HIDE DEF done, t
<1>3. CASE t = done
  BY <1>1, <1>3 DEF t
<1>4. CASE t = stopped
  <2> DEFINE W == {}
  <2>1. Sound(x, done, {}, W)
    BY <1>1
  <2> HIDE DEF W
  <2>2. /\ Sound(x, stopped, {}, W \ {v}) /\ stopped.db = done.db
        /\ \A w \in Vats : Moves(done, stopped, w)
    BY <2>1, StopWorkerSound
  <2>3. W \ {v} = {}
    BY DEF W
  <2> HIDE DEF stopped
  <2>4. Sound(x, stopped, {}, {}) /\ Moves(done, stopped, v)
    BY <2>2, <2>3
  <2>5. v \in done.db.alive /\ Sane(x, done) /\ Sane(x, s) /\ Sane(x, stopped)
    BY <1>1, <2>4 DEF Serves, Sound
  <2>6. Serves(done, stopped, v)
    BY <2>2, <2>4, <2>5, ServesSame
  <2>7. Serves(s, stopped, v)
    BY <1>1, <2>5, <2>6, ServesServes
  <2> QED
    BY <1>4, <2>4, <2>7 DEF t
<1> QED
  BY <1>2, <1>3, <1>4

-----------------------------------------------------------------------------
(* The end of a crank: meters, dirt, and the end of a vat. *)

Keeps(s, t) ==
  /\ t \in States /\ t.ram = s.ram /\ t.db.store = s.db.store /\ t.db.alive = s.db.alive
  /\ t.db.created = s.db.created /\ t.db.terminated = s.db.terminated

LEMMA KeepsSound ==
  ASSUME NEW x, NEW s, NEW t, NEW R, NEW W, Sound(x, s, R, W), Keeps(s, t)
  PROVE  Sound(x, t, R, W)
<1>1. t \in States /\ t.db \in Dbs
  BY DEF Keeps, States
<1>2. DbOK(x, t.db)
  BY <1>1 DEF Keeps, DbOK, Sound, Sane
<1>3. \A w \in t.ram.online \ W : Works(t, w)
  BY DEF Keeps, Works, Sound
<1> QED
  BY <1>1, <1>2, <1>3 DEF Keeps, Sound, Sane

Charged(meter, meters, c) ==
  [m \in Meters |-> IF m \notin meters THEN meter[m] ELSE IF c > meter[m] THEN 0 ELSE meter[m] - c]
WithMeter(s, meter) == [s EXCEPT !.db.meter = meter]

LEMMA WithMeterIs ==
  ASSUME NEW s \in States, NEW meter \in [Meters -> Nat]
  PROVE  Keeps(s, WithMeter(s, meter)) /\ WithMeter(s, meter).db.meter = meter
<1> DEFINE d == [s.db EXCEPT !.meter = meter]
           t == WithMeter(s, meter)
<1>1. s.db \in Dbs /\ s.ram \in Rams
  BY DEF States
<1>2. /\ d \in Dbs /\ d.store = s.db.store /\ d.alive = s.db.alive
      /\ d.created = s.db.created /\ d.terminated = s.db.terminated /\ d.meter = meter
  BY <1>1 DEF Dbs
<1>3. t = [db |-> d, ram |-> s.ram]
  BY DEF WithMeter, States
<1> HIDE DEF d, t
<1>4. t \in States /\ t.db = d /\ t.ram = s.ram
  BY <1>1, <1>2, <1>3 DEF States
<1> QED
  BY <1>2, <1>4 DEF Keeps, t

LEMMA DeductMeterIs ==
  ASSUME NEW s \in States, NEW meters, NEW c \in Nat
  PROVE  /\ Keeps(s, DeductMeter(s, meters, c))
         /\ DeductMeter(s, meters, c).db.meter = Charged(s.db.meter, meters, c)
         /\ Charged(s.db.meter, meters, c) \in [Meters -> Nat]
<1> DEFINE meter == Charged(s.db.meter, meters, c)
<1>1. s.db.meter \in [Meters -> Nat]
  BY DEF States, Dbs
<1>2. meter \in [Meters -> Nat]
  BY <1>1 DEF Charged
<1>3. DeductMeter(s, meters, c) = WithMeter(s, meter)
  BY DEF DeductMeter, WithMeter, Charged, States
<1> HIDE DEF meter
<1>4. Keeps(s, WithMeter(s, meter)) /\ WithMeter(s, meter).db.meter = meter
  BY <1>2, WithMeterIs
<1> QED
  BY <1>2, <1>3, <1>4 DEF meter

ScheduleReapKeeps(s, t) == Keeps(s, t) /\ t.db.meter = s.db.meter

LEMMA ScheduleReapIs ==
  ASSUME NEW s \in States, NEW v \in Vats
  PROVE  ScheduleReapKeeps(s, ScheduleReap(s, v))
<1> DEFINE queue == IF v \in ToSet(s.db.reapQueue) THEN s.db.reapQueue ELSE Append(s.db.reapQueue, v)
           d == [s.db EXCEPT !.reapQueue = queue]
           t == ScheduleReap(s, v)
<1>1. s.db \in Dbs /\ s.ram \in Rams
  BY DEF States
<1>2. queue \in Seq(Vats)
  BY <1>1 DEF Dbs
<1>3. t = [s EXCEPT !.db.reapQueue = queue]
  BY <1>1 DEF ScheduleReap, States, Dbs
<1> HIDE DEF queue, t
<1>4. /\ d \in Dbs /\ d.store = s.db.store /\ d.alive = s.db.alive
      /\ d.created = s.db.created /\ d.terminated = s.db.terminated /\ d.meter = s.db.meter
  BY <1>1, <1>2 DEF Dbs
<1>5. t = [db |-> d, ram |-> s.ram]
  BY <1>3 DEF States
<1> HIDE DEF d
<1>6. t \in States /\ t.db = d /\ t.ram = s.ram
  BY <1>1, <1>4, <1>5 DEF States
<1> QED
  BY <1>4, <1>6 DEF ScheduleReapKeeps, Keeps, t

LEMMA AddDirtIs ==
  ASSUME NEW s \in States, NEW v \in Vats
  PROVE  ScheduleReapKeeps(s, AddDirt(s, v))
<1> DEFINE dirt == [s.db.dirt EXCEPT ![v] = @ + 1]
           d == [s.db EXCEPT !.dirt = dirt]
           u == [s EXCEPT !.db.dirt[v] = @ + 1]
           t == AddDirt(s, v)
<1>1. s.db \in Dbs /\ s.ram \in Rams
  BY DEF States
<1>2. dirt \in [Vats -> Nat]
  BY <1>1 DEF Dbs
<1>3. u = [s EXCEPT !.db.dirt = dirt]
  BY <1>1 DEF States, Dbs
<1>4. t = u \/ t = ScheduleReap(u, v)
  BY DEF AddDirt
<1> HIDE DEF dirt, u, t
<1>5. /\ d \in Dbs /\ d.store = s.db.store /\ d.alive = s.db.alive
      /\ d.created = s.db.created /\ d.terminated = s.db.terminated /\ d.meter = s.db.meter
  BY <1>1, <1>2 DEF Dbs
<1>6. u = [db |-> d, ram |-> s.ram]
  BY <1>3 DEF States
<1> HIDE DEF d
<1>7. u \in States /\ u.db = d /\ u.ram = s.ram
  BY <1>1, <1>5, <1>6 DEF States
<1>8. ScheduleReapKeeps(s, u)
  BY <1>5, <1>7 DEF ScheduleReapKeeps, Keeps
<1>9. ScheduleReapKeeps(u, ScheduleReap(u, v))
  BY <1>7, ScheduleReapIs
<1>10. ScheduleReapKeeps(s, ScheduleReap(u, v))
  BY <1>8, <1>9 DEF ScheduleReapKeeps, Keeps
<1> QED
  BY <1>4, <1>8, <1>10 DEF t

Ends(x, st, t, v, p, q) == Rewrites(x, st, t, v, p, q) /\ Closed(p, q) /\ t \in Stores

LEMMA StoppedEnds ==
  ASSUME NEW x, NEW st \in Stores, NEW v \in Vats, Described(x, st), Open(st.spans[v], st.snaps[v])
  PROVE  \E p, q : Ends(x, st, StopUsingTranscript(StopUsingLastSnapshot(st, v), v), v, p, q)
<1> DEFINE p == st.spans[v]
           q == st.snaps[v]
           t == StopUsingLastSnapshot(st, v)
           r == Unused(q)
           u == StopUsingTranscript(t, v)
           shut == Shut(p)
<1>1. p \in Seq(Span) /\ q \in Seq(Snap) /\ Orderly(p, q) /\ p # <<>>
  BY RowTypes DEF Open
<1>2. Rewrites(x, st, st, v, p, q)
  BY DEF Rewrites, Stores
<1> HIDE DEF p, q, t, r, u, shut
<1>3. OpenRows(x, st, st, v, p, q)
  BY <1>2, OpenRowsIs DEF p, q
<1>4. OpenRows(x, st, t, v, p, r)
  BY <1>3, StopSnapshotRows DEF t, r
<1>5. /\ t \in Stores /\ Described(x, t) /\ t.spans[v] = p /\ t.snaps[v] = r /\ Open(p, r)
      /\ Rewrites(x, st, t, v, p, r)
  BY <1>4 DEF OpenRows, Rewrites
<1>6. Rewrites(x, t, u, v, Shut(t.spans[v]), t.snaps[v])
  BY <1>5, StopTranscriptWrites DEF u
<1>7. Rewrites(x, st, u, v, shut, r)
  <2>1. Rewrites(x, t, u, v, shut, r)
    BY <1>5, <1>6 DEF shut
  <2> QED
    BY <1>5, <2>1, RewritesRewrites
<1>8. /\ Len(shut) = Len(p)
      /\ \A i \in 1..Len(p) : /\ shut[i].start = p[i].start
                              /\ shut[i].end = shut[i].start + Len(shut[i].items)
                              /\ ~shut[i].current
  BY <1>1, <1>5, ShutIs DEF shut
<1>9. Orderly(p, r) /\ \A i \in 1..Len(q) : ~r[i].inUse
  BY <1>1, UnusedIs DEF r
<1>10. Len(r) = Len(q)
  BY <1>1, UnusedIs DEF r
<1>11. Closed(shut, r)
  BY <1>8, <1>9, <1>10 DEF Closed, Orderly
<1>12. u \in Stores
  BY <1>7 DEF Rewrites
<1>13. Ends(x, st, u, v, shut, r)
  BY <1>7, <1>11, <1>12 DEF Ends
<1> QED
  BY <1>13 DEF u, t

Dead(s, v, st) ==
  [s EXCEPT !.db.alive = @ \ {v}, !.db.terminated = Append(@, v), !.db.store = st]

Deadens(s, t, v, st) ==
  /\ t \in States /\ t.ram = s.ram
  /\ t.db = [s.db EXCEPT !.alive = @ \ {v}, !.terminated = Append(@, v), !.store = st]

LEMMA DeadIs ==
  ASSUME NEW s \in States, NEW v \in Vats, NEW st \in Stores
  PROVE  Deadens(s, Dead(s, v, st), v, st)
<1> DEFINE alive == s.db.alive \ {v}
           terminated == Append(s.db.terminated, v)
           d == [s.db EXCEPT !.alive = alive, !.terminated = terminated, !.store = st]
           t == Dead(s, v, st)
<1>1. s.db \in Dbs /\ s.ram \in Rams
  BY DEF States
<1>2. alive \in SUBSET Vats /\ terminated \in Seq(Vats)
  BY <1>1 DEF Dbs
<1>3. t = [s EXCEPT !.db.alive = alive, !.db.terminated = terminated, !.db.store = st]
  BY DEF Dead, States
<1>4. d = [s.db EXCEPT !.alive = @ \ {v}, !.terminated = Append(@, v), !.store = st]
  BY <1>1 DEF Dbs
<1> HIDE DEF alive, terminated, t
<1>5. d \in Dbs
  BY <1>1, <1>2 DEF Dbs
<1>6. t = [db |-> d, ram |-> s.ram]
  BY <1>1, <1>3 DEF States, Dbs
<1> HIDE DEF d
<1>7. t \in States /\ t.db = d /\ t.ram = s.ram
  BY <1>1, <1>5, <1>6 DEF States
<1> QED
  BY <1>4, <1>7 DEF t, Deadens

LEMMA WithinAppend ==
  ASSUME NEW T, NEW s \in Seq(T), NEW e \in T, NEW S, NEW S2, Within(s, S), S \subseteq S2, e \in S2
  PROVE  Within(Append(s, e), S2)
BY DEF Within

LEMMA TerminateSound ==
  ASSUME NEW x, NEW s, NEW v \in Vats, Sound(x, s, {}, {v})
  PROVE  LET t == TerminateVat(s, v)
         IN Sound(x, t, {}, {}) /\ v \notin t.db.alive /\ Moves(s, t, v)
<1> DEFINE st == s.db.store
           new == StopUsingTranscript(StopUsingLastSnapshot(st, v), v)
           dead == IF v \in s.db.alive THEN Dead(s, v, new) ELSE s
           t == TerminateVat(s, v)
           W == {v}
<1>1. s \in States /\ s.db \in Dbs /\ s.ram \in Rams /\ DbOK(x, s.db)
  BY DEF Sound, Sane, States
<1>2. t = StopWorker(dead, v)
  BY DEF TerminateVat, Dead
<1>3. Sound(x, dead, {}, W) /\ v \notin dead.db.alive /\ Moves(s, dead, v)
  <2>1. CASE v \notin s.db.alive
    <3>1. Moves(s, s, v)
      BY DEF Moves
    <3> QED
      BY <2>1, <3>1
  <2>2. CASE v \in s.db.alive
    <3>1. st \in Stores /\ Described(x, st) /\ Open(st.spans[v], st.snaps[v])
      BY <1>1, <2>2 DEF DbOK, Dbs, Living
    <3>2. PICK p, q : Ends(x, st, new, v, p, q)
      <4> HIDE DEF st
      <4> QED
        BY <3>1, StoppedEnds
    <3> HIDE DEF new
    <3>3. new \in Stores /\ Rewrites(x, st, new, v, p, q) /\ Closed(p, q) /\ Described(x, new)
      BY <3>2 DEF Ends, Rewrites
    <3> DEFINE u == Dead(s, v, new)
    <3>4. /\ u \in States /\ u.ram = s.ram
          /\ u.db = [s.db EXCEPT !.alive = @ \ {v}, !.terminated = Append(@, v), !.store = new]
      <4>1. Deadens(s, u, v, new)
        BY <1>1, <3>3, DeadIs
      <4> QED
        BY <4>1 DEF Deadens
    <3> HIDE DEF u
    <3>5. /\ u.db.store = new /\ u.db.alive = s.db.alive \ {v} /\ u.db.created = s.db.created
          /\ u.db.terminated = Append(s.db.terminated, v) /\ u.db.meter = s.db.meter
      BY <1>1, <3>4 DEF Dbs
    <3>6. /\ new.spans[v] = p /\ new.snaps[v] = q
          /\ \A w \in Vats \ {v} : new.spans[w] = st.spans[w] /\ new.snaps[w] = st.snaps[w]
      <4> HIDE DEF st
      <4> QED
        BY <3>1, <3>3, RewritesRows
    <3>7. DbOK(x, u.db)
      <4>1. u.db \in Dbs /\ u.db.alive \subseteq u.db.created
        BY <1>1, <3>4, <3>5 DEF States, DbOK
      <4>2. IsFiniteSet(u.db.alive)
        BY <1>1, <3>5, FS_Subset DEF DbOK
      <4>3. Within(u.db.terminated, u.db.created \ u.db.alive)
        <5>1. /\ s.db.terminated \in Seq(Vats) /\ Within(s.db.terminated, s.db.created \ s.db.alive)
              /\ v \in s.db.created
          BY <1>1, <2>2 DEF DbOK, Dbs
        <5> DEFINE S == s.db.created \ s.db.alive
                   S2 == u.db.created \ u.db.alive
                   seq == s.db.terminated
        <5>2. S \subseteq S2 /\ v \in S2
          BY <3>5, <5>1
        <5> HIDE DEF S, S2
        <5>3. Within(Append(seq, v), S2)
          BY <5>1, <5>2, WithinAppend DEF S
        <5> QED
          BY <3>5, <5>3 DEF S2
      <4>4. \A w \in u.db.alive : Living(u.db.store.spans[w], u.db.store.snaps[w])
        BY <1>1, <3>5, <3>6 DEF DbOK, Dbs
      <4>5. \A w \in Vats \ u.db.alive : Closed(u.db.store.spans[w], u.db.store.snaps[w])
        BY <1>1, <3>3, <3>5, <3>6 DEF DbOK
      <4>6. \A w \in Vats \ u.db.created : u.db.store.spans[w] = <<>> /\ u.db.store.snaps[w] = <<>>
        BY <1>1, <2>2, <3>5, <3>6 DEF DbOK
      <4> QED
        BY <3>3, <3>5, <4>1, <4>2, <4>3, <4>4, <4>5, <4>6 DEF DbOK
    <3>8. \A w \in u.ram.online \ W : Works(u, w)
      <4> SUFFICES ASSUME NEW w \in s.ram.online \ {v} PROVE Works(u, w)
        BY <3>4
      <4>1. Works(s, w) /\ w \in Vats
        BY <1>1 DEF Sound, Rams
      <4>2. new.spans[w] = st.spans[w] /\ new.snaps[w] = st.snaps[w]
        BY <3>6, <4>1
      <4>3. Rebuilt(new, w) = Rebuilt(st, w) /\ CurrentSpan(new, w) = CurrentSpan(st, w)
        BY <4>2 DEF Rebuilt, CurrentSpan, SnapshotInUse
      <4> QED
        BY <3>4, <3>5, <4>1, <4>3 DEF Works
    <3>9. Sound(x, u, {}, W)
      BY <3>4, <3>7, <3>8 DEF Sound, Sane
    <3>10. Moves(s, u, v)
      BY <3>4, <3>5, <3>6 DEF Moves
    <3>11. dead = u
      BY <2>2 DEF u
    <3> QED
      BY <3>5, <3>9, <3>10, <3>11
  <2> QED
    BY <2>1, <2>2
<1> HIDE DEF dead, W, t
<1> DEFINE stopped == StopWorker(dead, v)
<1>4. /\ Sound(x, stopped, {}, W \ {v}) /\ v \notin stopped.ram.online /\ stopped.db = dead.db
      /\ \A w \in Vats : Moves(dead, stopped, w)
  BY <1>3, StopWorkerSound
<1>5. W \ {v} = {}
  BY DEF W
<1> HIDE DEF stopped
<1>6. Sound(x, stopped, {}, {}) /\ Moves(dead, stopped, v) /\ v \notin stopped.db.alive
  BY <1>3, <1>4, <1>5
<1>7. Moves(s, stopped, v)
  BY <1>1, <1>3, <1>6, MovesMoves DEF Sound, Sane
<1> QED
  BY <1>2, <1>6, <1>7 DEF t, stopped

Finishes(b, t, v, meter) ==
  /\ \A w \in Vats \ {v} : /\ t.db.store.spans[w] = b.db.store.spans[w]
                           /\ t.db.store.snaps[w] = b.db.store.snaps[w]
                           /\ w \in t.db.alive <=> w \in b.db.alive
  /\ v \in b.db.alive /\ v \in t.db.alive => Grows(b.db.store, t.db.store, v)
  /\ t.db.meter = meter

LEMMA FinishesKeeps ==
  ASSUME NEW b, NEW s, NEW t, NEW v, NEW m, Finishes(b, s, v, m), Keeps(s, t)
  PROVE  Finishes(b, t, v, t.db.meter)
BY DEF Finishes, Keeps

LEMMA FinishesMoves ==
  ASSUME NEW b, NEW s, NEW t, NEW v, NEW m, Finishes(b, s, v, m), Moves(s, t, v), v \notin t.db.alive
  PROVE  Finishes(b, t, v, m)
BY DEF Finishes, Moves

(* The database is rolled back, the workers are not.                       *)
LEMMA AbortSound ==
  ASSUME NEW x, NEW b, NEW s, NEW v \in Vats, Sane(x, b), Sound(x, s, {}, {}), Moves(b, s, v)
  PROVE  LET t == [s EXCEPT !.db = b.db]
         IN /\ Sound(x, t, {}, {v}) /\ (v \notin s.ram.online => Sound(x, t, {}, {}))
            /\ Finishes(b, t, v, b.db.meter)
<1> DEFINE t == [s EXCEPT !.db = b.db]
<1>1. b \in States /\ b.db \in Dbs /\ DbOK(x, b.db) /\ s \in States /\ s.ram \in Rams
  BY DEF Sound, Sane, States
<1>2. t = [db |-> b.db, ram |-> s.ram]
  BY <1>1 DEF States
<1> HIDE DEF t
<1>3. t \in States /\ t.db = b.db /\ t.ram = s.ram
  BY <1>1, <1>2 DEF States
<1>4. ASSUME NEW w \in s.ram.online, w # v
      PROVE  Works(t, w)
  <2>1. Works(s, w) /\ w \in Vats
    BY <1>1 DEF Sound, Rams
  <2>2. /\ s.db.store.spans[w] = b.db.store.spans[w]
        /\ s.db.store.snaps[w] = b.db.store.snaps[w]
        /\ w \in s.db.alive <=> w \in b.db.alive
    BY <1>4, <2>1 DEF Moves
  <2>3. /\ Rebuilt(b.db.store, w) = Rebuilt(s.db.store, w)
        /\ CurrentSpan(b.db.store, w) = CurrentSpan(s.db.store, w)
    BY <2>2 DEF Rebuilt, CurrentSpan, SnapshotInUse
  <2> QED
    BY <1>3, <2>1, <2>2, <2>3 DEF Works
<1>5. Sound(x, t, {}, {v}) /\ (v \notin s.ram.online => Sound(x, t, {}, {}))
  BY <1>1, <1>3, <1>4 DEF Sound, Sane
<1>6. Finishes(b, t, v, b.db.meter)
  <2>1. v \in b.db.alive => Grows(b.db.store, b.db.store, v)
    <3> SUFFICES ASSUME v \in b.db.alive PROVE Grows(b.db.store, b.db.store, v)
      OBVIOUS
    <3>1. b.db.store \in Stores /\ Open(b.db.store.spans[v], b.db.store.snaps[v])
      BY <1>1 DEF DbOK, Dbs, Living
    <3> QED
      BY <3>1, GrowsSame
  <2> QED
    BY <1>3, <2>1 DEF Finishes
<1> QED
  BY <1>5, <1>6 DEF t

(* The results of a crank: user code cannot both abort and add dirt, and   *)
(* an abort that keeps the vat has stopped its worker.                     *)
ResultsFit(r, s, v) ==
  /\ r.did \in BOOLEAN /\ r.abort \in BOOLEAN /\ r.terminate \in BOOLEAN /\ r.dirt \in BOOLEAN
  /\ r.computrons \in Nat
  /\ r.abort => ~r.dirt
  /\ r.abort /\ ~r.terminate => v \notin s.ram.online

\* What FinishCrank ends the crank with.
Finished(s, v, saved, r) == PaidFor(Concluded(s, v, saved, r), v, r)

LEMMA FinishSound ==
  ASSUME NEW x, NEW b, NEW s, NEW v \in Vats, Sane(x, b), Sound(x, s, {}, {}), Moves(b, s, v),
         v \in s.db.alive, v \in b.db.alive => Serves(b, s, v), cranks \in Nat,
         NEW r, ResultsFit(r, s, v)
  PROVE  LET t == Finished(s, v, b.db, r)
         IN /\ Sound(x, t, {}, {})
            /\ Finishes(b, t, v, Charged(b.db.meter, r.meters, r.computrons))
<1> DEFINE saved == [s EXCEPT !.db = b.db]
           settled == IF r.abort THEN saved
                      ELSE IF r.did THEN MaybeSaveSnapshot(s, v, SnapshotInterval) ELSE s
           paid == DeductMeter(settled, r.meters, r.computrons)
           dirtied == IF r.dirt THEN AddDirt(paid, v) ELSE paid
           ended == IF r.terminate THEN TerminateVat(dirtied, v) ELSE dirtied
           meter == Charged(b.db.meter, r.meters, r.computrons)
           W == {v}
<1>1. Finished(s, v, b.db, r) = ended
  BY DEF Finished, PaidFor, Concluded
<1>2. /\ Sound(x, settled, {}, W) /\ (~r.terminate => Sound(x, settled, {}, {}))
      /\ Finishes(b, settled, v, b.db.meter)
  <2>1. CASE r.abort
    <3>1. /\ Sound(x, saved, {}, {v}) /\ (v \notin s.ram.online => Sound(x, saved, {}, {}))
          /\ Finishes(b, saved, v, b.db.meter)
      BY AbortSound
    <3>2. settled = saved
      BY <2>1
    <3> HIDE DEF saved, settled
    <3> QED
      BY <2>1, <3>1, <3>2 DEF ResultsFit
  <2>2. ASSUME NEW t, Sound(x, t, {}, {}), Serves(s, t, v)
        PROVE  Sound(x, t, {}, W) /\ Finishes(b, t, v, b.db.meter)
    <3>1. Sound(x, t, {}, W)
      BY <2>2, SoundWider
    <3>2. b \in States /\ s \in States /\ t \in States /\ Sane(x, s) /\ Sane(x, t)
      BY <2>2 DEF Sound, Sane
    <3>3. Moves(b, t, v)
      BY <2>2, <3>2, MovesMoves DEF Serves
    <3>4. v \in b.db.alive => Grows(b.db.store, t.db.store, v)
      BY <2>2, <3>2, ServesServes DEF Serves
    <3> QED
      BY <3>1, <3>3, <3>4 DEF Finishes, Moves
  <2>3. CASE ~r.abort /\ r.did
    <3> DEFINE t == MaybeSaveSnapshot(s, v, SnapshotInterval)
    <3>1. Sound(x, t, {}, {}) /\ Serves(s, t, v)
      BY MaybeSnapshotSound
    <3>2. settled = t
      BY <2>3
    <3> HIDE DEF t, settled
    <3> QED
      BY <2>2, <3>1, <3>2
  <2>4. CASE ~r.abort /\ ~r.did
    <3>1. settled = s
      BY <2>4
    <3>2. Moves(s, s, v)
      BY DEF Moves
    <3>3. Serves(s, s, v)
      BY <3>2, ServesSame DEF Sound
    <3> HIDE DEF settled
    <3> QED
      BY <2>2, <3>1, <3>3
  <2> QED
    BY <2>1, <2>3, <2>4 DEF ResultsFit
<1> HIDE DEF settled
<1>3. /\ Keeps(settled, paid) /\ paid.db.meter = meter
  <2>1. settled \in States /\ r.computrons \in Nat
    BY <1>2 DEF Sound, Sane, ResultsFit
  <2>2. settled.db.meter = b.db.meter
    BY <1>2 DEF Finishes
  <2> QED
    BY <2>1, <2>2, DeductMeterIs
<1> HIDE DEF paid, meter
<1>4. Keeps(settled, dirtied) /\ dirtied.db.meter = meter
  <2>1. paid \in States
    BY <1>3 DEF Keeps
  <2>2. ScheduleReapKeeps(paid, AddDirt(paid, v))
    BY <2>1, AddDirtIs
  <2>3. dirtied = paid \/ dirtied = AddDirt(paid, v)
    OBVIOUS
  <2> HIDE DEF dirtied
  <2> QED
    BY <1>3, <2>2, <2>3 DEF ScheduleReapKeeps, Keeps
<1> HIDE DEF dirtied, W
<1>5. Sound(x, dirtied, {}, W) /\ (~r.terminate => Sound(x, dirtied, {}, {}))
  BY <1>2, <1>4, KeepsSound
<1>6. Finishes(b, dirtied, v, meter)
  BY <1>2, <1>4, FinishesKeeps
<1>7. CASE r.terminate
  <2> DEFINE t == TerminateVat(dirtied, v)
  <2>1. Sound(x, t, {}, {}) /\ v \notin t.db.alive /\ Moves(dirtied, t, v)
    BY <1>5, TerminateSound DEF W
  <2>2. ended = t
    BY <1>7
  <2> HIDE DEF t, ended
  <2>3. Finishes(b, t, v, meter)
    BY <1>6, <2>1, FinishesMoves
  <2> QED
    BY <1>1, <2>1, <2>2, <2>3 DEF meter
<1>8. CASE ~r.terminate
  <2>1. ended = dirtied
    BY <1>8
  <2> HIDE DEF ended
  <2> QED
    BY <1>1, <1>5, <1>6, <1>8, <2>1 DEF meter
<1> QED
  BY <1>7, <1>8 DEF ResultsFit

-----------------------------------------------------------------------------
(* What the host does with every vat, in the order of their IDs.           *)

Increasing(s) == \A i, j \in DOMAIN s : i < j => s[i] < s[j]

LEMMA OrderExists ==
  ASSUME NEW S \in SUBSET Nat, IsFiniteSet(S)
  PROVE  \E s \in [1..Cardinality(S) -> S] : Increasing(s)
<1> DEFINE Ordered(T) == \E s \in [1..Cardinality(T) -> T] : Increasing(s)
           Bad == {n \in Nat : \E T \in SUBSET Nat : IsFiniteSet(T) /\ Cardinality(T) = n
                                                     /\ ~Ordered(T)}
<1>1. SUFFICES Bad = {}
  <2>1. Cardinality(S) \in Nat
    BY FS_CardinalityType
  <2> QED
    BY <1>1, <2>1
<1>2. SUFFICES ASSUME Bad # {}
               PROVE  FALSE
  OBVIOUS
<1>3. PICK n \in Bad : \A m \in Bad : n <= m
  <2>1. Bad \in SUBSET Nat
    OBVIOUS
  <2> HIDE DEF Bad
  <2> QED
    BY <1>2, <2>1, SmallestMember
<1>4. PICK T \in SUBSET Nat : IsFiniteSet(T) /\ Cardinality(T) = n /\ ~Ordered(T)
  BY <1>3
<1>5. n \in Nat
  BY <1>3
<1>6. T # {}
  <2>1. SUFFICES ASSUME T = {}
                 PROVE  FALSE
    OBVIOUS
  <2>2. Cardinality(T) = 0
    BY <2>1, FS_EmptySet
  <2> DEFINE s == [i \in 1..0 |-> 0]
  <2>3. s \in [1..0 -> T] /\ Increasing(s)
    BY <2>1 DEF Increasing
  <2> HIDE DEF s
  <2>4. Ordered(T)
    BY <2>2, <2>3
  <2> QED
    BY <1>4, <2>4
<1>7. PICK m \in T : \A t \in T : m <= t
  BY <1>6, SmallestMember
<1> DEFINE U == T \ {m}
<1>8. /\ U \in SUBSET Nat /\ IsFiniteSet(U) /\ Cardinality(U) = n - 1
  BY <1>4, <1>7, FS_RemoveElement
<1>9. n - 1 \in Nat
  BY <1>8, FS_CardinalityType
<1>10. n - 1 \notin Bad
  BY <1>3, <1>5, <1>9
<1>11. Ordered(U)
  BY <1>8, <1>9, <1>10
<1>12. PICK s \in [1..n - 1 -> U] : Increasing(s)
  BY <1>8, <1>11
<1> DEFINE t == [i \in 1..n |-> IF i = 1 THEN m ELSE s[i - 1]]
<1> HIDE DEF Ordered, Bad
<1>13. ASSUME NEW i \in 1..n, i # 1
       PROVE  i - 1 \in 1..n - 1 /\ s[i - 1] \in T /\ m < s[i - 1]
  <2>1. i - 1 \in 1..n - 1
    BY <1>5, <1>13
  <2>2. s[i - 1] \in U
    BY <1>12, <2>1
  <2>3. s[i - 1] \in T /\ s[i - 1] # m /\ s[i - 1] \in Nat /\ m \in Nat
    BY <1>7, <2>2
  <2>4. m <= s[i - 1]
    BY <1>7, <2>3
  <2> QED
    BY <2>1, <2>3, <2>4
<1>14. t \in [1..n -> T]
  BY <1>7, <1>13
<1>15. ASSUME NEW i \in 1..n, NEW j \in 1..n, i < j
       PROVE  t[i] < t[j]
  <2>1. j # 1 /\ t[j] = s[j - 1]
    BY <1>5, <1>15
  <2>2. CASE i = 1
    BY <1>13, <2>1, <2>2
  <2>3. CASE i # 1
    <3>1. /\ i - 1 \in DOMAIN s /\ j - 1 \in DOMAIN s /\ i - 1 < j - 1
          /\ t[i] = s[i - 1]
      BY <1>5, <1>12, <1>13, <1>15, <2>1, <2>3
    <3> QED
      BY <1>12, <2>1, <3>1 DEF Increasing
  <2> QED
    BY <2>2, <2>3
<1>16. Increasing(t)
  <2>1. DOMAIN t = 1..n
    OBVIOUS
  <2> HIDE DEF t
  <2> QED
    BY <1>15, <2>1 DEF Increasing
<1>17. Ordered(T)
  <2> HIDE DEF t
  <2> QED
    BY <1>4, <1>14, <1>16 DEF Ordered
<1> QED
  BY <1>4, <1>17

LEMMA InOrderIs ==
  ASSUME NEW S \in SUBSET Nat, IsFiniteSet(S)
  PROVE  InOrder(S) \in Seq(S)
<1> DEFINE n == Cardinality(S)
           s == InOrder(S)
<1>1. n \in Nat
  BY FS_CardinalityType
<1>2. s \in [1..n -> S] /\ Increasing(s)
  BY OrderExists DEF InOrder, Increasing
<1> HIDE DEF s
<1>3. s \in Seq(S)
  BY <1>1, <1>2
<1> QED
  BY <1>3 DEF s

Climbs(h, n, S) == n \in Nat /\ h[0] \in S /\ \A k \in 1..n : h[k - 1] \in S => h[k] \in S

LEMMA ClimbsTo ==
  ASSUME NEW h, NEW n, NEW S, Climbs(h, n, S)
  PROVE  h[n] \in S
<1> DEFINE Bad == {m \in 0..n : h[m] \notin S}
<1>1. Bad \in SUBSET Nat /\ n \in Nat
  BY DEF Climbs
<1>2. SUFFICES ASSUME Bad # {}
               PROVE  FALSE
  BY <1>1, <1>2
<1>3. PICK m \in Bad : \A k \in Bad : m <= k
  <2> HIDE DEF Bad
  <2> QED
    BY <1>1, <1>2, SmallestMember
<1>4. m \in 0..n /\ h[m] \notin S
  OBVIOUS
<1>5. m # 0
  BY <1>4 DEF Climbs
<1>6. m - 1 \in 0..n /\ m - 1 \notin Bad /\ m \in 1..n
  BY <1>1, <1>3, <1>4, <1>5
<1>7. h[m - 1] \in S
  BY <1>6
<1> QED
  BY <1>4, <1>6, <1>7 DEF Climbs

(* A step that keeps every vat, and whose experiences only grow.           *)
Onward(b, t) ==
  /\ t.db.alive = b.db.alive /\ t.db.meter = b.db.meter
  /\ \A w \in b.db.alive : Grows(b.db.store, t.db.store, w)
Onwards(x, b) == {t \in States : Sound(x, t, {}, {}) /\ Onward(b, t)}

LEMMA OnwardSelf ==
  ASSUME NEW x, NEW b, Sane(x, b)
  PROVE  Onward(b, b)
<1>1. \A w \in b.db.alive : w \in Vats /\ Open(b.db.store.spans[w], b.db.store.snaps[w])
  BY DEF Sane, States, DbOK, Dbs, Living
<1>2. b.db.store \in Stores
  BY DEF Sane, DbOK, Dbs
<1>3. \A w \in b.db.alive : Grows(b.db.store, b.db.store, w)
  BY <1>1, <1>2, GrowsSame
<1> QED
  BY <1>3 DEF Onward

LEMMA OnwardServes ==
  ASSUME NEW x, NEW b, NEW s, NEW t, NEW v \in Vats, Sane(x, b), Sane(x, s), Sane(x, t),
         Onward(b, s), Serves(s, t, v)
  PROVE  Onward(b, t)
<1>1. ASSUME NEW d, Sane(x, d)
      PROVE  /\ d.db.store \in Stores
             /\ \A w \in d.db.alive : w \in Vats /\ Open(d.db.store.spans[w], d.db.store.snaps[w])
  BY <1>1 DEF Sane, States, DbOK, Dbs, Living
<1>2. s.db.alive = b.db.alive /\ t.db.alive = b.db.alive /\ t.db.meter = b.db.meter
  BY DEF Onward, Serves, Moves
<1>3. ASSUME NEW w \in b.db.alive
      PROVE  Grows(b.db.store, t.db.store, w)
  <2>1. /\ b.db.store \in Stores /\ s.db.store \in Stores /\ t.db.store \in Stores /\ w \in Vats
        /\ Open(b.db.store.spans[w], b.db.store.snaps[w])
        /\ Open(s.db.store.spans[w], s.db.store.snaps[w])
        /\ Open(t.db.store.spans[w], t.db.store.snaps[w])
    BY <1>1, <1>2
  <2>2. Grows(s.db.store, t.db.store, w)
    <3>1. CASE w = v
      BY <3>1 DEF Serves
    <3>2. CASE w # v
      <4>1. /\ t.db.store.spans[w] = s.db.store.spans[w]
            /\ t.db.store.snaps[w] = s.db.store.snaps[w]
        BY <2>1, <3>2 DEF Serves, Moves
      <4> QED
        BY <2>1, <4>1, GrowsSame
    <3> QED
      BY <3>1, <3>2
  <2>3. Grows(b.db.store, s.db.store, w)
    BY DEF Onward
  <2> QED
    BY <2>1, <2>2, <2>3, GrowsGrows
<1> QED
  BY <1>2, <1>3 DEF Onward

LEMMA SnapshotEachSound ==
  ASSUME NEW x, NEW b, Sound(x, b, {}, {}), cranks \in Nat, NEW vats \in Seq(b.db.alive)
  PROVE  SnapshotEach(b, vats) \in Onwards(x, b)
<1> DEFINE n == Len(vats)
           S == Onwards(x, b)
           T == b.db.alive
           step == [p \in S \X T |-> MaybeSaveSnapshot(p[1], p[2], 2)]
           Body(f) == [k \in 0..Len(vats) |->
                         IF k = 0 THEN b ELSE MaybeSaveSnapshot(f[k - 1], vats[k], 2)]
           h == CHOOSE f : f = Body(f)
<1>1. n \in Nat /\ \A i \in 1..n : vats[i] \in T
  OBVIOUS
<1>2. b \in S
  BY OnwardSelf DEF Onwards, Sound, Sane
<1>3. ASSUME NEW s \in S, NEW v \in T
      PROVE  MaybeSaveSnapshot(s, v, 2) \in S
  <2> DEFINE t == MaybeSaveSnapshot(s, v, 2)
  <2>1. Sound(x, s, {}, {}) /\ Onward(b, s) /\ v \in s.db.alive /\ v \in Vats /\ Sane(x, s) /\ Sane(x, b)
    BY DEF Onwards, Onward, Sound, Sane, States, Dbs
  <2>2. Sound(x, t, {}, {}) /\ Serves(s, t, v)
    BY <2>1, MaybeSnapshotSound
  <2> HIDE DEF t
  <2>3. Sane(x, t) /\ t \in States
    BY <2>2 DEF Sound, Sane
  <2>4. Onward(b, t)
    BY <2>1, <2>2, <2>3, OnwardServes
  <2> QED
    BY <2>2, <2>3, <2>4 DEF Onwards, t
<1> HIDE DEF S, T
<1>4. step \in [S \X T -> S]
  BY <1>3
<1>5. PICK g \in [0..n -> S] : Runs(g, n, b, step, vats)
  <2>1. Steps(S, T, step, b, vats, n)
    BY <1>1, <1>2, <1>4 DEF Steps
  <2> HIDE DEF n, step
  <2>2. RunsWithin(S, n, b, step, vats)
    BY <2>1, RunExists
  <2> QED
    BY <2>2 DEF RunsWithin
<1>6. Body(g) = g
  <2>1. ASSUME NEW k \in 0..n
        PROVE  Body(g)[k] = g[k]
    <3>1. CASE k = 0
      BY <1>5, <3>1 DEF Runs
    <3>2. CASE k # 0
      <4>1. k \in 1..n /\ g[k - 1] \in S /\ vats[k] \in T
        BY <1>1, <3>2
      <4>2. g[k] = step[<<g[k - 1], vats[k]>>]
        BY <1>5, <4>1 DEF Runs
      <4> QED
        BY <3>2, <4>1, <4>2
    <3> QED
      BY <3>1, <3>2
  <2> QED
    BY <2>1
<1>7. h = Body(h)
  <2> HIDE DEF Body
  <2> QED
    BY <1>6
<1>8. SnapshotEach(b, vats) = h[n]
  BY DEF SnapshotEach
<1> HIDE DEF h
<1>9. \A k \in 0..n : h[k] = IF k = 0 THEN b ELSE MaybeSaveSnapshot(h[k - 1], vats[k], 2)
  BY <1>7
<1> HIDE DEF n, Body, step
<1>10. Climbs(h, n, S)
  <2>1. h[0] = b
    BY <1>1, <1>9
  <2>2. ASSUME NEW k \in 1..n, h[k - 1] \in S
        PROVE  h[k] \in S
    <3>1. k \in 0..n /\ k # 0 /\ vats[k] \in T
      BY <1>1
    <3>2. h[k] = MaybeSaveSnapshot(h[k - 1], vats[k], 2)
      BY <1>9, <3>1
    <3> QED
      BY <1>3, <2>2, <3>1, <3>2
  <2> QED
    BY <1>1, <1>2, <2>1, <2>2 DEF Climbs
<1> QED
  BY <1>8, <1>10, ClimbsTo DEF S

LEMMA PreloadEachSound ==
  ASSUME NEW x, NEW b, Sound(x, b, {}, {}), NEW vats \in Seq(b.db.alive)
  PROVE  PreloadEach(b, vats) \in Onwards(x, b)
<1> DEFINE n == Len(vats)
           S == Onwards(x, b)
           T == b.db.alive
           step == [p \in S \X T |-> EnsureVatOnline(p[1], p[2])]
           Body(f) == [k \in 0..Len(vats) |->
                         IF k = 0 THEN b ELSE EnsureVatOnline(f[k - 1], vats[k])]
           h == CHOOSE f : f = Body(f)
<1>1. n \in Nat /\ \A i \in 1..n : vats[i] \in T
  OBVIOUS
<1>2. b \in S
  BY OnwardSelf DEF Onwards, Sound, Sane
<1>3. ASSUME NEW s \in S, NEW v \in T
      PROVE  EnsureVatOnline(s, v) \in S
  <2> DEFINE t == EnsureVatOnline(s, v)
  <2>1. Sound(x, s, {}, {}) /\ Onward(b, s) /\ v \in s.db.alive /\ v \in Vats /\ Sane(x, s) /\ Sane(x, b)
    BY DEF Onwards, Onward, Sound, Sane, States, Dbs
  <2>2. Sound(x, t, {}, {}) /\ Serves(s, t, v)
    <3>1. Sound(x, s, {v}, {})
      BY <2>1, SoundWider
    <3> QED
      BY <2>1, <3>1, EnsureSound
  <2> HIDE DEF t
  <2>3. Sane(x, t) /\ t \in States
    BY <2>2 DEF Sound, Sane
  <2>4. Onward(b, t)
    BY <2>1, <2>2, <2>3, OnwardServes
  <2> QED
    BY <2>2, <2>3, <2>4 DEF Onwards, t
<1> HIDE DEF S, T
<1>4. step \in [S \X T -> S]
  BY <1>3
<1>5. PICK g \in [0..n -> S] : Runs(g, n, b, step, vats)
  <2>1. Steps(S, T, step, b, vats, n)
    BY <1>1, <1>2, <1>4 DEF Steps
  <2> HIDE DEF n, step
  <2>2. RunsWithin(S, n, b, step, vats)
    BY <2>1, RunExists
  <2> QED
    BY <2>2 DEF RunsWithin
<1>6. Body(g) = g
  <2>1. ASSUME NEW k \in 0..n
        PROVE  Body(g)[k] = g[k]
    <3>1. CASE k = 0
      BY <1>5, <3>1 DEF Runs
    <3>2. CASE k # 0
      <4>1. k \in 1..n /\ g[k - 1] \in S /\ vats[k] \in T
        BY <1>1, <3>2
      <4>2. g[k] = step[<<g[k - 1], vats[k]>>]
        BY <1>5, <4>1 DEF Runs
      <4> QED
        BY <3>2, <4>1, <4>2
    <3> QED
      BY <3>1, <3>2
  <2> QED
    BY <2>1
<1>7. h = Body(h)
  <2> HIDE DEF Body
  <2> QED
    BY <1>6
<1>8. PreloadEach(b, vats) = h[n]
  BY DEF PreloadEach
<1> HIDE DEF h
<1>9. \A k \in 0..n : h[k] = IF k = 0 THEN b ELSE EnsureVatOnline(h[k - 1], vats[k])
  BY <1>7
<1> HIDE DEF n, Body, step
<1>10. Climbs(h, n, S)
  <2>1. h[0] = b
    BY <1>1, <1>9
  <2>2. ASSUME NEW k \in 1..n, h[k - 1] \in S
        PROVE  h[k] \in S
    <3>1. k \in 0..n /\ k # 0 /\ vats[k] \in T
      BY <1>1
    <3>2. h[k] = EnsureVatOnline(h[k - 1], vats[k])
      BY <1>9, <3>1
    <3> QED
      BY <1>3, <2>2, <3>1, <3>2
  <2> QED
    BY <1>1, <1>2, <2>1, <2>2 DEF Climbs
<1> QED
  BY <1>8, <1>10, ClimbsTo DEF S

Reapings(b) == {t \in States : ScheduleReapKeeps(b, t)}

LEMMA ReapEachKeeps ==
  ASSUME NEW b, b \in States, NEW vats \in Seq(Vats)
  PROVE  ReapEach(b, vats) \in Reapings(b)
<1> DEFINE n == Len(vats)
           S == Reapings(b)
           T == Vats
           step == [p \in S \X T |-> IF CurrentSpan(b.db.store, p[2]).end = 0 THEN p[1] ELSE ScheduleReap(p[1], p[2])]
           Body(f) == [k \in 0..Len(vats) |->
                         IF k = 0 THEN b ELSE IF CurrentSpan(b.db.store, vats[k]).end = 0 THEN f[k - 1] ELSE ScheduleReap(f[k - 1], vats[k])]
           h == CHOOSE f : f = Body(f)
<1>1. n \in Nat /\ \A i \in 1..n : vats[i] \in T
  OBVIOUS
<1>2. b \in S
  BY DEF Reapings, ScheduleReapKeeps, Keeps
<1>3. ASSUME NEW s \in S, NEW v \in T
      PROVE  (IF CurrentSpan(b.db.store, v).end = 0 THEN s ELSE ScheduleReap(s, v)) \in S
  <2> DEFINE t == ScheduleReap(s, v)
  <2>1. s \in States /\ ScheduleReapKeeps(b, s)
    BY DEF Reapings
  <2>2. ScheduleReapKeeps(s, t)
    BY <2>1, ScheduleReapIs
  <2> HIDE DEF t
  <2>3. t \in S
    BY <2>1, <2>2 DEF ScheduleReapKeeps, Keeps, Reapings
  <2> QED
    BY <2>3 DEF t
<1> HIDE DEF S, T
<1>4. step \in [S \X T -> S]
  BY <1>3
<1>5. PICK g \in [0..n -> S] : Runs(g, n, b, step, vats)
  <2>1. Steps(S, T, step, b, vats, n)
    BY <1>1, <1>2, <1>4 DEF Steps
  <2> HIDE DEF n, step
  <2>2. RunsWithin(S, n, b, step, vats)
    BY <2>1, RunExists
  <2> QED
    BY <2>2 DEF RunsWithin
<1>6. Body(g) = g
  <2>1. ASSUME NEW k \in 0..n
        PROVE  Body(g)[k] = g[k]
    <3>1. CASE k = 0
      BY <1>5, <3>1 DEF Runs
    <3>2. CASE k # 0
      <4>1. k \in 1..n /\ g[k - 1] \in S /\ vats[k] \in T
        BY <1>1, <3>2
      <4>2. g[k] = step[<<g[k - 1], vats[k]>>]
        BY <1>5, <4>1 DEF Runs
      <4> QED
        BY <3>2, <4>1, <4>2
    <3> QED
      BY <3>1, <3>2
  <2> QED
    BY <2>1
<1>7. h = Body(h)
  <2> HIDE DEF Body
  <2> QED
    BY <1>6
<1>8. ReapEach(b, vats) = h[n]
  BY DEF ReapEach
<1> HIDE DEF h
<1>9. \A k \in 0..n : h[k] = IF k = 0 THEN b ELSE IF CurrentSpan(b.db.store, vats[k]).end = 0 THEN h[k - 1] ELSE ScheduleReap(h[k - 1], vats[k])
  BY <1>7
<1> HIDE DEF n, Body, step
<1>10. Climbs(h, n, S)
  <2>1. h[0] = b
    BY <1>1, <1>9
  <2>2. ASSUME NEW k \in 1..n, h[k - 1] \in S
        PROVE  h[k] \in S
    <3>1. k \in 0..n /\ k # 0 /\ vats[k] \in T
      BY <1>1
    <3>2. h[k] = IF CurrentSpan(b.db.store, vats[k]).end = 0 THEN h[k - 1] ELSE ScheduleReap(h[k - 1], vats[k])
      BY <1>9, <3>1
    <3> QED
      BY <1>3, <2>2, <3>1, <3>2
  <2> QED
    BY <1>1, <1>2, <2>1, <2>2 DEF Climbs
<1> QED
  BY <1>8, <1>10, ClimbsTo DEF S

-----------------------------------------------------------------------------
(* The inductive invariant.                                                *)

Audits == [used : [Meters -> Nat], boyd : [Meters -> Nat],
           kept : [Meters -> Nat], funded : [Meters -> Nat]]

(* What is on a meter and what was paid from it make up what was put on    *)
(* it, and what was kept was paid. *)
MetersOK(a, meter) ==
  /\ a \in Audits /\ meter \in [Meters -> Nat]
  /\ \A m \in Meters :
       a.used[m] + a.boyd[m] + meter[m] = a.funded[m] /\ a.kept[m] <= a.used[m]

CommittedOK ==
  /\ DbOK(committed.exports, committed.db) /\ DOMAIN committed.exports \subseteq Keys
  /\ MetersOK(committed.audit, committed.db.meter)
CurrentOK ==
  /\ Sound(exports, Now, {}, {}) /\ DOMAIN exports \subseteq Keys
  /\ MetersOK(audit, db.meter)
WarehouseInv == CurrentOK /\ CommittedOK /\ cranks \in Nat /\ crashes \in Nat

(* The vats that outlive a step have not lost anything of what they are.   *)
Later(d, e) == \A w \in d.alive \cap e.alive : Grows(d.store, e.store, w)

Payable(c, left) == IF c > left THEN left ELSE c
LeftOf(a, m) == a.funded[m] - a.used[m] - a.boyd[m]
PaidBy(a, meters, owed, m) == IF m \in meters THEN Payable(owed, LeftOf(a, m)) ELSE 0
ReapingPaidBy(a, meters, owed, boyd, m) ==
  IF m \in meters THEN Payable(boyd, LeftOf(a, m) - PaidBy(a, meters, owed, m)) ELSE 0
Settled(a, meters, owed, boyd, abort) ==
  [used |-> [m \in Meters |-> a.used[m] + PaidBy(a, meters, owed, m)],
   boyd |-> [m \in Meters |-> a.boyd[m] + ReapingPaidBy(a, meters, owed, boyd, m)],
   kept |-> [m \in Meters |-> a.kept[m] + IF m \in meters /\ ~abort THEN owed ELSE 0],
   funded |-> a.funded]

(* The computrons that are owed are charged, no others are, and those of   *)
(* user code are there when the crank is kept. *)
Owes(meter, ms, c, meters, owed, boyd, abort) ==
  /\ c \in Nat /\ owed \in Nat /\ boyd \in Nat
  /\ \/ ms = meters /\ c = owed + boyd
     \/ owed = 0 /\ boyd = 0 /\ (ms = {} \/ c = 0)
  /\ ~abort => \A m \in meters \cap Meters : owed <= meter[m]

LEMMA MetersSettle ==
  ASSUME NEW a, NEW meter, MetersOK(a, meter), NEW ms, NEW c, NEW meters, NEW owed, NEW boyd,
         NEW abort, Owes(meter, ms, c, meters, owed, boyd, abort)
  PROVE  MetersOK(Settled(a, meters, owed, boyd, abort), Charged(meter, ms, c))
<1> DEFINE t == Settled(a, meters, owed, boyd, abort)
           charged == Charged(meter, ms, c)
<1>1. /\ a.used \in [Meters -> Nat] /\ a.kept \in [Meters -> Nat] /\ a.funded \in [Meters -> Nat]
      /\ a.boyd \in [Meters -> Nat]
      /\ meter \in [Meters -> Nat] /\ c \in Nat /\ owed \in Nat /\ boyd \in Nat
  BY DEF MetersOK, Audits, Owes
<1>2. charged \in [Meters -> Nat]
  BY <1>1 DEF Charged
<1>3. ASSUME NEW m \in Meters
      PROVE  /\ t.used[m] \in Nat /\ t.boyd[m] \in Nat /\ t.kept[m] \in Nat
             /\ t.used[m] + t.boyd[m] + charged[m] = a.funded[m] /\ t.kept[m] <= t.used[m]
  <2>1. /\ a.used[m] + a.boyd[m] + meter[m] = a.funded[m] /\ a.kept[m] <= a.used[m]
        /\ a.used[m] \in Nat /\ a.kept[m] \in Nat /\ a.funded[m] \in Nat /\ meter[m] \in Nat
        /\ a.boyd[m] \in Nat
    BY <1>1 DEF MetersOK
  <2> DEFINE paid == PaidBy(a, meters, owed, m)
             reaping == ReapingPaidBy(a, meters, owed, boyd, m)
  <2>2. charged[m] = IF m \notin ms THEN meter[m] ELSE IF c > meter[m] THEN 0 ELSE meter[m] - c
    BY DEF Charged
  <2>3. LeftOf(a, m) = meter[m]
    BY <2>1 DEF LeftOf
  <2>4. paid = IF m \in meters THEN (IF owed > meter[m] THEN meter[m] ELSE owed) ELSE 0
    BY <2>3 DEF PaidBy, Payable
  <2>5. reaping = IF m \in meters
                  THEN (IF boyd > meter[m] - paid THEN meter[m] - paid ELSE boyd) ELSE 0
    BY <2>3 DEF ReapingPaidBy, Payable
  <2>6. /\ t.used[m] = a.used[m] + paid /\ t.boyd[m] = a.boyd[m] + reaping
        /\ t.kept[m] = a.kept[m] + IF m \in meters /\ ~abort THEN owed ELSE 0
    BY DEF Settled
  <2>7. \/ ms = meters /\ c = owed + boyd
        \/ owed = 0 /\ boyd = 0 /\ (ms = {} \/ c = 0)
    BY DEF Owes
  <2>8. m \in meters /\ ~abort => owed <= meter[m]
    BY DEF Owes
  <2> HIDE DEF t, charged, paid, reaping
  <2>9. paid \in Nat /\ reaping \in Nat /\ paid <= meter[m]
    BY <1>1, <2>1, <2>4, <2>5
  <2>10. charged[m] = meter[m] - (paid + reaping)
    <3>1. CASE ms = meters /\ c = owed + boyd
      <4>1. CASE m \in meters
        BY <1>1, <2>1, <2>2, <2>4, <2>5, <3>1, <4>1
      <4>2. CASE m \notin meters
        BY <2>1, <2>2, <2>4, <2>5, <3>1, <4>2
      <4> QED
        BY <4>1, <4>2
    <3>2. CASE owed = 0 /\ boyd = 0 /\ (ms = {} \/ c = 0)
      <4>1. paid = 0 /\ reaping = 0
        BY <1>1, <2>1, <2>4, <2>5, <3>2
      <4>2. charged[m] = meter[m]
        BY <2>1, <2>2, <3>2
      <4> QED
        BY <2>1, <4>1, <4>2
    <3> QED
      BY <2>7, <3>1, <3>2
  <2>11. t.kept[m] \in Nat /\ t.kept[m] <= t.used[m]
    BY <1>1, <2>1, <2>4, <2>6, <2>8, <2>9
  <2> QED
    BY <2>1, <2>6, <2>9, <2>10, <2>11
<1>4. t.funded = a.funded /\ t \in Audits
  <2>1. /\ t = [used |-> t.used, boyd |-> t.boyd, kept |-> t.kept, funded |-> a.funded]
        /\ t.used = [m \in Meters |-> t.used[m]] /\ t.boyd = [m \in Meters |-> t.boyd[m]]
        /\ t.kept = [m \in Meters |-> t.kept[m]]
    BY DEF Settled
  <2> HIDE DEF t
  <2>2. t.used \in [Meters -> Nat] /\ t.boyd \in [Meters -> Nat] /\ t.kept \in [Meters -> Nat]
    BY <1>3, <2>1
  <2> QED
    BY <1>1, <2>1, <2>2 DEF Audits
<1> HIDE DEF t, charged
<1>5. MetersOK(t, charged)
  BY <1>2, <1>3, <1>4 DEF MetersOK
<1> QED
  BY <1>5 DEF t, charged

Outcome(t) ==
  /\ Sound(exports', Now', {}, {}) /\ DOMAIN exports' \subseteq Keys
  /\ db'.alive = t.db.alive /\ db'.meter = t.db.meter
  /\ db'.store.spans = t.db.store.spans /\ db'.store.snaps = t.db.store.snaps

WithNonePending(d) == [d EXCEPT !.store.pending = <<>>]
Flushes(y, d, e) ==
  /\ DOMAIN y \subseteq Keys /\ DbOK(y, e) /\ e.alive = d.alive /\ e.meter = d.meter
  /\ e.store.spans = d.store.spans /\ e.store.snaps = d.store.snaps

LEMMA FlushedDb ==
  ASSUME NEW x, DOMAIN x \subseteq Keys, NEW d, DbOK(x, d)
  PROVE  Flushes(FlushedExports(x, d.store), d, WithNonePending(d))
<1> DEFINE y == FlushedExports(x, d.store)
           e == WithNonePending(d)
           none == <<>>
           st == [d.store EXCEPT !.pending = none]
<1>1. d \in Dbs /\ d.store \in Stores /\ Described(x, d.store)
  BY DEF DbOK, Dbs
<1>2. DOMAIN y \subseteq Keys /\ Described(y, st)
  BY <1>1, FlushedDescribes
<1>3. none \in Changes
  <2>1. none \in [{} -> SUBSET Value]
    OBVIOUS
  <2>2. {} \in SUBSET Keys
    OBVIOUS
  <2> HIDE DEF none
  <2> QED
    BY <2>1, <2>2 DEF Changes
<1>4. e = [d EXCEPT !.store = st]
  BY <1>1 DEF Dbs, WithNonePending
<1> HIDE DEF none, e
<1>5. st \in Stores /\ st.spans = d.store.spans /\ st.snaps = d.store.snaps
  BY <1>1, <1>3 DEF Stores
<1> HIDE DEF st, y
<1>6. /\ e \in Dbs /\ e.store = st /\ e.alive = d.alive /\ e.created = d.created
      /\ e.terminated = d.terminated /\ e.meter = d.meter
  BY <1>1, <1>4, <1>5 DEF Dbs
<1>7. DbOK(y, e)
  BY <1>2, <1>5, <1>6 DEF DbOK
<1> QED
  BY <1>2, <1>5, <1>6, <1>7 DEF y, e, Flushes

LEMMA NowSound ==
  ASSUME NEW x, NEW s, NEW y, NEW t, NEW e, Sound(x, s, {}, {}), DbOK(y, e), e.alive = s.db.alive,
         e.store.spans = s.db.store.spans, e.store.snaps = s.db.store.snaps,
         t = [db |-> e, ram |-> s.ram]
  PROVE  Sound(y, t, {}, {})
<1>1. s.ram \in Rams /\ e \in Dbs
  BY DEF Sound, Sane, States, DbOK
<1>2. t.db = e /\ t.ram = s.ram /\ t \in States
  BY <1>1 DEF States
<1>3. \A w \in t.ram.online : Works(t, w)
  <2> SUFFICES ASSUME NEW w \in s.ram.online PROVE Works(t, w)
    BY <1>2
  <2>1. Works(s, w)
    BY DEF Sound
  <2>2. Rebuilt(e.store, w) = Rebuilt(s.db.store, w) /\ CurrentSpan(e.store, w) = CurrentSpan(s.db.store, w)
    BY DEF Rebuilt, CurrentSpan, SnapshotInUse
  <2> QED
    BY <1>2, <2>1, <2>2 DEF Works
<1> QED
  BY <1>2, <1>3 DEF Sound, Sane

LEMMA EndCrankSound ==
  ASSUME DOMAIN exports \subseteq Keys, NEW t, Sound(exports, t, {}, {}), EndCrank(t)
  PROVE  Outcome(t)
<1> DEFINE y == FlushedExports(exports, t.db.store)
<1>1. DbOK(exports, t.db) /\ exports' = y /\ ram' = t.ram /\ Now' = [db |-> db', ram |-> t.ram]
  BY DEF EndCrank, Sound, Sane, Now
<1>2. db' = [t.db EXCEPT !.store.pending = <<>>]
  BY DEF EndCrank
<1>3. /\ DOMAIN y \subseteq Keys /\ DbOK(y, db') /\ db'.alive = t.db.alive /\ db'.meter = t.db.meter
      /\ db'.store.spans = t.db.store.spans /\ db'.store.snaps = t.db.store.snaps
  <2> HIDE DEF y
  <2>1. Flushes(FlushedExports(exports, t.db.store), t.db, WithNonePending(t.db))
    BY <1>1, FlushedDb
  <2>2. db' = WithNonePending(t.db)
    BY <1>2 DEF WithNonePending
  <2> QED
    BY <2>1, <2>2 DEF Flushes, y
<1> HIDE DEF y
<1>4. Sound(y, Now', {}, {})
  BY <1>1, <1>3, NowSound
<1> QED
  BY <1>1, <1>3, <1>4 DEF Outcome

LEMMA LaterOutcome ==
  ASSUME NEW d, NEW t, Later(d, t.db), Outcome(t)
  PROVE  Later(d, db')
<1>1. ASSUME NEW w
      PROVE  /\ Rebuilt(db'.store, w) = Rebuilt(t.db.store, w)
             /\ CurrentSpan(db'.store, w) = CurrentSpan(t.db.store, w)
  BY DEF Outcome, Rebuilt, CurrentSpan, SnapshotInUse
<1> QED
  BY <1>1 DEF Later, Grows, Outcome

Stepped == CurrentOK' /\ Later(db, db')

Like(b) == b.db.store = db.store /\ b.db.alive = db.alive /\ b.db.meter = db.meter

LEMMA FinishesLater ==
  ASSUME NEW x, NEW b, Sane(x, b), Like(b), NEW t, NEW v \in Vats, NEW meter,
         Finishes(b, t, v, meter), Sane(x, t)
  PROVE  Later(db, t.db)
<1> SUFFICES ASSUME NEW w \in db.alive \cap t.db.alive
             PROVE  Grows(db.store, t.db.store, w)
  BY DEF Later
<1>1. /\ w \in Vats /\ b.db.store \in Stores /\ t.db.store \in Stores
      /\ Open(b.db.store.spans[w], b.db.store.snaps[w]) /\ w \in b.db.alive
  BY DEF Like, Sane, States, DbOK, Dbs, Living
<1>2. Grows(b.db.store, t.db.store, w)
  <2>1. CASE w = v
    BY <1>1, <2>1 DEF Finishes
  <2>2. CASE w # v
    <3>1. t.db.store.spans[w] = b.db.store.spans[w] /\ t.db.store.snaps[w] = b.db.store.snaps[w]
      BY <1>1, <2>2 DEF Finishes
    <3> QED
      BY <1>1, <3>1, GrowsSame
  <2> QED
    BY <2>1, <2>2
<1> QED
  BY <1>2 DEF Like

LEMMA SettleIs ==
  ASSUME NEW meters, NEW owed, NEW boyd, NEW r, Settle(meters, owed, boyd, r)
  PROVE  audit' = Settled(audit, meters, owed, boyd, r.abort)
BY DEF Settle, Settled, PaidBy, ReapingPaidBy, LeftOf, Payable

(* One crank about v: from b, the state after the event was taken, the     *)
(* delivery made s, and its results r end the crank.                       *)
Delivered(b, s, v) ==
  /\ Sound(exports, s, {}, {}) /\ Moves(b, s, v) /\ v \in s.db.alive
  /\ v \in b.db.alive => Serves(b, s, v)

LEMMA CrankSound ==
  ASSUME WarehouseInv, NEW v \in Vats, NEW b, Sane(exports, b), Like(b), NEW s, Delivered(b, s, v),
         NEW r, ResultsFit(r, s, v), NEW saved, saved = b.db,
         FinishCrank(s, v, saved, r),
         NEW meters, NEW owed, NEW boyd, NEW a, Settle(meters, owed, boyd, a),
         Owes(db.meter, r.meters, r.computrons, meters, owed, boyd, a.abort)
  PROVE  Stepped
<1> DEFINE t == Finished(s, v, b.db, r)
           meter == Charged(db.meter, r.meters, r.computrons)
<1>1. cranks \in Nat /\ DOMAIN exports \subseteq Keys /\ MetersOK(audit, db.meter)
  BY DEF WarehouseInv, CurrentOK
<1>2. Sound(exports, t, {}, {}) /\ Finishes(b, t, v, Charged(b.db.meter, r.meters, r.computrons))
  BY <1>1, FinishSound DEF Delivered
<1>3. Finishes(b, t, v, meter)
  BY <1>2 DEF Like
<1>4. EndCrank(t)
  BY DEF FinishCrank, Finished
<1> HIDE DEF t, meter
<1>5. Outcome(t)
  BY <1>1, <1>2, <1>4, EndCrankSound
<1>6. Later(db, t.db)
  BY <1>2, <1>3, FinishesLater DEF Sound
<1>7. Later(db, db')
  BY <1>5, <1>6, LaterOutcome
<1>8. MetersOK(audit', db'.meter)
  <2>1. audit' = Settled(audit, meters, owed, boyd, a.abort)
    BY SettleIs
  <2>2. MetersOK(Settled(audit, meters, owed, boyd, a.abort), meter)
    BY <1>1, MetersSettle DEF meter
  <2>3. db'.meter = meter
    BY <1>3, <1>5 DEF Outcome, Finishes
  <2> QED
    BY <2>1, <2>2, <2>3
<1> QED
  BY <1>5, <1>7, <1>8 DEF Stepped, CurrentOK, Outcome

ResultsOf(r, c, meters, meter) ==
  /\ r.did = TRUE /\ r.abort \in BOOLEAN /\ r.terminate \in BOOLEAN /\ r.dirt \in BOOLEAN
  /\ r.abort => r.terminate
  /\ r.terminate => ~r.dirt
  /\ r.computrons = c /\ r.meters = IF c = 0 THEN {} ELSE meters
  /\ ~r.abort => \A m \in meters \cap Meters : c <= meter[m]
  /\ r = [did |-> r.did, abort |-> r.abort, terminate |-> r.terminate,
          computrons |-> r.computrons, meters |-> r.meters, dirt |-> r.dirt]

LEMMA ResultsIs ==
  ASSUME NEW s \in States, NEW outcome, NEW c \in Nat, NEW measureDirt \in BOOLEAN, NEW meters
  PROVE  ResultsOf(DeliveryCrankResults(s, outcome, c, measureDirt, meters), c, meters, s.db.meter)
<1> DEFINE abort == outcome \in {"error", "illegal"} \/ MeterUnderrun(s, meters, c)
           terminate == abort \/ outcome = "exit"
           ms == IF c = 0 THEN {} ELSE meters
           dirt == measureDirt /\ ~terminate
           r == DeliveryCrankResults(s, outcome, c, measureDirt, meters)
<1>1. abort \in BOOLEAN /\ terminate \in BOOLEAN /\ dirt \in BOOLEAN
  OBVIOUS
<1>2. abort => terminate
  OBVIOUS
<1>3. terminate => ~dirt
  OBVIOUS
<1>4. ~abort => \A m \in meters \cap Meters : c <= s.db.meter[m]
  <2>1. \A m \in Meters : s.db.meter[m] \in Nat
    BY DEF States, Dbs
  <2> QED
    BY <2>1 DEF MeterUnderrun
<1>5. r = [did |-> TRUE, abort |-> abort, terminate |-> terminate, computrons |-> c,
           meters |-> ms, dirt |-> dirt]
  BY DEF DeliveryCrankResults
<1> HIDE DEF abort, terminate, dirt, ms, r
<1>6. /\ r.did = TRUE /\ r.abort = abort /\ r.terminate = terminate /\ r.computrons = c
      /\ r.meters = ms /\ r.dirt = dirt
  BY <1>5
<1>7. r = [did |-> r.did, abort |-> r.abort, terminate |-> r.terminate,
           computrons |-> r.computrons, meters |-> r.meters, dirt |-> r.dirt]
  BY <1>5, <1>6
<1>8. ResultsOf(r, c, meters, s.db.meter)
  BY <1>1, <1>2, <1>3, <1>4, <1>6, <1>7 DEF ResultsOf, ms
<1> QED
  BY <1>8 DEF r

LEMMA ResultsDoFit ==
  ASSUME NEW r, NEW c \in Nat, NEW meters, NEW meter, ResultsOf(r, c, meters, meter), NEW s, NEW v
  PROVE  ResultsFit(r, s, v)
BY DEF ResultsOf, ResultsFit

LEMMA NowIs ==
  ASSUME WarehouseInv
  PROVE  /\ Sound(exports, Now, {}, {}) /\ Sane(exports, Now) /\ Like(Now) /\ Now.db = db
         /\ db \in Dbs /\ DbOK(exports, db) /\ Now \in States /\ cranks \in Nat
         /\ db.alive \subseteq Vats /\ DOMAIN exports \subseteq Keys
<1>1. Sound(exports, Now, {}, {}) /\ Now.db = db /\ cranks \in Nat /\ DOMAIN exports \subseteq Keys
  BY DEF WarehouseInv, CurrentOK, Now
<1>2. Sane(exports, Now) /\ Now \in States /\ db \in Dbs /\ DbOK(exports, db)
  BY <1>1 DEF Sound, Sane, States
<1> QED
  BY <1>1, <1>2 DEF Like, Dbs

LEMMA DeliverOnSound ==
  ASSUME WarehouseInv, NEW v \in db.alive, NEW outcome \in Outcomes, NEW c \in Nat,
         NEW meters, DeliverOn(v, outcome, c, meters)
  PROVE  Stepped
<1> DEFINE done == DeliverAndLog(Now, v, "msg", outcome)
           r == DeliveryCrankResults(done, outcome, c, TRUE, meters)
<1>1. FinishCrank(done, v, db, r) /\ Settle(meters, c, 0, r)
  BY DEF DeliverOn
<1>2. v \in Vats /\ v \in Now.db.alive /\ Sound(exports, Now, {}, {}) /\ Sane(exports, Now)
      /\ Like(Now) /\ Now.db = db /\ cranks \in Nat
  BY NowIs
<1>3. Sound(exports, done, {}, {}) /\ Serves(Now, done, v)
  <2> DEFINE kind == "msg"
  <2>1. kind \in {"start", "boyd", "msg"}
    OBVIOUS
  <2> HIDE DEF kind
  <2>2. LET t == DeliverAndLog(Now, v, kind, outcome)
        IN Sound(exports, t, {}, {}) /\ Serves(Now, t, v)
    BY <1>2, <2>1, LogSound
  <2> QED
    BY <2>2 DEF kind
<1> HIDE DEF done
<1>4. Delivered(Now, done, v)
  BY <1>2, <1>3 DEF Delivered, Serves
<1>5. ResultsOf(r, c, meters, db.meter)
  <2>1. ResultsOf(r, c, meters, done.db.meter)
    <3>1. done \in States /\ TRUE \in BOOLEAN
      BY <1>3 DEF Sound, Sane
    <3> QED
      BY <3>1, ResultsIs
  <2>2. done.db.meter = db.meter
    BY <1>2, <1>3 DEF Serves, Moves
  <2> QED
    BY <2>1, <2>2
<1> HIDE DEF r
<1>6. ResultsFit(r, done, v)
  BY <1>5 DEF ResultsOf, ResultsFit
<1>7. Owes(db.meter, r.meters, r.computrons, meters, c, 0, r.abort)
  BY <1>5 DEF ResultsOf, Owes
<1> QED
  BY <1>1, <1>2, <1>4, <1>6, <1>7, CrankSound

LEMMA QuietSound ==
  ASSUME WarehouseInv, NEW t, Sound(exports, t, {}, {}), Later(db, t.db), EndCrank(t),
         MetersOK(audit', t.db.meter)
  PROVE  Stepped
<1>1. Outcome(t)
  BY EndCrankSound DEF WarehouseInv, CurrentOK
<1>2. Later(db, db')
  BY <1>1, LaterOutcome
<1> QED
  BY <1>1, <1>2 DEF Stepped, CurrentOK, Outcome

LEMMA KeepsLater ==
  ASSUME WarehouseInv, NEW t, Keeps(Now, t)
  PROVE  Later(db, t.db) /\ Sound(exports, t, {}, {})
<1>1. Sound(exports, Now, {}, {}) /\ Sane(exports, Now) /\ Now.db = db
  BY NowIs
<1>2. \A w \in db.alive : w \in Vats /\ Open(db.store.spans[w], db.store.snaps[w])
  BY <1>1 DEF Sane, States, DbOK, Dbs, Living
<1>3. db.store \in Stores /\ t.db.store = db.store
  BY <1>1 DEF Sane, DbOK, Dbs, Keeps
<1>4. \A w \in db.alive : Grows(db.store, db.store, w)
  BY <1>2, <1>3, GrowsSame
<1>5. Sound(exports, t, {}, {})
  BY <1>1, KeepsSound
<1> QED
  BY <1>3, <1>4, <1>5 DEF Later

LEMMA KeepsServes ==
  ASSUME NEW x, NEW s, NEW t, NEW v \in Vats, Sane(x, s), Keeps(s, t), t.db.meter = s.db.meter,
         v \in s.db.alive
  PROVE  Serves(s, t, v)
<1>1. s.db.store \in Stores /\ Open(s.db.store.spans[v], s.db.store.snaps[v])
  BY DEF Sane, DbOK, Dbs, Living
<1>2. Grows(s.db.store, s.db.store, v)
  BY <1>1, GrowsSame
<1> QED
  BY <1>2 DEF Serves, Moves, Keeps

LEMMA MovesLater ==
  ASSUME WarehouseInv, NEW t, NEW v \in Vats, Moves(Now, t, v), v \notin db.alive \cap t.db.alive,
         Sane(exports, t)
  PROVE  Later(db, t.db)
<1>1. Sane(exports, Now) /\ Now.db = db
  BY NowIs
<1> SUFFICES ASSUME NEW w \in db.alive \cap t.db.alive
             PROVE  Grows(db.store, t.db.store, w)
  BY DEF Later
<1>2. /\ w \in Vats /\ db.store \in Stores /\ t.db.store \in Stores
      /\ Open(db.store.spans[w], db.store.snaps[w]) /\ w # v
  BY <1>1 DEF Sane, States, DbOK, Dbs, Living
<1>3. t.db.store.spans[w] = db.store.spans[w] /\ t.db.store.snaps[w] = db.store.snaps[w]
  BY <1>1, <1>2 DEF Moves
<1> QED
  BY <1>2, <1>3, GrowsSame

LEMMA LogKind ==
  ASSUME NEW s, NEW v \in Vats, Sound(exports, s, {}, {}), v \in s.db.alive, WarehouseInv,
         NEW kind, kind = "start" \/ kind = "boyd" \/ kind = "msg", NEW outcome
  PROVE  /\ Sound(exports, DeliverAndLog(s, v, kind, outcome), {}, {})
         /\ Serves(s, DeliverAndLog(s, v, kind, outcome), v)
<1>1. kind \in {"start", "boyd", "msg"} /\ cranks \in Nat
  BY DEF WarehouseInv
<1>2. LET t == DeliverAndLog(s, v, kind, outcome)
      IN Sound(exports, t, {}, {}) /\ Serves(s, t, v)
  BY <1>1, LogSound
<1> QED
  BY <1>2

LEMMA ReapSound ==
  ASSUME WarehouseInv, Reap
  PROVE  Stepped
<1> DEFINE v == Head(db.reapQueue)
           popped == [Now EXCEPT !.db.reapQueue = Tail(@)]
           d == [db EXCEPT !.reapQueue = Tail(@)]
<1>1. /\ Sound(exports, Now, {}, {}) /\ Sane(exports, Now) /\ Like(Now) /\ Now.db = db
      /\ db \in Dbs /\ Now \in States
  BY NowIs
<1>2. v \in Vats /\ Tail(db.reapQueue) \in Seq(Vats)
  <2>1. db.reapQueue \in Seq(Vats) /\ db.reapQueue # <<>>
    BY <1>1 DEF Dbs, Reap
  <2> QED
    BY <2>1
<1>3. /\ d \in Dbs /\ d.store = db.store /\ d.alive = db.alive
      /\ d.created = db.created /\ d.terminated = db.terminated /\ d.meter = db.meter
  BY <1>1, <1>2 DEF Dbs
<1>4. popped = [db |-> d, ram |-> Now.ram]
  <2> DEFINE queue == Tail(db.reapQueue)
  <2>1. popped = [Now EXCEPT !.db.reapQueue = queue] /\ d = [db EXCEPT !.reapQueue = queue]
    BY <1>1 DEF States, Dbs
  <2> HIDE DEF queue, popped, d
  <2> QED
    BY <1>1, <2>1 DEF States
<1>5. \/ v \notin db.alive /\ EndCrank(popped) /\ UNCHANGED audit
      \/ /\ v \in db.alive
         /\ \E outcome \in Outcomes :
              LET done == DeliverAndLog(popped, v, "boyd", outcome)
                  r == DeliveryCrankResults(done, outcome, 1, FALSE, {})
              IN FinishCrank(done, v, db, r) /\ Settle({}, 0, 0, r)
  BY DEF Reap
<1> HIDE DEF v, popped, d
<1>6. Keeps(Now, popped) /\ popped.db.meter = db.meter
  <2>1. popped \in States /\ popped.db = d /\ popped.ram = Now.ram
    BY <1>1, <1>3, <1>4 DEF States
  <2> QED
    BY <1>1, <1>3, <2>1 DEF Keeps
<1>7. Later(db, popped.db) /\ Sound(exports, popped, {}, {})
  BY <1>6, KeepsLater
<1>8. CASE v \notin db.alive /\ EndCrank(popped) /\ UNCHANGED audit
  <2>1. MetersOK(audit', popped.db.meter)
    BY <1>6, <1>8 DEF WarehouseInv, CurrentOK
  <2> QED
    BY <1>7, <1>8, <2>1, QuietSound
<1>9. ASSUME v \in db.alive, NEW outcome \in Outcomes,
             LET done == DeliverAndLog(popped, v, "boyd", outcome)
                 r == DeliveryCrankResults(done, outcome, 1, FALSE, {})
             IN FinishCrank(done, v, db, r) /\ Settle({}, 0, 0, r)
      PROVE  Stepped
  <2> DEFINE done == DeliverAndLog(popped, v, "boyd", outcome)
             ms == {}
             r == DeliveryCrankResults(done, outcome, 1, FALSE, ms)
  <2>1. FinishCrank(done, v, db, r) /\ Settle(ms, 0, 0, r)
    BY <1>9
  <2>2. v \in popped.db.alive /\ v \in Now.db.alive
    BY <1>1, <1>6, <1>9 DEF Keeps
  <2>3. Sound(exports, done, {}, {}) /\ Serves(popped, done, v)
    <3> DEFINE kind == "boyd"
    <3>1. kind = "start" \/ kind = "boyd" \/ kind = "msg"
      OBVIOUS
    <3> HIDE DEF kind
    <3>2. /\ Sound(exports, DeliverAndLog(popped, v, kind, outcome), {}, {})
          /\ Serves(popped, DeliverAndLog(popped, v, kind, outcome), v)
      BY <1>2, <1>7, <2>2, <3>1, LogKind
    <3> QED
      BY <3>2 DEF kind
  <2> HIDE DEF done
  <2>4. Serves(Now, done, v)
    <3>1. Serves(Now, popped, v)
      BY <1>1, <1>2, <1>6, <2>2, KeepsServes
    <3>2. Sane(exports, popped) /\ Sane(exports, done)
      BY <1>7, <2>3 DEF Sound
    <3> QED
      BY <1>1, <1>2, <2>2, <2>3, <3>1, <3>2, ServesServes
  <2>5. Delivered(Now, done, v)
    BY <2>2, <2>3, <2>4 DEF Delivered, Serves
  <2>6. ResultsOf(r, 1, ms, done.db.meter)
    <3>1. done \in States /\ FALSE \in BOOLEAN /\ 1 \in Nat
      BY <2>3 DEF Sound, Sane
    <3> HIDE DEF ms
    <3> QED
      BY <3>1, ResultsIs
  <2> HIDE DEF r
  <2>7. ResultsFit(r, done, v)
    <3>1. 1 \in Nat
      OBVIOUS
    <3> QED
      BY <2>6, <3>1, ResultsDoFit
  <2>8. Owes(db.meter, r.meters, r.computrons, ms, 0, 0, r.abort)
    BY <2>6 DEF ResultsOf, Owes
  <2> HIDE DEF ms
  <2> QED
    BY <1>1, <1>2, <2>1, <2>5, <2>7, <2>8, CrankSound
<1> QED
  BY <1>5, <1>8, <1>9

LEMMA TerminateStep ==
  ASSUME WarehouseInv, NEW v \in db.alive, Terminate(v)
  PROVE  Stepped
<1> DEFINE t == TerminateVat(Now, v)
<1>1. v \in Vats /\ Sound(exports, Now, {}, {}) /\ Now.db = db
  BY NowIs
<1>2. Sound(exports, Now, {}, {v})
  BY <1>1, SoundWider
<1>3. Sound(exports, t, {}, {}) /\ v \notin t.db.alive /\ Moves(Now, t, v)
  BY <1>1, <1>2, TerminateSound
<1>4. EndCrank(t) /\ audit' = audit
  BY DEF Terminate
<1> HIDE DEF t
<1>5. Later(db, t.db)
  BY <1>1, <1>3, MovesLater DEF Sound
<1>6. MetersOK(audit', t.db.meter)
  BY <1>1, <1>3, <1>4 DEF WarehouseInv, CurrentOK, Moves
<1> QED
  BY <1>3, <1>4, <1>5, <1>6, QuietSound

LEMMA AddMeterStep ==
  ASSUME WarehouseInv, NEW m \in Meters, AddMeterRemaining(m)
  PROVE  Stepped
<1> DEFINE meter == [db.meter EXCEPT ![m] = @ + Refill]
           funded == [audit.funded EXCEPT ![m] = @ + Refill]
           t == WithMeter(Now, meter)
<1>1. /\ Now \in States /\ Now.db = db /\ Refill \in Nat
      /\ MetersOK(audit, db.meter)
  BY NowIs, FundsAssumption DEF WarehouseInv, CurrentOK
<1>2. /\ db.meter \in [Meters -> Nat] /\ audit \in Audits /\ audit.funded \in [Meters -> Nat]
      /\ audit.used \in [Meters -> Nat] /\ audit.kept \in [Meters -> Nat]
      /\ audit.boyd \in [Meters -> Nat]
  BY <1>1 DEF MetersOK, Audits
<1>3. meter \in [Meters -> Nat] /\ funded \in [Meters -> Nat]
  BY <1>1, <1>2
<1>4. audit' = [audit EXCEPT !.funded = funded]
  BY <1>2 DEF AddMeterRemaining, Audits
<1>5. EndCrank(t)
  <2>1. [Now EXCEPT !.db.meter[m] = @ + Refill] = t
    BY <1>1 DEF WithMeter, States, Dbs
  <2> HIDE DEF t
  <2> QED
    BY <2>1 DEF AddMeterRemaining
<1>6. \A n \in Meters :
        audit.used[n] + audit.boyd[n] + meter[n] = funded[n] /\ audit.kept[n] <= audit.used[n]
  <2> SUFFICES ASSUME NEW n \in Meters
               PROVE  audit.used[n] + audit.boyd[n] + meter[n] = funded[n] /\ audit.kept[n] <= audit.used[n]
    OBVIOUS
  <2>1. /\ audit.used[n] + audit.boyd[n] + db.meter[n] = audit.funded[n] /\ audit.kept[n] <= audit.used[n]
        /\ audit.boyd[n] \in Nat
        /\ audit.used[n] \in Nat /\ db.meter[n] \in Nat /\ audit.funded[n] \in Nat
    BY <1>1, <1>2 DEF MetersOK
  <2>2. CASE n = m
    BY <1>1, <1>2, <2>1, <2>2
  <2>3. CASE n # m
    BY <1>2, <2>1, <2>3
  <2> QED
    BY <2>2, <2>3
<1> HIDE DEF meter, funded
<1>7. Keeps(Now, t) /\ t.db.meter = meter
  BY <1>1, <1>3, WithMeterIs
<1> HIDE DEF t
<1>8. MetersOK(audit', meter)
  <2>1. /\ audit' \in Audits /\ audit'.funded = funded /\ audit'.used = audit.used
        /\ audit'.kept = audit.kept /\ audit'.boyd = audit.boyd
    BY <1>2, <1>3, <1>4 DEF Audits
  <2> QED
    BY <1>3, <1>6, <2>1 DEF MetersOK
<1> QED
  BY <1>5, <1>7, <1>8, KeepsLater, QuietSound

LEMMA FirstSpanLives == Living(<<EmptySpan(0, 0)>>, <<>>)
<1> DEFINE e == EmptySpan(0, 0)
           p == <<e>>
           q == <<>>
<1>1. e.start = 0 /\ e.end = 0 /\ e.items = <<>> /\ e.current = TRUE
  BY DEF EmptySpan
<1>2. Len(e.items) = 0
  BY <1>1
<1> HIDE DEF e
<1>3. Len(p) = 1 /\ p[1] = e /\ p # <<>> /\ Len(q) = 0
  OBVIOUS
<1> HIDE DEF p, q
<1>4. Orderly(p, q)
  BY <1>1, <1>2, <1>3 DEF Orderly
<1>5. Open(p, q) /\ Below(q, p[Len(p)].start)
  BY <1>1, <1>3, <1>4 DEF Open, Below
<1>6. Living(p, q)
  BY <1>1, <1>3, <1>5 DEF Living
<1> QED
  BY <1>6 DEF p, q, e

Saved(v) == [db EXCEPT !.created = @ \cup {v}]
Before(v) == [db |-> Saved(v), ram |-> ram]
Fresh(v) == [NewVat(v) EXCEPT !.db.created = @ \cup {v}]

LEMMA FreshIs ==
  ASSUME WarehouseInv, NEW v \in Vats
  PROVE  /\ Fresh(v).ram = ram
         /\ Fresh(v).db = [db EXCEPT !.alive = @ \cup {v}, !.store = InitTranscript(@, v),
                                     !.dirt = [@ EXCEPT ![v] = 0], !.created = @ \cup {v}]
<1> DEFINE alive == db.alive \cup {v}
           new == InitTranscript(db.store, v)
           created == db.created \cup {v}
           dirt == [db.dirt EXCEPT ![v] = 0]
           a == [Now EXCEPT !.db.alive = alive]
           b == [a EXCEPT !.db.store = new]
           c == [b EXCEPT !.db.dirt = dirt]
           e == [c EXCEPT !.db.created = created]
           d1 == [db EXCEPT !.alive = alive]
           d2 == [d1 EXCEPT !.store = new]
           d3 == [d2 EXCEPT !.dirt = dirt]
           d4 == [d3 EXCEPT !.created = created]
<1>1. db \in Dbs /\ Now = [db |-> db, ram |-> ram]
  BY NowIs DEF Now
<1>2. Fresh(v) = e
  BY <1>1 DEF Fresh, NewVat, Dbs
<1>3. [db EXCEPT !.alive = @ \cup {v}, !.store = InitTranscript(@, v),
                 !.dirt = [@ EXCEPT ![v] = 0], !.created = @ \cup {v}] = d4
  BY <1>1 DEF Dbs
<1> HIDE DEF alive, new, created, dirt
<1>4. a = [db |-> d1, ram |-> ram]
  BY <1>1
<1> HIDE DEF a, d1
<1>5. b = [db |-> d2, ram |-> ram]
  BY <1>4
<1> HIDE DEF b, d2
<1>6. c = [db |-> d3, ram |-> ram]
  BY <1>5
<1> HIDE DEF c, d3
<1>7. e = [db |-> d4, ram |-> ram]
  BY <1>6
<1> HIDE DEF e, d4
<1> QED
  BY <1>2, <1>3, <1>7

CanCreate(v, b, s) ==
  /\ Sane(exports, b) /\ Like(b) /\ b.db = Saved(v) /\ v \notin b.db.alive
  /\ Sound(exports, s, {}, {}) /\ Moves(b, s, v) /\ v \in s.db.alive

LEMMA FreshSound ==
  ASSUME WarehouseInv, NEW v \in Vats, v \notin db.created
  PROVE  CanCreate(v, Before(v), Fresh(v))
<1> DEFINE b == Before(v)
           s == Fresh(v)
           st == db.store
           new == InitTranscript(st, v)
           p == <<EmptySpan(0, 0)>>
           q == <<>>
<1>1. /\ Sound(exports, Now, {}, {}) /\ db \in Dbs /\ DbOK(exports, db) /\ Now.db = db
      /\ Now.ram = ram /\ Now \in States /\ ram \in Rams
  BY NowIs DEF Now, States
<1>2. /\ Saved(v) \in Dbs /\ Saved(v).store = st /\ Saved(v).alive = db.alive
      /\ Saved(v).created = db.created \cup {v} /\ Saved(v).terminated = db.terminated
      /\ Saved(v).meter = db.meter
  BY <1>1 DEF Dbs, Saved
<1>3. b \in States /\ b.db = Saved(v) /\ b.ram = ram
  BY <1>1, <1>2 DEF Before, States
<1>4. v \notin db.alive /\ st.spans[v] = <<>> /\ st.snaps[v] = <<>>
      /\ st \in Stores /\ Described(exports, st)
  BY <1>1 DEF DbOK, Dbs
<1>5. Within(db.terminated, (db.created \cup {v}) \ db.alive)
  BY <1>1 DEF DbOK, Within
<1>6. DbOK(exports, Saved(v))
  BY <1>1, <1>2, <1>5 DEF DbOK
<1>7. Sane(exports, b) /\ Like(b) /\ v \notin b.db.alive
  BY <1>2, <1>3, <1>4, <1>6 DEF Sane, Like
<1>8. Rewrites(exports, st, new, v, p, q)
  <2> HIDE DEF st
  <2> QED
    BY <1>4, InitWrites
<1>9. new \in Stores /\ Described(exports, new)
  BY <1>8 DEF Rewrites
<1>10. Living(p, q)
  BY FirstSpanLives
<1> HIDE DEF new, p, q, b, s
<1>11. /\ s.ram = ram /\ s.db \in Dbs /\ s.db.store = new /\ s.db.alive = db.alive \cup {v}
       /\ s.db.created = db.created \cup {v} /\ s.db.terminated = db.terminated
       /\ s.db.meter = db.meter /\ s \in States
  <2> DEFINE alive == db.alive \cup {v}
             created == db.created \cup {v}
             dirt == [db.dirt EXCEPT ![v] = 0]
             d == [db EXCEPT !.alive = alive, !.store = new, !.dirt = dirt, !.created = created]
  <2>1. s.ram = ram /\ s.db = d
    <3>1. /\ Fresh(v).ram = ram
          /\ Fresh(v).db = [db EXCEPT !.alive = @ \cup {v}, !.store = InitTranscript(@, v),
                                     !.dirt = [@ EXCEPT ![v] = 0], !.created = @ \cup {v}]
      BY FreshIs
    <3>2. [db EXCEPT !.alive = @ \cup {v}, !.store = InitTranscript(@, v),
                     !.dirt = [@ EXCEPT ![v] = 0], !.created = @ \cup {v}] = d
      BY <1>1 DEF Dbs, new
    <3> QED
      BY <3>1, <3>2 DEF s
  <2>2. alive \in SUBSET Vats /\ created \in SUBSET Vats /\ dirt \in [Vats -> Nat]
    BY <1>1 DEF Dbs
  <2> HIDE DEF alive, created, dirt
  <2>3. /\ d \in Dbs /\ d.store = new /\ d.alive = alive
        /\ d.created = created /\ d.terminated = db.terminated /\ d.meter = db.meter
    BY <1>1, <1>9, <2>2 DEF Dbs
  <2>4. s = [db |-> d, ram |-> ram]
    <3>1. s = [NewVat(v) EXCEPT !.db.created = @ \cup {v}]
      BY DEF s, Fresh
    <3>2. s = [db |-> s.db, ram |-> s.ram]
      BY <1>1, <3>1 DEF NewVat, States
    <3> QED
      BY <2>1, <3>2
  <2> HIDE DEF d
  <2> QED
    BY <1>1, <2>1, <2>3, <2>4 DEF States, alive, created
<1>12. /\ new.spans[v] = p /\ new.snaps[v] = q
       /\ \A w \in Vats \ {v} : new.spans[w] = st.spans[w] /\ new.snaps[w] = st.snaps[w]
  <2> HIDE DEF st
  <2> QED
    BY <1>4, <1>8, RewritesRows
<1>13. DbOK(exports, s.db)
  <2>1. s.db.alive \subseteq s.db.created
    BY <1>1, <1>11 DEF DbOK
  <2>2. IsFiniteSet(s.db.alive)
    BY <1>1, <1>11, FS_AddElement DEF DbOK
  <2>3. Within(s.db.terminated, s.db.created \ s.db.alive)
    <3>1. \A w \in Vats : w \in db.created \ db.alive => w \in s.db.created \ s.db.alive
      BY <1>11
    <3>2. db.terminated \in Seq(Vats) /\ db.created \subseteq Vats
      BY <1>1 DEF Dbs
    <3> QED
      BY <1>1, <1>11, <3>1, <3>2 DEF DbOK, Within
  <2>4. \A w \in s.db.alive : Living(s.db.store.spans[w], s.db.store.snaps[w])
    BY <1>1, <1>10, <1>11, <1>12 DEF DbOK, Dbs
  <2>5. \A w \in Vats \ s.db.alive : Closed(s.db.store.spans[w], s.db.store.snaps[w])
    BY <1>1, <1>11, <1>12 DEF DbOK
  <2>6. \A w \in Vats \ s.db.created : s.db.store.spans[w] = <<>> /\ s.db.store.snaps[w] = <<>>
    BY <1>1, <1>11, <1>12 DEF DbOK
  <2> QED
    BY <1>9, <1>11, <2>1, <2>2, <2>3, <2>4, <2>5, <2>6 DEF DbOK
<1>14. \A w \in ram.online : w # v /\ Works(s, w)
  <2> SUFFICES ASSUME NEW w \in ram.online PROVE w # v /\ Works(s, w)
    OBVIOUS
  <2>1. Works(Now, w) /\ w \in Vats
    BY <1>1 DEF Sound, Rams
  <2>2. w \in db.alive /\ w # v
    BY <1>1, <1>4, <2>1 DEF Works
  <2>3. Rebuilt(new, w) = Rebuilt(st, w) /\ CurrentSpan(new, w) = CurrentSpan(st, w)
    <3>1. new.spans[w] = st.spans[w] /\ new.snaps[w] = st.snaps[w]
      BY <1>12, <2>1, <2>2
    <3> HIDE DEF st
    <3> QED
      BY <3>1 DEF Rebuilt, CurrentSpan, SnapshotInUse
  <2> QED
    BY <1>1, <1>11, <2>1, <2>2, <2>3 DEF Works
<1>15. Sound(exports, s, {}, {})
  BY <1>1, <1>11, <1>13, <1>14 DEF Sound, Sane
<1>16. Moves(b, s, v)
  BY <1>2, <1>3, <1>11, <1>12 DEF Moves
<1> QED
  BY <1>3, <1>7, <1>11, <1>15, <1>16 DEF CanCreate, b, s

LEMMA CreateStep ==
  ASSUME WarehouseInv, NEW v \in Vats, CreateVat(v)
  PROVE  Stepped
<1> DEFINE b == Before(v)
           fresh == Fresh(v)
           saved == Saved(v)
           failed == [did |-> TRUE, abort |-> TRUE, terminate |-> TRUE,
                      computrons |-> 0, meters |-> {}, dirt |-> FALSE]
           up == EnsureVatOnline(fresh, v)
           ms == MeterOf[v]
           none == {}
<1>1. CanCreate(v, b, fresh)
  BY FreshSound DEF CreateVat
<1>2. \/ FinishCrank(fresh, v, saved, failed) /\ Settle(none, 0, 0, failed)
      \/ \E outcome \in Outcomes, c \in Costs :
           LET done == DeliverAndLog(up, v, "start", outcome)
               r == DeliveryCrankResults(done, outcome, c, TRUE, ms)
           IN FinishCrank(done, v, saved, r) /\ Settle(ms, c, 0, r)
  BY DEF CreateVat, Saved, Fresh
<1> HIDE DEF b, fresh, saved
<1>3. /\ Sane(exports, b) /\ Like(b) /\ b.db = saved /\ v \notin b.db.alive
      /\ Sound(exports, fresh, {}, {}) /\ Moves(b, fresh, v) /\ v \in fresh.db.alive
  BY <1>1 DEF CanCreate, saved
<1>4. CASE FinishCrank(fresh, v, saved, failed) /\ Settle(none, 0, 0, failed)
  <2>1. Delivered(b, fresh, v)
    BY <1>3 DEF Delivered
  <2>2. /\ failed.did \in BOOLEAN /\ failed.abort \in BOOLEAN /\ failed.terminate \in BOOLEAN
        /\ failed.dirt \in BOOLEAN
        /\ failed.abort /\ failed.terminate /\ ~failed.dirt /\ failed.computrons = 0
    OBVIOUS
  <2> HIDE DEF failed
  <2>3. ResultsFit(failed, fresh, v)
    <3>1. failed.computrons \in Nat
      BY <2>2
    <3> QED
      BY <2>2, <3>1 DEF ResultsFit
  <2>4. Owes(db.meter, failed.meters, failed.computrons, none, 0, 0, failed.abort)
    BY <2>2 DEF Owes
  <2> HIDE DEF none
  <2> QED
    BY <1>3, <1>4, <2>1, <2>3, <2>4, CrankSound
<1>5. ASSUME NEW outcome \in Outcomes, NEW c \in Costs,
             LET done == DeliverAndLog(up, v, "start", outcome)
                 r == DeliveryCrankResults(done, outcome, c, TRUE, ms)
             IN FinishCrank(done, v, saved, r) /\ Settle(ms, c, 0, r)
      PROVE  Stepped
  <2> DEFINE done == DeliverAndLog(up, v, "start", outcome)
             r == DeliveryCrankResults(done, outcome, c, TRUE, ms)
  <2>1. FinishCrank(done, v, saved, r) /\ Settle(ms, c, 0, r)
    BY <1>5
  <2>2. Sound(exports, up, {}, {}) /\ v \in up.ram.online /\ Serves(fresh, up, v)
    <3>1. Sound(exports, fresh, {v}, {})
      BY <1>3, SoundWider
    <3> QED
      BY <1>3, <3>1, EnsureSound
  <2>3. v \in up.db.alive /\ c \in Nat
    BY <1>3, <2>2, CostsAssumption DEF Serves
  <2> HIDE DEF up
  <2>4. Sound(exports, done, {}, {}) /\ Serves(up, done, v)
    <3> DEFINE kind == "start"
    <3>1. kind = "start" \/ kind = "boyd" \/ kind = "msg"
      OBVIOUS
    <3> HIDE DEF kind
    <3>2. /\ Sound(exports, DeliverAndLog(up, v, kind, outcome), {}, {})
          /\ Serves(up, DeliverAndLog(up, v, kind, outcome), v)
      BY <2>2, <2>3, <3>1, LogKind
    <3> QED
      BY <3>2 DEF kind
  <2> HIDE DEF done
  <2>5. Moves(b, done, v) /\ v \in done.db.alive
    <3>1. b \in States /\ fresh \in States /\ up \in States /\ done \in States
      BY <1>3, <2>2, <2>4 DEF Sound, Sane
    <3>2. Moves(b, up, v)
      BY <1>3, <2>2, <3>1, MovesMoves DEF Serves
    <3>3. Moves(b, done, v)
      BY <2>4, <3>1, <3>2, MovesMoves DEF Serves
    <3> QED
      BY <2>3, <2>4, <3>3 DEF Serves
  <2>6. Delivered(b, done, v)
    BY <1>3, <2>4, <2>5 DEF Delivered
  <2>7. ResultsOf(r, c, ms, db.meter)
    <3>1. ResultsOf(r, c, ms, done.db.meter)
      <4>1. done \in States /\ TRUE \in BOOLEAN
        BY <2>4 DEF Sound, Sane
      <4> QED
        BY <2>3, <4>1, ResultsIs
    <3>2. done.db.meter = db.meter
      BY <1>3, <2>5 DEF Moves, Like
    <3> QED
      BY <3>1, <3>2
  <2> HIDE DEF r, ms
  <2>8. ResultsFit(r, done, v)
    BY <2>3, <2>7, ResultsDoFit
  <2>9. Owes(db.meter, r.meters, r.computrons, ms, c, 0, r.abort)
    BY <2>3, <2>7 DEF ResultsOf, Owes
  <2> QED
    BY <1>3, <2>1, <2>6, <2>8, <2>9, CrankSound
<1> QED
  BY <1>2, <1>4, <1>5

ResultsRec(did, abort, terminate, computrons, meters, dirt) ==
  [did |-> did, abort |-> abort, terminate |-> terminate,
   computrons |-> computrons, meters |-> meters, dirt |-> dirt]
Unwound(r, total, yes, no) ==
  [r EXCEPT !.computrons = total, !.abort = yes, !.terminate = no]

LEMMA UnwoundIs ==
  ASSUME NEW did, NEW abort, NEW terminate, NEW computrons, NEW meters, NEW dirt,
         NEW total, NEW yes, NEW no
  PROVE  Unwound(ResultsRec(did, abort, terminate, computrons, meters, dirt), total, yes, no) =
           ResultsRec(did, yes, no, total, meters, dirt)
<1> DEFINE r == ResultsRec(did, abort, terminate, computrons, meters, dirt)
           r1 == [r EXCEPT !.computrons = total]
           r2 == [r1 EXCEPT !.abort = yes]
           r3 == [r2 EXCEPT !.terminate = no]
<1>1. r1 = ResultsRec(did, abort, terminate, total, meters, dirt)
  BY DEF ResultsRec
<1>2. Unwound(r, total, yes, no) = r3
  BY DEF Unwound
<1> HIDE DEF r1
<1>3. r2 = ResultsRec(did, yes, terminate, total, meters, dirt)
  BY <1>1 DEF ResultsRec
<1> HIDE DEF r2
<1>4. r3 = ResultsRec(did, yes, no, total, meters, dirt)
  BY <1>3 DEF ResultsRec
<1> HIDE DEF r3
<1> QED
  BY <1>2, <1>4

LEMMA AbortUpgradeSound ==
  ASSUME WarehouseInv, NEW v \in db.alive, NEW s, Sound(exports, s, {}, {}), Serves(Now, s, v),
         NEW r, NEW c, NEW ms, NEW meter, ResultsOf(r, c, ms, meter), r.terminate,
         NEW total \in Nat, NEW meters, NEW owed \in Nat, NEW boyd \in Nat,
         AbortUpgrade(s, v, r, total), Settle(meters, owed, boyd, [r EXCEPT !.abort = TRUE]),
         \/ r.meters = meters /\ total = owed + boyd
         \/ owed = 0 /\ boyd = 0 /\ (r.meters = {} \/ total = 0)
  PROVE  Stepped
<1> DEFINE stopped == StopWorker(s, v)
           q == [r EXCEPT !.computrons = total, !.abort = TRUE, !.terminate = FALSE]
           a == [r EXCEPT !.abort = TRUE]
           W == {}
<1>1. v \in Vats /\ v \in Now.db.alive /\ Sane(exports, Now) /\ Like(Now) /\ Now.db = db
  BY NowIs
<1>2. /\ Sound(exports, stopped, {}, W \ {v}) /\ v \notin stopped.ram.online /\ stopped.db = s.db
      /\ \A w \in Vats : Moves(s, stopped, w)
  <2>1. Sound(exports, s, {}, W)
    OBVIOUS
  <2> HIDE DEF W
  <2> QED
    BY <1>1, <2>1, StopWorkerSound
<1>3. W \ {v} = {}
  OBVIOUS
<1> HIDE DEF W, stopped
<1>4. Sound(exports, stopped, {}, {}) /\ Moves(s, stopped, v) /\ v \in s.db.alive
  BY <1>1, <1>2, <1>3 DEF Serves
<1>5. Serves(Now, stopped, v)
  <2>1. Sane(exports, s) /\ Sane(exports, stopped)
    BY <1>4 DEF Sound
  <2>2. Serves(s, stopped, v)
    BY <1>1, <1>2, <1>4, <2>1, ServesSame
  <2> QED
    BY <1>1, <2>1, <2>2, ServesServes
<1>6. Delivered(Now, stopped, v)
  BY <1>1, <1>4, <1>5 DEF Delivered, Serves
<1>7. /\ r = ResultsRec(r.did, r.abort, r.terminate, r.computrons, r.meters, r.dirt)
      /\ r.did \in BOOLEAN /\ r.dirt \in BOOLEAN /\ ~r.dirt
  BY DEF ResultsOf, ResultsRec
<1>8. q = ResultsRec(r.did, TRUE, FALSE, total, r.meters, r.dirt)
  <2> DEFINE did == r.did
             abort == r.abort
             terminate == r.terminate
             computrons == r.computrons
             paying == r.meters
             dirt == r.dirt
             yes == TRUE
             no == FALSE
             old == ResultsRec(did, abort, terminate, computrons, paying, dirt)
  <2>1. r = old
    BY <1>7
  <2>2. q = Unwound(r, total, yes, no)
    BY DEF Unwound
  <2> HIDE DEF did, abort, terminate, computrons, paying, dirt, yes, no, q
  <2>3. Unwound(old, total, yes, no) = ResultsRec(did, yes, no, total, paying, dirt)
    BY UnwoundIs
  <2> HIDE DEF old
  <2>4. q = ResultsRec(did, yes, no, total, paying, dirt)
    BY <2>1, <2>2, <2>3
  <2> QED
    BY <2>4 DEF did, paying, dirt, yes, no
<1>9. a.abort
  <2> DEFINE yes == TRUE
  <2>1. "abort" \in DOMAIN r
    BY <1>7 DEF ResultsRec
  <2>2. yes
    OBVIOUS
  <2>3. a = [r EXCEPT !.abort = yes]
    OBVIOUS
  <2> HIDE DEF yes, a
  <2>4. a.abort = yes
    BY <2>1, <2>3
  <2> QED
    BY <2>2, <2>4
<1>10. FinishCrank(stopped, v, db, q) /\ Settle(meters, owed, boyd, a)
  BY DEF AbortUpgrade, stopped
<1> HIDE DEF q, a
<1>11. /\ q.did = r.did /\ q.abort /\ q.abort \in BOOLEAN /\ ~q.terminate /\ q.terminate \in BOOLEAN
       /\ q.computrons = total /\ q.meters = r.meters /\ q.dirt = r.dirt
  <2> DEFINE yes == TRUE
             no == FALSE
  <2>1. yes /\ ~no
    OBVIOUS
  <2>2. q = ResultsRec(r.did, yes, no, total, r.meters, r.dirt)
    BY <1>8
  <2> HIDE DEF yes, no
  <2>3. /\ q.did = r.did /\ q.abort = yes /\ q.terminate = no
        /\ q.computrons = total /\ q.meters = r.meters /\ q.dirt = r.dirt
    BY <2>2 DEF ResultsRec
  <2>4. yes \in BOOLEAN /\ no \in BOOLEAN
    BY DEF yes, no
  <2> QED
    BY <2>1, <2>3, <2>4
<1>12. a.abort
  BY <1>9
<1>13. ResultsFit(q, stopped, v)
  BY <1>2, <1>7, <1>11 DEF ResultsFit
<1>14. Owes(db.meter, q.meters, q.computrons, meters, owed, boyd, a.abort)
  BY <1>11, <1>12 DEF Owes
<1> QED
  BY <1>1, <1>6, <1>10, <1>13, <1>14, CrankSound

LEMMA UpgradeStep ==
  ASSUME WarehouseInv, NEW v \in db.alive, UpgradeVat(v)
  PROVE  Stepped
<1> DEFINE ms == MeterOf[v]
           none == {}
<1>1. /\ v \in Vats /\ v \in Now.db.alive /\ Sound(exports, Now, {}, {}) /\ Sane(exports, Now)
      /\ Like(Now) /\ Now.db = db
  BY NowIs
<1>2. PICK boyd \in Outcomes, start \in Outcomes, b \in BoydCosts, c \in Costs :
       LET reaped == DeliverAndLog(Now, v, "boyd", boyd)
           boydResults == DeliveryCrankResults(reaped, boyd, b, FALSE, none)
           done == DeliverAndLog(BeginNewWorkerIncarnation(reaped, v), v, "start", start)
           startResults == DeliveryCrankResults(done, start, c, TRUE, ms)
           upgraded == [did |-> FALSE, abort |-> FALSE, terminate |-> FALSE,
                        computrons |-> b + c, meters |-> ms, dirt |-> FALSE]
       IN IF boydResults.terminate
          THEN /\ AbortUpgrade(reaped, v, boydResults, b)
               /\ Settle(none, 0, 0, [boydResults EXCEPT !.abort = TRUE])
          ELSE IF startResults.terminate
          THEN /\ AbortUpgrade(done, v, startResults, b + c)
               /\ Settle(ms, c, IF c = 0 THEN 0 ELSE b,
                         [startResults EXCEPT !.abort = TRUE])
          ELSE /\ FinishCrank(done, v, db, upgraded)
               /\ Settle(ms, c, b, upgraded)
  BY DEF UpgradeVat
<1> DEFINE reaped == DeliverAndLog(Now, v, "boyd", boyd)
           boydResults == DeliveryCrankResults(reaped, boyd, b, FALSE, none)
           fresh == BeginNewWorkerIncarnation(reaped, v)
           done == DeliverAndLog(fresh, v, "start", start)
           startResults == DeliveryCrankResults(done, start, c, TRUE, ms)
           upgraded == [did |-> FALSE, abort |-> FALSE, terminate |-> FALSE,
                        computrons |-> b + c, meters |-> ms, dirt |-> FALSE]
<1>3. b \in Nat /\ c \in Nat /\ b + c \in Nat
  <2>1. b \in Nat /\ c \in Nat
    BY CostsAssumption
  <2> QED
    BY <2>1
<1>4. IF boydResults.terminate
      THEN /\ AbortUpgrade(reaped, v, boydResults, b)
           /\ Settle(none, 0, 0, [boydResults EXCEPT !.abort = TRUE])
      ELSE IF startResults.terminate
      THEN /\ AbortUpgrade(done, v, startResults, b + c)
           /\ Settle(ms, c, IF c = 0 THEN 0 ELSE b, [startResults EXCEPT !.abort = TRUE])
      ELSE /\ FinishCrank(done, v, db, upgraded)
           /\ Settle(ms, c, b, upgraded)
  BY <1>2
<1>5. Sound(exports, reaped, {}, {}) /\ Serves(Now, reaped, v)
  <2> DEFINE kind == "boyd"
  <2>1. kind = "start" \/ kind = "boyd" \/ kind = "msg"
    OBVIOUS
  <2> HIDE DEF kind
  <2>2. /\ Sound(exports, DeliverAndLog(Now, v, kind, boyd), {}, {})
        /\ Serves(Now, DeliverAndLog(Now, v, kind, boyd), v)
    BY <1>1, <2>1, LogKind
  <2> QED
    BY <2>2 DEF kind
<1> HIDE DEF reaped
<1>6. v \in reaped.db.alive /\ Sane(exports, reaped)
  BY <1>1, <1>5 DEF Serves, Sound
<1>7. Sound(exports, fresh, {}, {}) /\ Serves(reaped, fresh, v)
  BY <1>1, <1>5, <1>6, IncarnationSound
<1> HIDE DEF fresh
<1>8. v \in fresh.db.alive /\ Sane(exports, fresh)
  BY <1>6, <1>7 DEF Serves, Sound
<1>9. Sound(exports, done, {}, {}) /\ Serves(fresh, done, v)
  <2> DEFINE kind == "start"
  <2>1. kind = "start" \/ kind = "boyd" \/ kind = "msg"
    OBVIOUS
  <2> HIDE DEF kind
  <2>2. /\ Sound(exports, DeliverAndLog(fresh, v, kind, start), {}, {})
        /\ Serves(fresh, DeliverAndLog(fresh, v, kind, start), v)
    BY <1>1, <1>7, <1>8, <2>1, LogKind
  <2> QED
    BY <2>2 DEF kind
<1> HIDE DEF done
<1>10. Serves(Now, done, v)
  <2>1. Sane(exports, done)
    BY <1>9 DEF Sound
  <2>2. Serves(reaped, done, v)
    BY <1>1, <1>6, <1>7, <1>8, <1>9, <2>1, ServesServes
  <2> QED
    BY <1>1, <1>5, <1>6, <2>1, <2>2, ServesServes
<1>11. ResultsOf(boydResults, b, none, reaped.db.meter)
  <2>1. reaped \in States /\ FALSE \in BOOLEAN
    BY <1>5 DEF Sound, Sane
  <2> HIDE DEF none
  <2> QED
    BY <1>3, <2>1, ResultsIs
<1>12. ResultsOf(startResults, c, ms, done.db.meter)
  <2>1. done \in States /\ TRUE \in BOOLEAN
    BY <1>9 DEF Sound, Sane
  <2> HIDE DEF ms
  <2> QED
    BY <1>3, <2>1, ResultsIs
<1>13. done.db.meter = db.meter
  BY <1>1, <1>10 DEF Serves, Moves
<1> HIDE DEF none, ms, boydResults, startResults
<1>14. CASE boydResults.terminate
  <2>1. /\ AbortUpgrade(reaped, v, boydResults, b)
        /\ Settle(none, 0, 0, [boydResults EXCEPT !.abort = TRUE])
    BY <1>4, <1>14
  <2> DEFINE owed == 0
             owedMore == 0
  <2>2. /\ owed \in Nat /\ owedMore \in Nat /\ owed = 0 /\ owedMore = 0
        /\ Settle(none, owed, owedMore, [boydResults EXCEPT !.abort = TRUE])
    BY <2>1
  <2>3. boydResults.meters = {}
    BY <1>11 DEF ResultsOf, none
  <2> HIDE DEF owed, owedMore
  <2> QED
    BY <1>3, <1>5, <1>11, <1>14, <2>1, <2>2, <2>3, AbortUpgradeSound
<1>15. CASE ~boydResults.terminate /\ startResults.terminate
  <2> DEFINE total == b + c
             boydOwed == IF c = 0 THEN 0 ELSE b
  <2>1. /\ AbortUpgrade(done, v, startResults, total)
        /\ Settle(ms, c, boydOwed, [startResults EXCEPT !.abort = TRUE])
    BY <1>4, <1>15
  <2>2. \/ startResults.meters = ms /\ total = c + boydOwed
        \/ c = 0 /\ boydOwed = 0 /\ (startResults.meters = {} \/ total = 0)
    BY <1>3, <1>12 DEF ResultsOf
  <2>3. total \in Nat /\ boydOwed \in Nat
    BY <1>3
  <2> HIDE DEF total, boydOwed
  <2> QED
    BY <1>3, <1>9, <1>10, <1>12, <1>15, <2>1, <2>2, <2>3, AbortUpgradeSound
<1>16. CASE ~boydResults.terminate /\ ~startResults.terminate
  <2> DEFINE total == b + c
  <2>1. FinishCrank(done, v, db, upgraded) /\ Settle(ms, c, b, upgraded)
    BY <1>4, <1>16
  <2>2. /\ upgraded.did \in BOOLEAN /\ upgraded.abort \in BOOLEAN
        /\ upgraded.terminate \in BOOLEAN /\ upgraded.dirt \in BOOLEAN
        /\ ~upgraded.abort /\ ~upgraded.terminate /\ ~upgraded.dirt
        /\ upgraded.computrons = total /\ upgraded.meters = ms
    OBVIOUS
  <2>3. total \in Nat /\ total = c + b
    BY <1>3
  <2> HIDE DEF upgraded, total
  <2>4. ResultsFit(upgraded, done, v)
    BY <2>2, <2>3 DEF ResultsFit
  <2>5. Owes(db.meter, upgraded.meters, upgraded.computrons, ms, c, b, upgraded.abort)
    <3>1. \A m \in ms \cap Meters : c <= db.meter[m]
      BY <1>12, <1>13, <1>16 DEF ResultsOf
    <3> QED
      BY <1>3, <2>2, <2>3, <3>1 DEF Owes
  <2>6. Delivered(Now, done, v)
    BY <1>1, <1>9, <1>10 DEF Delivered, Serves
  <2> QED
    BY <1>1, <2>1, <2>4, <2>5, <2>6, CrankSound
<1> QED
  BY <1>11, <1>12, <1>14, <1>15, <1>16 DEF ResultsOf

-----------------------------------------------------------------------------
(* Slow deletion. *)

Cleaned(s, st, terminated) == [s EXCEPT !.db.store = st, !.db.terminated = terminated]
Cleans(s, t, st, terminated) ==
  /\ t \in States /\ t.ram = s.ram
  /\ t.db.store = st /\ t.db.terminated = terminated /\ t.db.alive = s.db.alive
  /\ t.db.created = s.db.created /\ t.db.meter = s.db.meter

LEMMA CleanedIs ==
  ASSUME NEW s \in States, NEW st \in Stores, NEW terminated \in Seq(Vats)
  PROVE  Cleans(s, Cleaned(s, st, terminated), st, terminated)
<1> DEFINE d == [s.db EXCEPT !.store = st, !.terminated = terminated]
           t == Cleaned(s, st, terminated)
<1>1. s.db \in Dbs /\ s.ram \in Rams
  BY DEF States
<1>2. /\ d \in Dbs /\ d.store = st /\ d.terminated = terminated /\ d.alive = s.db.alive
      /\ d.created = s.db.created /\ d.meter = s.db.meter
  BY <1>1 DEF Dbs
<1>3. t = [db |-> d, ram |-> s.ram]
  <2> DEFINE t1 == [s EXCEPT !.db.store = st]
             d1 == [s.db EXCEPT !.store = st]
  <2>1. t1 = [db |-> d1, ram |-> s.ram]
    <3> DEFINE old == s.db
               ram0 == s.ram
    <3>1. s = [db |-> old, ram |-> ram0]
      BY DEF States
    <3>2. t1 = [s EXCEPT !.db.store = st] /\ d1 = [old EXCEPT !.store = st]
      OBVIOUS
    <3> HIDE DEF old, ram0, t1, d1
    <3>3. t1 = [db |-> d1, ram |-> ram0]
      BY <3>1, <3>2
    <3> QED
      BY <3>3 DEF ram0
  <2>2. d = [d1 EXCEPT !.terminated = terminated]
    OBVIOUS
  <2>3. t = [t1 EXCEPT !.db.terminated = terminated]
    BY DEF Cleaned
  <2> HIDE DEF d, t, t1, d1
  <2> QED
    BY <2>1, <2>2, <2>3
<1> HIDE DEF d, t
<1>4. t \in States /\ t.db = d /\ t.ram = s.ram
  BY <1>1, <1>2, <1>3 DEF States
<1> QED
  BY <1>2, <1>4 DEF Cleans, t

(* What is left of the rows of a dead vat. *)
LEMMA DeletedEnds ==
  ASSUME NEW x, NEW st \in Stores, NEW v \in Vats, Described(x, st),
         Closed(st.spans[v], st.snaps[v]), NEW budget \in Nat, NEW more \in BOOLEAN
  PROVE  \E p, q : Ends(x, st, IF more THEN DeleteVatTranscripts(
                                              DeleteVatSnapshots(st, v, budget), v, budget)
                               ELSE DeleteVatSnapshots(st, v, budget), v, p, q)
<1> DEFINE t == DeleteVatSnapshots(st, v, budget)
           u == DeleteVatTranscripts(t, v, budget)
           p == st.spans[v]
           q == Kept(budget, st.snaps[v])
           p2 == Kept(budget, t.spans[v])
           q2 == t.snaps[v]
<1>1. Rewrites(x, st, t, v, p, q) /\ Closed(t.spans[v], t.snaps[v])
  BY DeleteSnapshotsWrites
<1> HIDE DEF p, q, t
<1>2. t \in Stores /\ Described(x, t)
  BY <1>1 DEF Rewrites
<1>3. Rewrites(x, t, u, v, p2, q2) /\ Closed(u.spans[v], u.snaps[v])
  BY <1>1, <1>2, DeleteTranscriptsWrites
<1> HIDE DEF p2, q2, u
<1>4. t.spans[v] = p /\ t.snaps[v] = q
  <2>1. /\ t.spans[v] = p /\ t.snaps[v] = q
        /\ \A w \in Vats \ {v} : t.spans[w] = st.spans[w] /\ t.snaps[w] = st.snaps[w]
    <3>1. Rewrites(x, st, t, v, p, q)
      BY <1>1
    <3> QED
      BY <3>1, RewritesRows
  <2> QED
    BY <2>1
<1>5. Ends(x, st, t, v, p, q)
  BY <1>1, <1>2, <1>4 DEF Ends
<1>6. Rewrites(x, st, u, v, p2, q2)
  BY <1>1, <1>3, RewritesRewrites
<1>7. u.spans[v] = p2 /\ u.snaps[v] = q2
  <2>1. /\ u.spans[v] = p2 /\ u.snaps[v] = q2
        /\ \A w \in Vats \ {v} : u.spans[w] = st.spans[w] /\ u.snaps[w] = st.snaps[w]
    BY <1>6, RewritesRows
  <2> QED
    BY <2>1
<1>8. u \in Stores
  BY <1>6 DEF Rewrites
<1>9. Ends(x, st, u, v, p2, q2)
  BY <1>3, <1>6, <1>7, <1>8 DEF Ends
<1>10. CASE more
  <2>1. (IF more THEN u ELSE t) = u
    BY <1>10
  <2> QED
    BY <1>9, <2>1 DEF t, u
<1>11. CASE ~more
  <2>1. (IF more THEN u ELSE t) = t
    BY <1>11
  <2> QED
    BY <1>5, <2>1 DEF t, u
<1> QED
  BY <1>10, <1>11

LEMMA CleanedSound ==
  ASSUME WarehouseInv, NEW v \in Vats \ db.alive, NEW st, NEW p, NEW q,
         Ends(exports, db.store, st, v, p, q),
         NEW terminated \in Seq(Vats), Within(terminated, db.created \ db.alive), v \in db.created
  PROVE  /\ Sound(exports, Cleaned(Now, st, terminated), {}, {})
         /\ Moves(Now, Cleaned(Now, st, terminated), v)
<1> DEFINE t == Cleaned(Now, st, terminated)
<1>1. /\ Sound(exports, Now, {}, {}) /\ Now.db = db /\ Now \in States
      /\ db \in Dbs /\ DbOK(exports, db) /\ db.store \in Stores
  BY NowIs DEF Dbs
<1>2. st \in Stores /\ Rewrites(exports, db.store, st, v, p, q) /\ Closed(p, q) /\ Described(exports, st)
  BY DEF Ends, Rewrites
<1>3. Cleans(Now, t, st, terminated)
  BY <1>1, <1>2, CleanedIs
<1> HIDE DEF t
<1>4. /\ t \in States /\ t.ram = Now.ram
      /\ t.db.store = st /\ t.db.terminated = terminated /\ t.db.alive = db.alive
      /\ t.db.created = db.created /\ t.db.meter = db.meter
  BY <1>1, <1>3 DEF Cleans
<1>5. /\ st.spans[v] = p /\ st.snaps[v] = q
      /\ \A w \in Vats \ {v} : st.spans[w] = db.store.spans[w] /\ st.snaps[w] = db.store.snaps[w]
  <2> DEFINE old == db.store
  <2>1. old \in Stores /\ Rewrites(exports, old, st, v, p, q)
    BY <1>1, <1>2
  <2> HIDE DEF old
  <2>2. /\ st.spans[v] = p /\ st.snaps[v] = q
        /\ \A w \in Vats \ {v} : st.spans[w] = old.spans[w] /\ st.snaps[w] = old.snaps[w]
    BY <2>1, RewritesRows
  <2> QED
    BY <2>2 DEF old
<1>6. DbOK(exports, t.db)
  <2>1. t.db \in Dbs
    BY <1>4 DEF States
  <2>2. \A w \in t.db.alive : Living(t.db.store.spans[w], t.db.store.snaps[w])
    BY <1>1, <1>4, <1>5 DEF DbOK, Dbs
  <2>3. \A w \in Vats \ t.db.alive : Closed(t.db.store.spans[w], t.db.store.snaps[w])
    BY <1>1, <1>2, <1>4, <1>5 DEF DbOK
  <2>4. \A w \in Vats \ t.db.created : t.db.store.spans[w] = <<>> /\ t.db.store.snaps[w] = <<>>
    BY <1>1, <1>4, <1>5 DEF DbOK
  <2> QED
    BY <1>1, <1>2, <1>4, <2>1, <2>2, <2>3, <2>4 DEF DbOK
<1>7. \A w \in t.ram.online : Works(t, w)
  <2> SUFFICES ASSUME NEW w \in Now.ram.online PROVE Works(t, w)
    BY <1>4
  <2>1. Works(Now, w)
    BY <1>1 DEF Sound
  <2>2. w \in db.alive /\ w \in Vats \ {v}
    BY <1>1, <2>1 DEF Works, Dbs
  <2>3. st.spans[w] = db.store.spans[w] /\ st.snaps[w] = db.store.snaps[w]
    BY <1>5, <2>2
  <2>4. Rebuilt(st, w) = Rebuilt(db.store, w) /\ CurrentSpan(st, w) = CurrentSpan(db.store, w)
    BY <2>3 DEF Rebuilt, CurrentSpan, SnapshotInUse
  <2> QED
    BY <1>1, <1>4, <2>1, <2>4 DEF Works
<1>8. Sound(exports, t, {}, {})
  BY <1>1, <1>4, <1>6, <1>7 DEF Sound, Sane
<1>9. Moves(Now, t, v)
  BY <1>1, <1>4, <1>5 DEF Moves
<1> QED
  BY <1>8, <1>9 DEF t

LEMMA CleanupStep ==
  ASSUME WarehouseInv, CleanupTerminatedVat
  PROVE  Stepped
<1> DEFINE v == Head(db.terminated)
           left == CleanupBudget - FewerOf(CleanupBudget, db.store.snaps[v])
           more == left # 0
           snapless == DeleteVatSnapshots(db.store, v, CleanupBudget)
           st == IF more THEN DeleteVatTranscripts(snapless, v, CleanupBudget) ELSE snapless
           terminated == IF left # 0 /\ st.spans[v] = <<>> THEN Tail(db.terminated)
                         ELSE db.terminated
           t == Cleaned(Now, st, terminated)
<1>1. /\ Sane(exports, Now) /\ Now.db = db /\ Now \in States
      /\ db \in Dbs /\ DbOK(exports, db) /\ db.store \in Stores
  BY NowIs DEF Dbs
<1>2. /\ db.terminated \in Seq(Vats) /\ db.terminated # <<>>
      /\ Within(db.terminated, db.created \ db.alive)
  BY <1>1 DEF DbOK, Dbs, CleanupTerminatedVat
<1>3. v \in Vats \ db.alive /\ v \in db.created
  BY <1>2 DEF Within
<1>4. terminated \in Seq(Vats) /\ Within(terminated, db.created \ db.alive)
  <2>1. Tail(db.terminated) \in Seq(Vats) /\ Within(Tail(db.terminated), db.created \ db.alive)
    BY <1>2 DEF Within
  <2> HIDE DEF v, left, st
  <2> QED
    BY <1>2, <2>1
<1>5. EndCrank(t) /\ audit' = audit
  <2> DEFINE old == IF left = 0 THEN snapless ELSE DeleteVatTranscripts(snapless, v, CleanupBudget)
  <2>1. old = st
    <3> HIDE DEF left
    <3> QED
      OBVIOUS
  <2>2. /\ EndCrank([Now EXCEPT !.db.store = old,
             !.db.terminated = IF left # 0 /\ old.spans[v] = <<>> THEN Tail(@) ELSE @])
        /\ audit' = audit
    BY DEF CleanupTerminatedVat
  <2> HIDE DEF old, v, left, st
  <2>3. [Now EXCEPT !.db.store = st,
             !.db.terminated = IF left # 0 /\ st.spans[v] = <<>> THEN Tail(@) ELSE @] = t
    BY <1>1 DEF Cleaned, States, Dbs
  <2> QED
    BY <2>1, <2>2, <2>3
<1>6. \E p, q : Ends(exports, db.store, st, v, p, q)
  <2> DEFINE old == db.store
  <2>1. /\ old \in Stores /\ Described(exports, old) /\ Closed(old.spans[v], old.snaps[v])
        /\ CleanupBudget \in Nat /\ more \in BOOLEAN /\ v \in Vats
    BY <1>1, <1>3, LimitsAssumption DEF DbOK
  <2> HIDE DEF old, v, more
  <2>2. \E p, q : Ends(exports, old, IF more THEN DeleteVatTranscripts(
                                              DeleteVatSnapshots(old, v, CleanupBudget), v, CleanupBudget)
                               ELSE DeleteVatSnapshots(old, v, CleanupBudget), v, p, q)
    BY <2>1, DeletedEnds
  <2> QED
    BY <2>2 DEF old
<1> HIDE DEF v, left, st, terminated
<1>7. PICK p, q : Ends(exports, db.store, st, v, p, q)
  BY <1>6
<1>8. Sound(exports, t, {}, {}) /\ Moves(Now, t, v)
  <2>1. /\ Sound(exports, Cleaned(Now, st, terminated), {}, {})
        /\ Moves(Now, Cleaned(Now, st, terminated), v)
    BY <1>3, <1>4, <1>7, CleanedSound
  <2> QED
    BY <2>1
<1> HIDE DEF t
<1>9. Later(db, t.db)
  BY <1>3, <1>8, MovesLater DEF Sound
<1>10. MetersOK(audit', t.db.meter)
  BY <1>1, <1>5, <1>8 DEF WarehouseInv, CurrentOK, Moves
<1> QED
  BY <1>5, <1>8, <1>9, <1>10, QuietSound

-----------------------------------------------------------------------------
(* The host. *)

LEMMA OnwardLater ==
  ASSUME WarehouseInv, NEW t, t \in Onwards(exports, Now)
  PROVE  Later(db, t.db) /\ Sound(exports, t, {}, {}) /\ t.db.meter = db.meter
<1>1. Now.db = db
  BY NowIs
<1> QED
  BY <1>1 DEF Onwards, Onward, Later

LEMMA AliveInOrder ==
  ASSUME NEW x, NEW d, DbOK(x, d)
  PROVE  InOrder(d.alive) \in Seq(d.alive) /\ d.alive \in SUBSET Vats
<1>1. d.alive \in SUBSET Nat /\ IsFiniteSet(d.alive) /\ d.alive \in SUBSET Vats
  BY VatsAssumption DEF DbOK, Dbs
<1> QED
  BY <1>1, InOrderIs

LEMMA SnapshotAllStep ==
  ASSUME WarehouseInv, SnapshotAllVats
  PROVE  Stepped
<1> DEFINE vats == InOrder(db.alive)
           t == SnapshotEach(Now, vats)
<1>1. Sound(exports, Now, {}, {}) /\ Now.db = db /\ DbOK(exports, db) /\ cranks \in Nat
  BY NowIs
<1>2. vats \in Seq(Now.db.alive)
  BY <1>1, AliveInOrder
<1> HIDE DEF vats
<1>3. t \in Onwards(exports, Now)
  BY <1>1, <1>2, SnapshotEachSound
<1>4. EndCrank(t) /\ audit' = audit
  BY DEF SnapshotAllVats, vats
<1> HIDE DEF t
<1>5. Later(db, t.db) /\ Sound(exports, t, {}, {}) /\ t.db.meter = db.meter
  BY <1>3, OnwardLater
<1>6. MetersOK(audit', t.db.meter)
  BY <1>4, <1>5 DEF WarehouseInv, CurrentOK
<1> QED
  BY <1>4, <1>5, <1>6, QuietSound

LEMMA ReapAllStep ==
  ASSUME WarehouseInv, ReapAllVats
  PROVE  Stepped
<1> DEFINE vats == InOrder(db.alive)
           t == ReapEach(Now, vats)
<1>1. Now.db = db /\ Now.ram = ram /\ DbOK(exports, db) /\ Now \in States /\ DOMAIN exports \subseteq Keys
  BY NowIs DEF Now
<1>2. vats \in Seq(Vats)
  <2>1. vats \in Seq(db.alive) /\ db.alive \in SUBSET Vats
    BY <1>1, AliveInOrder
  <2> HIDE DEF vats
  <2> QED
    BY <2>1
<1> HIDE DEF vats
<1>3. t \in Reapings(Now)
  BY <1>1, <1>2, ReapEachKeeps
<1>4. db' = t.db /\ ram' = ram /\ exports' = exports /\ audit' = audit
  BY DEF ReapAllVats, vats
<1> HIDE DEF t
<1>5. Keeps(Now, t) /\ t.db.meter = db.meter
  BY <1>1, <1>3 DEF Reapings, ScheduleReapKeeps
<1>6. Later(db, t.db) /\ Sound(exports, t, {}, {})
  BY <1>5, KeepsLater
<1>7. Now' = t
  <2>1. Now' = [db |-> t.db, ram |-> t.ram]
    BY <1>1, <1>4, <1>5 DEF Now, Keeps
  <2> QED
    BY <1>5, <2>1 DEF Keeps, States
<1>8. MetersOK(audit', db'.meter)
  BY <1>4, <1>5 DEF WarehouseInv, CurrentOK
<1> QED
  BY <1>1, <1>4, <1>6, <1>7, <1>8 DEF Stepped, CurrentOK

LEMMA CommitStep ==
  ASSUME WarehouseInv, Commit
  PROVE  Stepped /\ CommittedOK'
<1>1. /\ Now.db = db /\ Now.ram = ram /\ Sound(exports, Now, {}, {}) /\ Sane(exports, Now)
      /\ db.store \in Stores /\ DOMAIN exports \subseteq Keys
  BY NowIs DEF Now, Dbs
<1>2. EndCrank(Now) /\ audit' = audit
  BY <1>1 DEF Commit, EndCrank
<1>3. Keeps(Now, Now)
  BY <1>1 DEF Keeps, Sane
<1>4. Later(db, Now.db)
  BY <1>3, KeepsLater
<1>5. MetersOK(audit', Now.db.meter)
  BY <1>1, <1>2 DEF WarehouseInv, CurrentOK
<1>6. Stepped
  BY <1>1, <1>2, <1>4, <1>5, QuietSound
<1>7. committed'.db = db' /\ committed'.exports = exports' /\ committed'.audit = audit'
  BY <1>2 DEF Commit
<1>8. DbOK(exports', db')
  <2>1. Sound(exports', Now', {}, {}) /\ Now'.db = db'
    BY <1>6 DEF Stepped, CurrentOK, Now
  <2> QED
    BY <2>1 DEF Sound, Sane
<1>9. DOMAIN exports' \subseteq Keys /\ MetersOK(audit', db'.meter)
  BY <1>6 DEF Stepped, CurrentOK
<1> QED
  BY <1>6, <1>7, <1>8, <1>9 DEF CommittedOK

Idle == [online |-> {}, heap |-> [v \in Vats |-> <<>>], recent |-> <<>>, failed |-> FALSE]

LEMMA IdleSound ==
  ASSUME NEW x, NEW d, DbOK(x, d)
  PROVE  Sound(x, [db |-> d, ram |-> Idle], {}, {})
<1> DEFINE heap == [v \in Vats |-> <<>>]
           s == [db |-> d, ram |-> Idle]
<1>1. heap \in [Vats -> Seq(Item)]
  OBVIOUS
<1>2. Idle \in Rams
  <2>1. Idle = [online |-> {}, heap |-> heap, recent |-> <<>>, failed |-> FALSE]
    BY DEF Idle
  <2>2. <<>> \in Seq(Vats) /\ {} \in SUBSET Vats
    OBVIOUS
  <2> HIDE DEF heap
  <2> QED
    BY <1>1, <2>1, <2>2 DEF Rams
<1>3. Idle.online = {} /\ Idle.recent = <<>> /\ ~Idle.failed
  BY DEF Idle
<1>4. s.db = d /\ s.ram = Idle /\ s \in States
  BY <1>2 DEF States, DbOK
<1> HIDE DEF s
<1>5. Distinct(s.ram.recent) /\ Within(s.ram.recent, s.ram.online \cup {})
  BY <1>3, <1>4 DEF Distinct, Within
<1> QED
  BY <1>3, <1>4, <1>5 DEF Sound, Sane, s

LEMMA RestartStep ==
  ASSUME WarehouseInv, Restart
  PROVE  CurrentOK' /\ CommittedOK'
<1> DEFINE x == committed.exports
           base == [db |-> committed.db, ram |-> Idle]
           order == InOrder(committed.db.alive)
           preload == SubSeq(order, 1, FewerOf(MaxPreload, order))
           s == PreloadEach(base, preload)
<1>1. DbOK(x, committed.db) /\ DOMAIN x \subseteq Keys /\ MetersOK(committed.audit, committed.db.meter)
  BY DEF WarehouseInv, CommittedOK
<1>2. Sound(x, base, {}, {}) /\ base.db = committed.db
  BY <1>1, IdleSound
<1>3. preload \in Seq(base.db.alive)
  <2>1. order \in Seq(committed.db.alive)
    BY <1>1, AliveInOrder
  <2>2. FewerOf(MaxPreload, order) \in 0..Len(order)
    BY <2>1, LimitsAssumption DEF FewerOf
  <2> DEFINE n == FewerOf(MaxPreload, order)
             alive == committed.db.alive
  <2>3. order \in Seq(alive) /\ n \in 0..Len(order) /\ preload = SubSeq(order, 1, n)
    BY <2>1, <2>2
  <2> HIDE DEF order, n, alive, preload
  <2>4. preload \in Seq(alive)
    BY <2>3
  <2> QED
    BY <1>2, <2>4 DEF alive
<1>4. db' = s.db /\ ram' = s.ram
  BY DEF Restart, Idle
<1> HIDE DEF preload, base
<1>5. s \in Onwards(x, base)
  BY <1>2, <1>3, PreloadEachSound
<1> HIDE DEF s
<1>6. Sound(x, s, {}, {}) /\ s.db.meter = committed.db.meter /\ s \in States
  BY <1>2, <1>5 DEF Onwards, Onward
<1>7. Now' = s
  <2>1. Now' = [db |-> s.db, ram |-> s.ram]
    BY <1>4 DEF Now
  <2> QED
    BY <1>6, <2>1 DEF States
<1>8. exports' = x /\ audit' = committed.audit /\ committed' = committed
  BY DEF Restart
<1> HIDE DEF x
<1>9. CurrentOK'
  BY <1>1, <1>4, <1>6, <1>7, <1>8 DEF CurrentOK
<1>10. CommittedOK'
  BY <1>8 DEF WarehouseInv, CommittedOK
<1> QED
  BY <1>9, <1>10

-----------------------------------------------------------------------------
(* The invariant holds at first and is kept. *)

FirstSpans == [v \in Vats |-> IF v \in StaticVats THEN <<EmptySpan(0, 0)>> ELSE <<>>]
FirstChanges == [k \in {SpanKey(v, EmptySpan(0, 0)) : v \in StaticVats} |-> {EmptySpan(0, 0)}]
FirstStore == [NoStore(Vats) EXCEPT !.spans = FirstSpans, !.pending = FirstChanges]
FirstDb ==
  [store |-> FirstStore, alive |-> StaticVats, created |-> StaticVats, terminated |-> <<>>,
   reapQueue |-> <<>>, dirt |-> [v \in Vats |-> 0], meter |-> Funds]

LEMMA FirstStoreIs ==
  /\ FirstStore \in Stores /\ FirstStore.spans = FirstSpans /\ FirstStore.pending = FirstChanges
  /\ FirstStore.snaps = [v \in Vats |-> <<>>]
<1> DEFINE span == EmptySpan(0, 0)
           first == <<span>>
           none == [v \in Vats |-> <<>>]
<1>1. span \in Span
  BY EmptySpanType
<1> HIDE DEF span
<1>2. first \in Seq(Span)
  BY <1>1
<1>3. FirstSpans = [v \in Vats |-> IF v \in StaticVats THEN first ELSE <<>>]
  BY DEF FirstSpans, span
<1> HIDE DEF first
<1>4. FirstSpans \in [Vats -> Seq(Span)]
  BY <1>2, <1>3
<1>5. none \in [Vats -> Seq(Snap)]
  OBVIOUS
<1>6. FirstChanges \in Changes
  <2> DEFINE ks == {SpanKey(v, span) : v \in StaticVats}
             value == {span}
  <2>1. ks \in SUBSET Keys
    BY <1>1, KeyTypes, VatsAssumption
  <2>2. value \in SUBSET Value
    BY <1>1 DEF Value
  <2>3. FirstChanges = [k \in ks |-> value]
    BY DEF FirstChanges, span
  <2> HIDE DEF ks, value
  <2> QED
    BY <2>1, <2>2, <2>3 DEF Changes
<1>7. FirstStore = [spans |-> FirstSpans, snaps |-> none, pending |-> FirstChanges]
  <2> DEFINE old == [spans |-> none, snaps |-> none, pending |-> <<>>]
  <2>1. FirstStore = [old EXCEPT !.spans = FirstSpans, !.pending = FirstChanges]
    BY DEF FirstStore, NoStore
  <2> HIDE DEF none
  <2> QED
    BY <2>1
<1> HIDE DEF none
<1> QED
  BY <1>4, <1>5, <1>6, <1>7 DEF Stores, none

LEMMA FirstRows ==
  ASSUME NEW v \in Vats
  PROVE  /\ FirstStore.snaps[v] = <<>>
         /\ v \in StaticVats => /\ FirstStore.spans[v] = <<EmptySpan(0, 0)>>
                                /\ Living(FirstStore.spans[v], FirstStore.snaps[v])
         /\ v \notin StaticVats => /\ FirstStore.spans[v] = <<>>
                                   /\ Closed(FirstStore.spans[v], FirstStore.snaps[v])
<1> DEFINE first == <<EmptySpan(0, 0)>>
<1>1. FirstStore.snaps[v] = <<>>
  BY FirstStoreIs
<1>2. Living(first, <<>>)
  BY FirstSpanLives
<1>3. FirstSpans[v] = IF v \in StaticVats THEN first ELSE <<>>
  BY DEF FirstSpans
<1> HIDE DEF first
<1>4. FirstStore.spans[v] = IF v \in StaticVats THEN first ELSE <<>>
  BY <1>3, FirstStoreIs
<1>5. Closed(<<>>, <<>>)
  BY DEF Closed, Orderly
<1> QED
  BY <1>1, <1>2, <1>4, <1>5 DEF first

LEMMA FirstDescribed == Described(<<>>, FirstStore)
<1> DEFINE span == EmptySpan(0, 0)
           first == <<span>>
<1> SUFFICES ASSUME NEW k \in Keys
             PROVE  Noted(<<>>, FirstChanges, k) =
                      Recorded(FirstStore.spans[k.vat], FirstStore.snaps[k.vat], k)
  BY FirstStoreIs DEF Described, DescribedAt
<1>1. k.vat \in Vats /\ k.pos \in SUBSET Nat /\ k = Key(k.table, k.vat, k.pos)
      /\ k.table \in {"transcript", "snapshot"}
  BY DEF Keys, Key
<1>2. span \in Span /\ span.current
  BY EmptySpanType
<1>3. \A v : SpanKey(v, span) = Key("transcript", v, {})
  BY <1>2 DEF SpanKey
<1>4. DOMAIN FirstChanges = {Key("transcript", v, {}) : v \in StaticVats}
      /\ \A i \in DOMAIN FirstChanges : FirstChanges[i] = {span}
  BY <1>3 DEF FirstChanges
<1> HIDE DEF span
<1>5. k \in DOMAIN FirstChanges <=> k.table = "transcript" /\ k.pos = {} /\ k.vat \in StaticVats
  BY <1>1, <1>4 DEF Key
<1>6. Noted(<<>>, FirstChanges, k) =
        IF k.table = "transcript" /\ k.pos = {} /\ k.vat \in StaticVats THEN {span} ELSE {}
  BY <1>4, <1>5 DEF Noted
<1>7. FirstStore.snaps[k.vat] = <<>>
  BY <1>1, FirstRows
<1>8. CASE k.table = "snapshot"
  <2> DEFINE p == FirstStore.spans[k.vat]
             q == <<>>
  <2>1. Orderly(p, q)
    BY <1>1, <1>7, FirstRows DEF Living, Open, Closed
  <2>2. q \in Seq(Snap)
    OBVIOUS
  <2>3. SnapsAt(q, k.pos) = {} /\ ~LastInUse(q)
    BY DEF SnapsAt, LastInUse
  <2> HIDE DEF p, q
  <2>4. Recorded(p, q, k) = {}
    BY <1>8, <2>1, <2>2, <2>3, RecordedSnaps
  <2> QED
    BY <1>6, <1>7, <1>8, <2>4 DEF p, q
<1>9. CASE k.table = "transcript" /\ k.vat \in StaticVats
  <2> DEFINE q == <<>>
  <2>1. FirstStore.spans[k.vat] = first /\ Open(first, q)
    BY <1>1, <1>7, <1>9, FirstRows DEF Living, span
  <2>2. first \in Seq(Span) /\ Len(first) = 1 /\ first[Len(first)] = span
    BY <1>2
  <2>3. SpansAt(first, Len(first) - 1, k.pos) = {}
    BY <2>2 DEF SpansAt
  <2> HIDE DEF first, q
  <2>4. Recorded(first, q, k) = IF k.pos = {} THEN {span} ELSE {}
    BY <1>9, <2>1, <2>2, <2>3, RecordedSpans
  <2> QED
    BY <1>6, <1>7, <1>9, <2>1, <2>4 DEF q
<1>10. CASE k.table = "transcript" /\ k.vat \notin StaticVats
  <2>1. FirstStore.spans[k.vat] = <<>>
    BY <1>1, <1>10, FirstRows
  <2>2. Recorded(<<>>, <<>>, k) = {}
    BY <1>10 DEF Recorded, ToSet
  <2> QED
    BY <1>6, <1>7, <1>10, <2>1, <2>2
<1> QED
  BY <1>1, <1>8, <1>9, <1>10

LEMMA FirstDbOK == FirstDb.store = FirstStore /\ FirstDb.alive = StaticVats /\ FirstDb.meter = Funds
                   /\ DbOK(<<>>, FirstDb)
<1>1. StaticVats \subseteq Vats /\ IsFiniteSet(StaticVats) /\ Funds \in [Meters -> Nat]
  BY VatsAssumption, FundsAssumption
<1>2. FirstStore \in Stores /\ Described(<<>>, FirstStore)
  BY FirstStoreIs, FirstDescribed
<1>3. /\ FirstDb \in Dbs /\ FirstDb.store = FirstStore /\ FirstDb.alive = StaticVats
      /\ FirstDb.created = StaticVats /\ FirstDb.terminated = <<>> /\ FirstDb.meter = Funds
  <2> DEFINE dirt == [v \in Vats |-> 0]
             none == <<>>
  <2>1. dirt \in [Vats -> Nat] /\ none \in Seq(Vats)
    OBVIOUS
  <2>2. FirstDb = [store |-> FirstStore, alive |-> StaticVats, created |-> StaticVats,
                   terminated |-> none, reapQueue |-> none, dirt |-> dirt, meter |-> Funds]
    BY DEF FirstDb
  <2> HIDE DEF dirt, none, FirstStore
  <2>3. /\ FirstDb \in Dbs /\ FirstDb.store = FirstStore /\ FirstDb.alive = StaticVats
        /\ FirstDb.created = StaticVats /\ FirstDb.terminated = none /\ FirstDb.meter = Funds
    BY <1>1, <1>2, <2>1, <2>2 DEF Dbs
  <2> QED
    BY <2>3 DEF none
<1>4. Within(FirstDb.terminated, FirstDb.created \ FirstDb.alive)
  BY <1>3 DEF Within
<1> HIDE DEF FirstDb, FirstStore
<1> QED
  BY <1>1, <1>2, <1>3, <1>4, FirstRows DEF DbOK

LEMMA InitInv == Init => WarehouseInv
<1> SUFFICES ASSUME Init PROVE WarehouseInv
  OBVIOUS
<1> DEFINE x == <<>>
           st == FirstStore
           d == FirstDb
<1>1. DbOK(x, d) /\ d.store = st /\ d.alive = StaticVats /\ d.meter = Funds
  BY FirstDbOK
<1>2. DOMAIN x \subseteq Keys
  OBVIOUS
<1>3. /\ db = [store |-> [st EXCEPT !.pending = <<>>],
               alive |-> StaticVats, created |-> StaticVats, terminated |-> <<>>,
               reapQueue |-> <<>>, dirt |-> [v \in Vats |-> 0], meter |-> Funds]
      /\ exports = FlushedExports(x, st)
  BY DEF Init, FirstStore, FirstSpans, FirstChanges
<1>4. db = WithNonePending(d)
  <2> DEFINE dirt == [v \in Vats |-> 0]
             none == <<>>
  <2>1. d = [store |-> st, alive |-> StaticVats, created |-> StaticVats, terminated |-> none,
             reapQueue |-> none, dirt |-> dirt, meter |-> Funds]
    BY DEF FirstDb
  <2>2. db = [store |-> [st EXCEPT !.pending = none], alive |-> StaticVats, created |-> StaticVats,
              terminated |-> none, reapQueue |-> none, dirt |-> dirt, meter |-> Funds]
    BY <1>3
  <2>3. WithNonePending(d) = [d EXCEPT !.store.pending = none]
    BY DEF WithNonePending
  <2> HIDE DEF dirt, none, st, d
  <2> QED
    BY <2>1, <2>2, <2>3
<1>5. ram = Idle
  BY DEF Init, Idle
<1> HIDE DEF x, st, d
<1>6. Flushes(exports, d, db)
  <2>1. Flushes(FlushedExports(x, d.store), d, WithNonePending(d))
    BY <1>1, <1>2, FlushedDb
  <2> QED
    BY <1>1, <1>3, <1>4, <2>1
<1>7. DOMAIN exports \subseteq Keys /\ DbOK(exports, db) /\ db.meter = Funds
  BY <1>1, <1>6 DEF Flushes
<1>8. Sound(exports, Now, {}, {})
  BY <1>5, <1>7, IdleSound DEF Now
<1>9. MetersOK(audit, db.meter)
  <2> DEFINE zero == [m \in Meters |-> 0]
  <2>1. audit = [used |-> zero, boyd |-> zero, kept |-> zero, funded |-> Funds]
    BY DEF Init
  <2>2. zero \in [Meters -> Nat] /\ \A m \in Meters : zero[m] = 0
    OBVIOUS
  <2> HIDE DEF zero
  <2>3. audit \in Audits /\ audit.used = zero /\ audit.boyd = zero /\ audit.kept = zero /\ audit.funded = Funds
    BY <2>1, <2>2, FundsAssumption DEF Audits
  <2>4. Funds \in [Meters -> Nat]
    BY FundsAssumption
  <2>5. \A m \in Meters : /\ audit.used[m] + audit.boyd[m] + Funds[m] = audit.funded[m]
                        /\ audit.kept[m] <= audit.used[m]
    BY <2>2, <2>3, <2>4
  <2> QED
    BY <1>7, <2>3, <2>4, <2>5 DEF MetersOK
<1>10. CurrentOK
  BY <1>7, <1>8, <1>9 DEF CurrentOK
<1>11. CommittedOK
  <2>1. committed.db = db /\ committed.exports = exports /\ committed.audit = audit
    BY DEF Init
  <2> QED
    BY <1>7, <1>9, <2>1 DEF CommittedOK
<1>12. cranks \in Nat /\ crashes \in Nat
  BY DEF Init
<1> QED
  BY <1>10, <1>11, <1>12 DEF WarehouseInv

Bystanders == committed' = committed /\ cranks' \in Nat /\ crashes' = crashes

LEMMA SteppedInv ==
  ASSUME WarehouseInv, Stepped, Bystanders
  PROVE  WarehouseInv'
BY DEF WarehouseInv, Stepped, Bystanders, CommittedOK

(* Every step but a restart goes on from the current state. *)
LEMMA NextSteps ==
  ASSUME WarehouseInv, Next
  PROVE  \/ Stepped /\ WarehouseInv' /\ crashes' = crashes
         \/ Restart
<1>1. ASSUME Stepped, Bystanders
      PROVE  Stepped /\ WarehouseInv' /\ crashes' = crashes
  BY <1>1, SteppedInv DEF Bystanders
<1>2. cranks \in Nat /\ db.alive \subseteq Vats
  BY NowIs
<1>3. ASSUME NEW v \in Vats, Deliver(v)
      PROVE  Stepped /\ Bystanders
  <2>1. v \in db.alive /\ Bystanders
    BY <1>2, <1>3 DEF Deliver, Counted, Bystanders
  <2>2. PICK outcome \in Outcomes, c \in Costs : DeliverOn(v, outcome, c, MeterOf[v])
    BY <1>3 DEF Deliver
  <2>3. c \in Nat
    BY CostsAssumption
  <2> QED
    BY <2>1, <2>2, <2>3, DeliverOnSound
<1>4. ASSUME NEW v \in Vats, DeliverGC(v)
      PROVE  Stepped /\ Bystanders
  <2> DEFINE c == 1
             none == {}
  <2>1. v \in db.alive /\ Bystanders
    BY <1>2, <1>4 DEF DeliverGC, Counted, Bystanders
  <2>2. PICK outcome \in Outcomes : DeliverOn(v, outcome, c, none)
    BY <1>4 DEF DeliverGC
  <2>3. c \in Nat
    OBVIOUS
  <2> HIDE DEF c, none
  <2> QED
    BY <2>1, <2>2, <2>3, DeliverOnSound
<1>5. ASSUME NEW v \in Vats, CreateVat(v)
      PROVE  Stepped /\ Bystanders
  <2>1. Bystanders
    BY <1>2, <1>5 DEF CreateVat, Counted, Bystanders
  <2> QED
    BY <1>5, <2>1, CreateStep
<1>6. ASSUME NEW v \in Vats, UpgradeVat(v)
      PROVE  Stepped /\ Bystanders
  <2>1. v \in db.alive /\ Bystanders
    BY <1>2, <1>6 DEF UpgradeVat, Counted, Bystanders
  <2> QED
    BY <1>6, <2>1, UpgradeStep
<1>7. ASSUME NEW v \in Vats, Terminate(v)
      PROVE  Stepped /\ Bystanders
  <2>1. v \in db.alive /\ Bystanders
    BY <1>2, <1>7 DEF Terminate, Counted, Bystanders
  <2> QED
    BY <1>7, <2>1, TerminateStep
<1>8. ASSUME Reap
      PROVE  Stepped /\ Bystanders
  <2>1. Bystanders
    BY <1>2, <1>8 DEF Reap, Bystanders
  <2> QED
    BY <1>8, <2>1, ReapSound
<1>9. ASSUME CleanupTerminatedVat
      PROVE  Stepped /\ Bystanders
  <2>1. Bystanders
    BY <1>2, <1>9 DEF CleanupTerminatedVat, Bystanders
  <2> QED
    BY <1>9, <2>1, CleanupStep
<1>10. ASSUME NEW m \in Meters, AddMeterRemaining(m)
       PROVE  Stepped /\ Bystanders
  <2>1. Bystanders
    BY <1>2, <1>10 DEF AddMeterRemaining, Counted, Bystanders
  <2> QED
    BY <1>10, <2>1, AddMeterStep
<1>11. ASSUME ReapAllVats
       PROVE  Stepped /\ Bystanders
  <2>1. Bystanders
    BY <1>2, <1>11 DEF ReapAllVats, Counted, Bystanders
  <2> QED
    BY <1>11, <2>1, ReapAllStep
<1>12. ASSUME SnapshotAllVats
       PROVE  Stepped /\ Bystanders
  <2>1. Bystanders
    BY <1>2, <1>12 DEF SnapshotAllVats, Counted, Bystanders
  <2> QED
    BY <1>12, <2>1, SnapshotAllStep
<1>13. ASSUME Commit
       PROVE  Stepped /\ WarehouseInv' /\ crashes' = crashes
  <2>1. Stepped /\ CommittedOK'
    BY <1>13, CommitStep
  <2>2. cranks' = cranks /\ crashes' = crashes /\ crashes \in Nat
    BY <1>13 DEF Commit, WarehouseInv
  <2> QED
    BY <1>2, <2>1, <2>2 DEF WarehouseInv, Stepped
<1> QED
  BY <1>1, <1>3, <1>4, <1>5, <1>6, <1>7, <1>8, <1>9, <1>10, <1>11, <1>12, <1>13 DEF Next

LEMMA NextInv ==
  ASSUME WarehouseInv, [Next]_vars
  PROVE  WarehouseInv'
<1>1. CASE UNCHANGED vars
  BY <1>1 DEF vars, WarehouseInv, CurrentOK, CommittedOK, Now
<1>2. CASE Stepped /\ WarehouseInv' /\ crashes' = crashes
  BY <1>2
<1>3. CASE Restart
  <2>1. CurrentOK' /\ CommittedOK'
    BY <1>3, RestartStep
  <2>2. cranks' = cranks /\ crashes' = crashes + 1 /\ cranks \in Nat /\ crashes \in Nat
    BY <1>3 DEF Restart, WarehouseInv
  <2> QED
    BY <2>1, <2>2 DEF WarehouseInv
<1> QED
  BY <1>1, <1>2, <1>3, NextSteps

(* The database, the workers, the host's copy of the export data and the   *)
(* meters stay sound, as they are and as they were last committed.         *)
THEOREM WarehouseInvHolds == Spec => []WarehouseInv
<1>1. WarehouseInv /\ [Next]_vars => WarehouseInv'
  BY NextInv
<1> QED
  BY <1>1, InitInv, PTL DEF Spec

(* What is on line, after any crank, abort, eviction, upgrade or crash, is *)
(* the worker that a replay of the transcript would make.                  *)
THEOREM WorkerIsItsTranscriptHolds == Spec => []WorkerIsItsTranscript
<1>1. WarehouseInv => WorkerIsItsTranscript
  BY DEF WarehouseInv, CurrentOK, Sound, Works, Now, WorkerIsItsTranscript
<1> QED
  BY <1>1, WarehouseInvHolds, PTL

(* No assertion of the warehouse ever throws: evict finds its vat, a vat   *)
(* brought on line is alive and its span starts with init or load.         *)
THEOREM KernelNeverFailsHolds == Spec => []KernelNeverFails
<1>1. WarehouseInv => KernelNeverFails
  BY DEF WarehouseInv, CurrentOK, Sound, Now, KernelNeverFails
<1> QED
  BY <1>1, WarehouseInvHolds, PTL

(* The host's copy of the export data, once flushed, is what an exporter   *)
(* reads from the database.                                                *)
THEOREM ExportsDescribeStoreHolds == Spec => []ExportsDescribeStore
<1>1. WarehouseInv => ExportsDescribeStore
  <2> SUFFICES ASSUME WarehouseInv PROVE ExportsDescribeStore
    OBVIOUS
  <2>1. DOMAIN exports \subseteq Keys /\ DbOK(exports, db)
    BY NowIs
  <2>2. db.store \in Stores /\ Described(exports, db.store)
    BY <2>1 DEF DbOK, Dbs
  <2>3. \A v \in Vats : Orderly(db.store.spans[v], db.store.snaps[v])
    BY <2>1 DEF DbOK, Living, Open, Closed
  <2> QED
    BY <2>1, <2>2, <2>3, FlushedIsRecords DEF ExportsDescribeStore
<1> QED
  BY <1>1, WarehouseInvHolds, PTL

(* What is gone from a meter is what user code consumed and what upgrades' *)
(* bringOutYourDead took, whatever was rolled back, and what was kept was  *)
(* paid in full. *)
THEOREM MetersAreHonestHolds == Spec => []MetersAreHonest
<1>1. WarehouseInv => MetersAreHonest
  <2> SUFFICES ASSUME WarehouseInv, NEW m \in Meters
               PROVE  /\ audit.funded[m] - db.meter[m] = audit.used[m] + audit.boyd[m]
                      /\ audit.kept[m] <= audit.used[m]
    BY DEF MetersAreHonest
  <2>1. /\ audit.used[m] \in Nat /\ audit.kept[m] \in Nat /\ audit.funded[m] \in Nat
        /\ db.meter[m] \in Nat /\ audit.boyd[m] \in Nat
        /\ audit.used[m] + audit.boyd[m] + db.meter[m] = audit.funded[m]
        /\ audit.kept[m] <= audit.used[m]
    BY DEF WarehouseInv, CurrentOK, MetersOK, Audits
  <2> QED
    BY <2>1
<1> QED
  BY <1>1, WarehouseInvHolds, PTL

(* No crank changes what an incarnation has experienced: its heap, as a    *)
(* replay would make it, only grows until an upgrade, a crash or the end   *)
(* of the vat.                                                             *)
THEOREM ExperienceOnlyGrowsHolds == Spec => ExperienceOnlyGrows
<1> DEFINE Grown == \A v \in db.alive \cap db'.alive :
             crashes' = crashes
               /\ CurrentSpan(db'.store, v).incarnation = CurrentSpan(db.store, v).incarnation
             => IsPrefix(Rebuilt(db.store, v), Rebuilt(db'.store, v))
<1>1. WarehouseInv /\ [Next]_vars => [Grown]_vars
  <2> SUFFICES ASSUME WarehouseInv, Next PROVE Grown
    OBVIOUS
  <2>1. CASE Stepped
    BY <2>1 DEF Stepped, Later, Grows
  <2>2. CASE Restart
    <3>1. crashes' # crashes
      BY <2>2 DEF Restart, WarehouseInv
    <3> QED
      BY <3>1
  <2> QED
    BY <2>1, <2>2, NextSteps
<1> QED
  BY <1>1, WarehouseInvHolds, PTL DEF Spec, ExperienceOnlyGrows
=============================================================================

--------------------------- MODULE LiveslotsProofs ---------------------------
(***************************************************************************)
(* Liveslots keeps what is in use, remembers what is not, and says nothing *)
(* to the kernel that is not so: for any sets of vrefs, any contents of    *)
(* storage and any number of finalizers.                                   *)
(***************************************************************************)
EXTENDS LiveslotsProperties, FiniteSetTheorems, TLAPS

Values == {"unnamed", "absent", "live", "collected"}
Statuses == {"n", "s", "r"}

Vat ==
  [entries : SUBSET Contents, rc : [Vrefs -> Nat], es : [Stored -> Statuses],
   alive : SUBSET Stored,
   val : [Vrefs -> Values],
   dead : SUBSET Vrefs, retired : SUBSET Presences, exported : SUBSET Remotables,
   recognized : SUBSET Remotables, maps : SUBSET WeakMaps,
   again : BOOLEAN, failed : BOOLEAN]

TypeInv ==
  /\ vat \in Vat
  /\ held \in SUBSET (Vrefs \cup WeakMaps)
  /\ callbacks \in [Vrefs -> Nat]
  /\ clist \in [Vrefs -> {"none", "reach", "seen", "gone"}]
  /\ scan \in [phase : {"idle", "gc", "examine"}, todo : SUBSET Vrefs,
               drop : SUBSET Presences, retireExports : SUBSET Exports]

(* The counts are those of the entries in storage, *)
Counted(vt) ==
  /\ IsFiniteSet(vt.entries)
  /\ \A o \in Vrefs : vt.rc[o] = CountIn(InStore(vt.entries), o)

(* of which there is one at most for a key. *)
OneEntry(vt) ==
  \A e, f \in vt.entries : e.holder = f.holder /\ e.key = f.key => e = f

Known(vt, o) == \E e \in vt.entries : e.key = o

(* What a count, the engine or a list of liveslots refers to is there. *)
IsAlive ==
  /\ \A o \in Stored \ vat.alive :
       /\ vat.val[o] = "absent" /\ vat.rc[o] = 0 /\ vat.es[o] = "n"
       /\ o \notin vat.dead \cup scan.todo
  /\ \A e \in vat.entries : Stored \cap {e.holder, e.key} \subseteq vat.alive

(* What the vat's code refers to is in RAM. *)
IsInRAM ==
  /\ \A o \in Vrefs : vat.val[o] = "unnamed" => o \in Remotables
  /\ \A o \in Vrefs : vat.val[o] = "collected" => callbacks[o] > 0
  /\ \A o \in held \cap Vrefs : vat.val[o] \in {"live", "unnamed"}
  /\ \A e \in vat.entries :
       e.holder \in WeakMaps /\ e.val \in Vrefs => vat.val[e.val] \in {"live", "unnamed"}
  /\ \A o \in Remotables : o \in vat.exported \/ vat.rc[o] > 0 => vat.val[o] = "live"

(* The c-list agrees with what liveslots believes of its imports, *)
ImportsAgree ==
  /\ \A o \in Presences :
       /\ clist[o] # "reach" =>
            vat.val[o] = "absent" /\ vat.rc[o] = 0 /\ o \notin vat.dead \cup scan.todo
       /\ clist[o] = "reach" /\ vat.val[o] = "absent" /\ vat.rc[o] = 0 =>
            o \in vat.dead \cup scan.drop
       /\ clist[o] = "seen" /\ ~Known(vat, o) => o \in vat.retired
  /\ \A e \in vat.entries : e.key \in Presences => clist[e.key] \in {"reach", "seen"}
  /\ \A o \in scan.drop :
       /\ clist[o] = "reach" /\ vat.val[o] = "absent" /\ vat.rc[o] = 0
       /\ o \in vat.retired

(* and of its exports; *)
ExportsAgree ==
  /\ \A o \in Exports : clist[o] # "gone"
  /\ \A o \in Stored :
       /\ vat.es[o] = "r" <=> clist[o] = "reach"
       /\ vat.es[o] = "s" <=> clist[o] = "seen" /\ o \notin scan.retireExports
  /\ \A o \in Remotables :
       /\ o \in vat.exported <=> clist[o] = "reach"
       /\ o \in vat.recognized <=>
            clist[o] \in {"reach", "seen"} /\ o \notin scan.retireExports
       /\ vat.val[o] = "unnamed" => clist[o] = "none"
  /\ \A o \in scan.retireExports :
       clist[o] = "seen" /\ vat.val[o] = "absent" /\ o \notin vat.alive

(* and what has lost its last support is in a list of liveslots. *)
IsListed ==
  /\ \A o \in vat.alive :
       vat.val[o] = "absent" /\ vat.rc[o] = 0 /\ clist[o] # "reach" => o \in vat.dead
  /\ \A o \in Remotables \ vat.dead : vat.val[o] = "absent" =>
       ~Known(vat, o) /\ (clist[o] = "seen" => o \in scan.retireExports)

ScanInv ==
  /\ scan.phase = "idle" => scan = NoScan
  /\ scan.phase = "gc" => scan.todo = {}

Inv ==
  /\ TypeInv /\ Counted(vat) /\ OneEntry(vat) /\ IsAlive /\ IsInRAM
  /\ ImportsAgree /\ ExportsAgree /\ IsListed /\ ScanInv

(* Where the engine collects WeakMaps in a forced GC only, what waits to be *)
(* retired is in the c-list, and no assertion has failed. *)
LegalInv ==
  /\ \A o \in vat.retired :
       clist[o] = "reach" \/ (clist[o] = "seen" /\ scan.phase # "idle")
  /\ ~vat.failed

LegalStep == OrganicGC \cap WeakMaps = {} /\ LegalInv => LegalInv'

-----------------------------------------------------------------------------
(* The kinds of vrefs and of entries *)

LEMMA Kinds ==
  /\ Presences \subseteq Vrefs /\ Stored \subseteq Exports
  /\ Remotables \subseteq Exports /\ Exports \subseteq Vrefs
  /\ \A o \in Vrefs : o \in Presences \/ o \in Exports
  /\ \A o \in Exports : o \notin Presences /\ (o \in Stored \/ o \in Remotables)
  /\ \A o \in Stored : o \notin Remotables
  /\ \A o \in WeakMaps : o \notin Vrefs
  /\ NoVref \notin Vrefs
BY VrefsAssumption DEF Vrefs, Exports

LEMMA Entries ==
  ASSUME NEW e \in Contents
  PROVE  /\ e = [holder |-> e.holder, key |-> e.key, val |-> e.val]
         /\ e.holder \in Stored \/ e.holder \in WeakMaps
         /\ e.key \in Vrefs \cup {NoVref} /\ e.val \in Vrefs \cup {NoVref}
         /\ e.holder \in WeakMaps => e.key \notin Remotables
BY ContentsAssumption

LEMMA RecognizableIsKnown ==
  ASSUME NEW vt, NEW o
  PROVE  IsRecognizable(vt, o) <=> Known(vt, o)
BY DEF IsRecognizable, Recognizers, Known

-----------------------------------------------------------------------------
(* Counting the entries that refer to a vref *)

LEMMA StoredIsFinite ==
  ASSUME NEW E, IsFiniteSet(E)
  PROVE  IsFiniteSet(InStore(E))
BY FS_Subset DEF InStore

LEMMA CountIsNat ==
  ASSUME NEW E, IsFiniteSet(E), NEW o
  PROVE  /\ CountIn(E, o) \in Nat
         /\ CountIn(E, o) = 0 <=> \A e \in E : e.val # o
<1> DEFINE M == {e \in E : e.val = o}
<1>1. IsFiniteSet(M)
  BY FS_Subset
<1>2. Cardinality(M) \in Nat /\ (Cardinality(M) = 0 <=> M = {})
  BY <1>1, FS_CardinalityType, FS_EmptySet
<1> QED BY <1>2 DEF CountIn

LEMMA CountWithout ==
  ASSUME NEW E, IsFiniteSet(E), NEW X \in SUBSET E, NEW o
  PROVE  CountIn(E \ X, o) = CountIn(E, o) - CountIn(X, o)
<1> DEFINE M == {e \in E : e.val = o}
           N == {e \in X : e.val = o}
<1>1. IsFiniteSet(M) /\ M \cap N = N /\ {e \in E \ X : e.val = o} = M \ N
  BY FS_Subset
<1>2. Cardinality(M \ N) = Cardinality(M) - Cardinality(M \cap N)
  BY <1>1, FS_Difference
<1> QED BY <1>1, <1>2 DEF CountIn

LEMMA CountWith ==
  ASSUME NEW E, IsFiniteSet(E), NEW e, e \notin E, NEW o
  PROVE  CountIn(E \cup {e}, o) = IF e.val = o THEN CountIn(E, o) + 1 ELSE CountIn(E, o)
<1> DEFINE M == {f \in E : f.val = o}
<1>1. IsFiniteSet(M) /\ e \notin M
  BY FS_Subset
<1>2. CASE e.val = o
  <2>1. {f \in E \cup {e} : f.val = o} = M \cup {e}
    BY <1>2
  <2>2. Cardinality(M \cup {e}) = Cardinality(M) + 1
    BY <1>1, FS_AddElement
  <2> QED BY <1>2, <2>1, <2>2 DEF CountIn
<1>3. CASE e.val # o
  <2>1. {f \in E \cup {e} : f.val = o} = M
    BY <1>3
  <2> QED BY <1>3, <2>1 DEF CountIn
<1> QED BY <1>2, <1>3

-----------------------------------------------------------------------------
(* What removing entries does *)

NoneIsLost(vt) == \A o \in Remotables : vt.rc[o] > 0 => vt.val[o] = "live"

(* What is not a Remotable and has lost its last reference is listed. *)
Listed(vt, w) ==
  \A o \in Vrefs :
    o \in w.dead <=> o \in vt.dead \/ (o \notin Remotables /\ vt.rc[o] > 0 /\ w.rc[o] = 0)

(* Removing the entries of E from vt leads to w: the counts stay exact, and *)
(* what has lost its last reference is listed. *)
Freed(vt, w, E) ==
  /\ w \in Vat /\ Counted(w)
  /\ w.entries = vt.entries \ E
  /\ \A o \in Vrefs : w.rc[o] <= vt.rc[o]
  /\ Listed(vt, w)
  /\ w.es = vt.es /\ w.alive = vt.alive /\ w.val = vt.val /\ w.maps = vt.maps
  /\ w.exported = vt.exported /\ w.recognized = vt.recognized
  /\ NoneIsLost(vt) => w.failed = vt.failed

CountedIn(vt, S) == IsFiniteSet(S) /\ \A o \in Vrefs : vt.rc[o] = CountIn(S, o)

(* The counts of vt come down to those of the entries of S. *)
Reduced(vt, w, S) ==
  /\ w \in Vat /\ CountedIn(w, S)
  /\ \A o \in Vrefs : w.rc[o] <= vt.rc[o]
  /\ Listed(vt, w)
  /\ w.entries = vt.entries /\ w.es = vt.es /\ w.alive = vt.alive
  /\ w.val = vt.val /\ w.retired = vt.retired /\ w.exported = vt.exported
  /\ w.recognized = vt.recognized /\ w.maps = vt.maps
  /\ NoneIsLost(vt) => w.failed = vt.failed

LEMMA RemoveReachableFields ==
  ASSUME NEW vt \in Vat, NEW S, CountedIn(vt, S),
         NEW X \in SUBSET S, NEW w, w = RemoveReachable(vt, X)
  PROVE  Reduced(vt, w, S \ X)
<1> DEFINE lost(o) == CountIn(X, o)
           left(o) == CountIn(S \ X, o)
           released == {o \in Vrefs : lost(o) > 0 /\ vt.rc[o] = lost(o)}
           ok == \A o \in Vrefs : /\ lost(o) <= vt.rc[o]
                                  /\ lost(o) > 0 /\ o \in Remotables => vt.val[o] = "live"
<1>1. IsFiniteSet(S) /\ IsFiniteSet(X)
  BY FS_Subset DEF CountedIn
<1>2. \A o \in Vrefs :
        /\ lost(o) \in Nat /\ vt.rc[o] \in Nat /\ left(o) \in Nat
        /\ left(o) = vt.rc[o] - lost(o)
  <2> SUFFICES ASSUME NEW o \in Vrefs
               PROVE  /\ lost(o) \in Nat /\ vt.rc[o] \in Nat /\ left(o) \in Nat
                      /\ left(o) = vt.rc[o] - lost(o)
    OBVIOUS
  <2>1. IsFiniteSet(S \ X)
    BY <1>1, FS_Subset
  <2>2. vt.rc[o] = CountIn(S, o) /\ vt.rc[o] \in Nat
    BY DEF Vat, CountedIn
  <2> QED BY <1>1, <2>1, <2>2, CountIsNat, CountWithout
<1>3. /\ w.rc = [o \in Vrefs |-> vt.rc[o] - lost(o)]
      /\ w.dead = vt.dead \cup (released \ Remotables)
      /\ w.entries = vt.entries /\ w.es = vt.es /\ w.alive = vt.alive
      /\ w.val = vt.val /\ w.retired = vt.retired /\ w.exported = vt.exported
      /\ w.recognized = vt.recognized /\ w.maps = vt.maps
      /\ w.again = (vt.again \/ (Scanning /\ released \cap Remotables # {}))
      /\ w.failed = (vt.failed \/ ~ok)
  BY DEF Vat, RemoveReachable, Fail
<1>4. w = [entries |-> w.entries, rc |-> w.rc, es |-> w.es, alive |-> w.alive,
           val |-> w.val, dead |-> w.dead, retired |-> w.retired,
           exported |-> w.exported, recognized |-> w.recognized, maps |-> w.maps,
           again |-> w.again, failed |-> w.failed]
  BY DEF Vat, RemoveReachable, Fail
<1> HIDE DEF lost, left
<1>5. \A o \in Vrefs : w.rc[o] = left(o) /\ w.rc[o] <= vt.rc[o]
  <2> SUFFICES ASSUME NEW o \in Vrefs
               PROVE  w.rc[o] = left(o) /\ w.rc[o] <= vt.rc[o]
    OBVIOUS
  <2>1. w.rc[o] = vt.rc[o] - lost(o)
    BY <1>3
  <2>2. vt.rc[o] - lost(o) <= vt.rc[o] /\ left(o) = vt.rc[o] - lost(o)
    BY <1>2
  <2> QED BY <2>1, <2>2
<1>6. released = {o \in Vrefs : vt.rc[o] > 0 /\ w.rc[o] = 0}
  <2> SUFFICES ASSUME NEW o \in Vrefs
               PROVE  (lost(o) > 0 /\ vt.rc[o] = lost(o)) <=> (vt.rc[o] > 0 /\ w.rc[o] = 0)
    BY Zenon
  <2>1. w.rc[o] = vt.rc[o] - lost(o)
    BY <1>3
  <2> QED BY <1>2, <2>1
<1>7. w.rc \in [Vrefs -> Nat]
  BY <1>2, <1>3
<1>8. NoneIsLost(vt) => ok
  BY <1>2 DEF NoneIsLost
<1>9. w \in Vat
  BY <1>3, <1>4, <1>7 DEF Vat
<1>10. NoneIsLost(vt) => w.failed = vt.failed
  <2>1. vt.failed \in BOOLEAN
    BY DEF Vat
  <2> QED BY <1>3, <1>8, <2>1
<1>11. Listed(vt, w)
  BY <1>3, <1>6 DEF Listed
<1>12. CountedIn(w, S \ X)
  BY <1>1, <1>5, FS_Subset DEF CountedIn, left
<1> QED BY <1>3, <1>5, <1>9, <1>10, <1>11, <1>12 DEF Reduced

LEMMA StoreWithout ==
  ASSUME NEW E, NEW X \in SUBSET E
  PROVE  InStore(E) \ InStore(X) = InStore(E \ X) /\ InStore(X) \in SUBSET InStore(E)
BY DEF InStore

(* And a Presence that has lost its last recognizer is listed, too. *)
Removed(vt, w, E) ==
  /\ Freed(vt, w, E)
  /\ vt.retired \subseteq w.retired
  /\ \A p \in w.retired : p \in vt.retired \/ \E e \in E : e.key = p
  /\ \A p \in Presences : Known(vt, p) /\ ~Known(w, p) => p \in w.retired

LEMMA RemoveEntriesFrees ==
  ASSUME NEW vt \in Vat, Counted(vt), NEW E \in SUBSET vt.entries,
         NEW w, w = RemoveEntries(vt, E)
  PROVE  Removed(vt, w, E)
<1> DEFINE X == InStore(E)
           T == InStore(vt.entries)
           r == RemoveReachable(vt, X)
           rest == vt.entries \ E
           inRAM(S, k) == \E e \in S : e.key = k /\ e.holder \in WeakMaps
           lost == {e.key : e \in InStore(E)}
                     \cup {e.key : e \in {f \in E : inRAM(E, f.key) /\ ~inRAM(rest, f.key)}}
<1>1. X \in SUBSET T /\ T \ X = InStore(rest) /\ CountedIn(vt, T)
  BY StoreWithout, StoredIsFinite DEF Counted, CountedIn, Reduced
<1>2. Reduced(vt, r, InStore(rest))
  <2> HIDE DEF X, T
  <2>1. Reduced(vt, r, T \ X)
    BY <1>1, RemoveReachableFields
  <2> QED BY <1>1, <2>1
<1>3. w = [r EXCEPT !.entries = rest, !.retired = @ \cup (lost \cap Presences)]
  BY DEF RemoveEntries
<1> HIDE DEF r, lost
<1>4. /\ w.entries = rest /\ w.retired = vt.retired \cup (lost \cap Presences)
      /\ w.rc = r.rc /\ w.dead = r.dead /\ w.es = r.es /\ w.alive = r.alive
      /\ w.val = r.val /\ w.exported = r.exported /\ w.recognized = r.recognized
      /\ w.maps = r.maps /\ w.failed = r.failed
  BY <1>2, <1>3 DEF Vat, Reduced
<1>5. w \in Vat
  <2>1. rest \in SUBSET Contents
    BY DEF Vat
  <2>2. r \in Vat /\ r.retired \cup (lost \cap Presences) \in SUBSET Presences
    BY <1>2 DEF Vat, Reduced
  <2> HIDE DEF rest
  <2> QED BY <1>3, <2>1, <2>2 DEF Vat
<1>6. Counted(w)
  <2>1. IsFiniteSet(rest)
    BY FS_Difference DEF Counted
  <2> QED BY <1>2, <1>4, <2>1 DEF Counted, CountedIn, Reduced
<1>7. Freed(vt, w, E)
  BY <1>2, <1>4, <1>5, <1>6 DEF Freed, Listed, Reduced
<1>8. vt.retired \subseteq w.retired
  BY <1>4
<1>9. \A p \in w.retired : p \in vt.retired \/ \E e \in E : e.key = p
  BY <1>4 DEF lost, InStore
<1>10. ASSUME NEW p \in Presences, Known(vt, p), ~Known(w, p)
       PROVE  p \in w.retired
  <2>1. PICK e \in vt.entries : e.key = p
    BY <1>10 DEF Known
  <2>2. \A f \in rest : f.key # p
    BY <1>4, <1>10 DEF Known
  <2>3. e \in E
    BY <2>1, <2>2
  <2>4. e.holder \in Stored \/ e.holder \in WeakMaps
    BY ContentsAssumption DEF Vat
  <2>5. p \in lost
    <3>1. CASE e.holder \in Stored
      BY <2>1, <2>3, <3>1 DEF lost, InStore
    <3>2. CASE e.holder \in WeakMaps
      <4>1. inRAM(E, p) /\ ~inRAM(rest, p)
        BY <2>1, <2>2, <2>3, <3>2
      <4> QED BY <2>1, <2>3, <4>1 DEF lost
    <3> QED BY <2>4, <3>1, <3>2
  <2> QED BY <1>4, <2>5
<1> QED BY <1>7, <1>8, <1>9, <1>10 DEF Removed

LEMMA CeaseRecognitionFrees ==
  ASSUME NEW vt \in Vat, Counted(vt), NEW o, NEW w, w = CeaseRecognition(vt, o)
  PROVE  /\ Freed(vt, w, {e \in vt.entries : e.key = o})
         /\ w.retired = vt.retired
<1> DEFINE E == {e \in vt.entries : e.key = o}
           X == InStore(E)
           T == InStore(vt.entries)
           r == RemoveReachable(vt, X)
           rest == vt.entries \ E
<1>1. X \in SUBSET T /\ T \ X = InStore(rest) /\ CountedIn(vt, T)
  BY StoreWithout, StoredIsFinite DEF Counted, CountedIn, Reduced
<1>2. Reduced(vt, r, InStore(rest))
  BY <1>1, RemoveReachableFields
<1> DEFINE more == Scanning /\ \E e \in E : e.holder \in WeakMaps
<1>3. w = [r EXCEPT !.entries = @ \ E, !.again = @ \/ more]
  BY DEF CeaseRecognition
<1> HIDE DEF r, more
<1>4. /\ w.entries = rest /\ w.retired = vt.retired
      /\ w.rc = r.rc /\ w.dead = r.dead /\ w.es = r.es /\ w.alive = r.alive
      /\ w.val = r.val /\ w.exported = r.exported /\ w.recognized = r.recognized
      /\ w.maps = r.maps /\ w.failed = r.failed
  BY <1>2, <1>3 DEF Vat, Reduced
<1>5. w \in Vat
  <2>1. rest \in SUBSET Contents
    BY DEF Vat
  <2> DEFINE b == r.again \/ more
  <2>2. b \in BOOLEAN
    OBVIOUS
  <2>3. w = [r EXCEPT !.entries = rest, !.again = b]
    BY <1>2, <1>3 DEF Reduced
  <2> HIDE DEF b
  <2> QED BY <1>2, <2>1, <2>2, <2>3 DEF Vat, Reduced
<1>6. Counted(w)
  <2>1. IsFiniteSet(rest)
    BY FS_Difference DEF Counted
  <2> QED BY <1>2, <1>4, <2>1 DEF Counted, CountedIn, Reduced
<1>7. Freed(vt, w, E)
  BY <1>2, <1>4, <1>5, <1>6 DEF Freed, Listed, Reduced
<1> QED BY <1>4, <1>7

(* What is written to storage takes the place of what was there. *)
Wrote(vt, w, h, k, x) ==
  /\ w \in Vat /\ Counted(w)
  /\ w.entries = (vt.entries \ At(vt, h, k)) \cup {[holder |-> h, key |-> k, val |-> x]}
  /\ \A o \in Vrefs : w.rc[o] > 0 => vt.rc[o] > 0 \/ o = x
  /\ Listed(vt, w)
  /\ w.es = vt.es /\ w.alive = vt.alive /\ w.val = vt.val /\ w.retired = vt.retired
  /\ w.exported = vt.exported /\ w.recognized = vt.recognized
  /\ w.failed = vt.failed

LEMMA AddReachableFields ==
  ASSUME NEW vt \in Vat, NEW S, CountedIn(vt, S), NEW n, n \notin S,
         n.val \in Vrefs \cup {NoVref}, n.val \in Remotables => vt.val[n.val] = "live",
         NEW w, w = AddReachable(vt, n.val)
  PROVE  /\ w \in Vat /\ CountedIn(w, S \cup {n})
         /\ \A o \in Vrefs : o # n.val => w.rc[o] = vt.rc[o]
         /\ w.entries = vt.entries /\ w.es = vt.es /\ w.alive = vt.alive
         /\ w.val = vt.val /\ w.retired = vt.retired /\ w.exported = vt.exported
         /\ w.recognized = vt.recognized /\ w.dead = vt.dead /\ w.failed = vt.failed
<1> DEFINE x == n.val
<1>1. IsFiniteSet(S \cup {n})
  BY FS_AddElement DEF CountedIn
<1>2. \A o \in Vrefs :
        CountIn(S \cup {n}, o) = IF x = o THEN CountIn(S, o) + 1 ELSE CountIn(S, o)
  BY CountWith DEF CountedIn
<1>3. CASE x = NoVref
  <2>1. w = vt
    BY <1>3 DEF AddReachable
  <2>2. \A o \in Vrefs : CountIn(S \cup {n}, o) = CountIn(S, o)
    BY <1>2, <1>3, Kinds
  <2> QED BY <1>1, <2>1, <2>2 DEF CountedIn
<1>4. CASE x # NoVref
  <2> DEFINE rc == [vt.rc EXCEPT ![x] = @ + 1]
  <2>1. x \in Vrefs
    BY <1>4
  <2>2. Fail(vt, x \in Remotables => vt.val[x] = "live") = vt
    BY DEF Fail, Vat
  <2>3. w = [vt EXCEPT !.rc = rc]
    <3>1. w = [Fail(vt, x \in Remotables => vt.val[x] = "live") EXCEPT !.rc[x] = @ + 1]
      BY <1>4 DEF AddReachable
    <3> QED BY <2>2, <3>1
  <2>4. rc \in [Vrefs -> Nat]
    BY <2>1 DEF Vat
  <2> HIDE DEF rc
  <2>5. /\ w \in Vat /\ w.rc = rc
        /\ w.entries = vt.entries /\ w.es = vt.es /\ w.alive = vt.alive
        /\ w.val = vt.val /\ w.retired = vt.retired /\ w.exported = vt.exported
        /\ w.recognized = vt.recognized /\ w.dead = vt.dead /\ w.failed = vt.failed
    BY <2>3, <2>4 DEF Vat
  <2>6. \A o \in Vrefs : w.rc[o] = IF x = o THEN vt.rc[o] + 1 ELSE vt.rc[o]
    BY <2>1, <2>5 DEF Vat, rc
  <2>7. \A o \in Vrefs : w.rc[o] = CountIn(S \cup {n}, o)
    <3> SUFFICES ASSUME NEW o \in Vrefs PROVE w.rc[o] = CountIn(S \cup {n}, o)
      OBVIOUS
    <3>1. vt.rc[o] = CountIn(S, o)
      BY DEF CountedIn
    <3>2. CountIn(S \cup {n}, o) = IF x = o THEN vt.rc[o] + 1 ELSE vt.rc[o]
      BY <1>2, <3>1
    <3> QED BY <2>6, <3>2
  <2> QED BY <1>1, <2>5, <2>6, <2>7 DEF CountedIn
<1> QED BY <1>3, <1>4

LEMMA WrittenFields ==
  ASSUME NEW vt \in Vat, Counted(vt), OneEntry(vt), NEW h \in Stored, NEW k, NEW x,
         [holder |-> h, key |-> k, val |-> x] \in Contents,
         x \in Remotables => vt.val[x] = "live", NoneIsLost(vt),
         NEW w, w = Written(vt, h, k, x)
  PROVE  Wrote(vt, w, h, k, x)
<1> DEFINE old == At(vt, h, k)
           n == [holder |-> h, key |-> k, val |-> x]
           same == \E e \in old : e.val = x
           S == InStore(vt.entries)
           T == S \cup {n}
           a == AddReachable(vt, x)
           r == RemoveReachable(a, old)
           rest == (vt.entries \ old) \cup {n}
<1>1. x \in Vrefs \cup {NoVref} /\ n.val = x /\ n.holder = h /\ n.key = k /\ n \in Contents
  BY Entries
<1>2. CountedIn(vt, S)
  BY StoredIsFinite DEF Counted, CountedIn
<1>3. \A e \in old : e \in Contents /\ e.holder = h /\ e.key = k /\ e \in vt.entries
  BY DEF At, Vat
<1>4. rest \in SUBSET Contents
  BY <1>1 DEF Vat
<1>5. CASE same
  <2>1. PICK e \in old : e.val = x
    BY <1>5
  <2>2. e = n
    BY <1>3, <2>1, Entries
  <2>3. old = {n}
    BY <1>3, <2>1, <2>2 DEF OneEntry
  <2>4. rest = vt.entries
    BY <1>3, <2>1, <2>2, <2>3
  <2>5. w = [vt EXCEPT !.entries = rest]
    BY <1>5 DEF Written
  <2>6. w = vt
    BY <2>4, <2>5 DEF Vat
  <2> QED BY <2>4, <2>6 DEF Wrote, Listed
<1>6. CASE ~same
  <2>1. n \notin old /\ n \notin vt.entries /\ n \notin S
    BY <1>1, <1>6 DEF At, InStore
  <2>2. /\ a \in Vat /\ CountedIn(a, T)
        /\ \A o \in Vrefs : o # x => a.rc[o] = vt.rc[o]
        /\ a.entries = vt.entries /\ a.es = vt.es /\ a.alive = vt.alive
        /\ a.val = vt.val /\ a.retired = vt.retired /\ a.exported = vt.exported
        /\ a.recognized = vt.recognized /\ a.dead = vt.dead /\ a.failed = vt.failed
    BY <1>1, <1>2, <2>1, AddReachableFields
  <2>3. old \in SUBSET T /\ T \ old = InStore(rest)
    BY <1>1, <1>3, <2>1 DEF InStore
  <2>4. Reduced(a, r, InStore(rest))
    <3> HIDE DEF a, T, old
    <3>1. Reduced(a, r, T \ old)
      BY <2>2, <2>3, RemoveReachableFields
    <3> QED BY <2>3, <3>1
  <2>5. w = [r EXCEPT !.entries = (@ \ old) \cup {n}]
    BY <1>6 DEF Written
  <2> HIDE DEF a, r, n, T
  <2>6. w = [r EXCEPT !.entries = rest]
    BY <2>2, <2>4, <2>5 DEF Reduced, Vat
  <2>7. NoneIsLost(a)
    BY <2>2, Kinds DEF NoneIsLost
  <2> HIDE DEF rest, old
  <2>8. /\ w \in Vat /\ w.entries = rest /\ w.rc = r.rc /\ w.dead = r.dead /\ w.es = r.es
        /\ w.alive = r.alive /\ w.val = r.val /\ w.retired = r.retired
        /\ w.exported = r.exported /\ w.recognized = r.recognized /\ w.failed = r.failed
    BY <1>4, <2>4, <2>6 DEF Reduced, Vat
  <2>9. Counted(w)
    <3>1. IsFiniteSet(rest)
      BY FS_Difference, FS_AddElement DEF Counted, rest
    <3> QED BY <2>4, <2>8, <3>1 DEF Reduced, CountedIn, Counted
  <2>10. x \in Vrefs => w.rc[x] > 0
    <3> HAVE x \in Vrefs
    <3>1. n \in InStore(w.entries)
      BY <1>1, <2>8 DEF rest, InStore
    <3>2. IsFiniteSet(InStore(w.entries)) /\ w.rc[x] = CountIn(InStore(w.entries), x)
      BY <2>9, StoredIsFinite DEF Counted
    <3>3. CountIn(InStore(w.entries), x) \in Nat /\ CountIn(InStore(w.entries), x) # 0
      BY <1>1, <3>1, <3>2, CountIsNat
    <3> QED BY <3>2, <3>3
  <2>11. \A o \in Vrefs : w.rc[o] > 0 => vt.rc[o] > 0 \/ o = x
    BY <2>2, <2>4, <2>8 DEF Reduced, Vat
  <2>12. Listed(vt, w)
    BY <2>2, <2>4, <2>8, <2>10 DEF Reduced, Listed
  <2> QED BY <2>2, <2>4, <2>7, <2>8, <2>9, <2>11, <2>12 DEF Reduced, Wrote, rest, old, n
<1> QED BY <1>5, <1>6

-----------------------------------------------------------------------------
(* What the other operators change *)

SameStore(vt, w) ==
  /\ w.entries = vt.entries /\ w.rc = vt.rc /\ w.alive = vt.alive
  /\ w.retired = vt.retired /\ w.maps = vt.maps

WithVal(vt, o, x) == [vt EXCEPT !.val[o] = x]
WithExports(vt, A, B) == [vt EXCEPT !.exported = A, !.recognized = B]

LEMMA Words ==
  /\ \A x \in {"unnamed", "absent", "live", "collected"} : x \in Values
  /\ \A x \in Values : x \in {"unnamed", "absent", "live", "collected"}
  /\ \A x \in {"n", "s", "r"} : x \in Statuses
  /\ \A x \in Statuses : x \in {"n", "s", "r"}
BY DEF Values, Statuses

LEMMA SetVal ==
  ASSUME NEW vt \in Vat, NEW o \in Vrefs,
         NEW x \in Values,
         NEW w, w = WithVal(vt, o, x)
  PROVE  /\ w \in Vat /\ SameStore(vt, w)
         /\ w.val = [vt.val EXCEPT ![o] = x]
         /\ w.es = vt.es /\ w.dead = vt.dead /\ w.exported = vt.exported
         /\ w.recognized = vt.recognized /\ w.failed = vt.failed
<1> DEFINE v == [vt.val EXCEPT ![o] = x]
<1>1. w = [vt EXCEPT !.val = v]
  BY DEF WithVal
<1>2. v \in [Vrefs -> Values]
  BY DEF Vat
<1> HIDE DEF v
<1>3. w \in Vat /\ w.val = v
  BY <1>1, <1>2 DEF Vat
<1> QED BY <1>1, <1>3 DEF Vat, SameStore, v

LEMMA SetStatus ==
  ASSUME NEW vt \in Vat, NEW o \in Stored, NEW status \in Statuses,
         NEW w, w = SetExportStatus(vt, o, status)
  PROVE  /\ w \in Vat /\ SameStore(vt, w)
         /\ w.es = [vt.es EXCEPT ![o] = status]
         /\ \A q : q \in w.dead <=>
                   q \in vt.dead \/ (q = o /\ status = "s" /\ vt.rc[o] = 0)
         /\ w.val = vt.val /\ w.exported = vt.exported
         /\ w.recognized = vt.recognized /\ w.failed = vt.failed
<1> DEFINE es == [vt.es EXCEPT ![o] = status]
           dead == IF status = "s" /\ vt.rc[o] = 0 THEN vt.dead \cup {o} ELSE vt.dead
<1>1. w = [vt EXCEPT !.es = es, !.dead = dead]
  <2>1. dead = vt.dead \cup {q \in {o} : status = "s" /\ vt.rc[o] = 0}
    OBVIOUS
  <2> HIDE DEF dead
  <2> QED BY <2>1 DEF SetExportStatus
<1>2. es \in [Stored -> Statuses] /\ dead \in SUBSET Vrefs
  BY Kinds DEF Vat
<1> HIDE DEF es, dead
<1>3. w \in Vat
  BY <1>1, <1>2 DEF Vat
<1> QED BY <1>1, <1>3 DEF Vat, SameStore, es, dead

LEMMA Export ==
  ASSUME NEW vt \in Vat, NEW A \in SUBSET Remotables, NEW B \in SUBSET Remotables,
         NEW w, w = WithExports(vt, A, B)
  PROVE  /\ w \in Vat /\ SameStore(vt, w)
         /\ w.exported = A /\ w.recognized = B
         /\ w.es = vt.es /\ w.dead = vt.dead /\ w.val = vt.val /\ w.failed = vt.failed
BY DEF Vat, SameStore, WithExports

LEMMA Slot ==
  ASSUME NEW vt \in Vat, NEW o \in Vrefs \cup {NoVref}, NEW w, w = ToSlot(vt, o)
  PROVE  /\ w \in Vat /\ SameStore(vt, w)
         /\ w.val = IF o \in Remotables THEN [vt.val EXCEPT ![o] = "live"] ELSE vt.val
         /\ w.es = vt.es /\ w.dead = vt.dead /\ w.exported = vt.exported
         /\ w.recognized = vt.recognized /\ w.failed = vt.failed
<1>1. CASE o \in Remotables
  <2>1. w = WithVal(vt, o, "live")
    BY <1>1 DEF ToSlot, WithVal
  <2>2. /\ w \in Vat /\ SameStore(vt, w)
        /\ w.val = [vt.val EXCEPT ![o] = "live"]
        /\ w.es = vt.es /\ w.dead = vt.dead /\ w.exported = vt.exported
        /\ w.recognized = vt.recognized /\ w.failed = vt.failed
    BY <1>1, <2>1, SetVal, Words, Kinds
  <2> QED BY <1>1, <2>2
<1>2. CASE o \notin Remotables
  BY <1>2 DEF ToSlot, SameStore
<1> QED BY <1>1, <1>2

LEMMA Val ==
  ASSUME NEW vt \in Vat, NEW o \in Vrefs, NEW w, w = ToVal(vt, o),
         o \in Remotables => vt.val[o] = "live"
  PROVE  /\ w \in Vat /\ SameStore(vt, w)
         /\ w.val = [vt.val EXCEPT ![o] = "live"]
         /\ w.es = vt.es /\ w.dead = vt.dead /\ w.exported = vt.exported
         /\ w.recognized = vt.recognized /\ w.failed = vt.failed
<1> DEFINE f == Fail(vt, o \in Remotables => InRAM(vt, o))
<1>1. f \in Vat /\ f = vt
  BY DEF Fail, InRAM, Vat
<1>2. w = WithVal(f, o, "live")
  BY DEF ToVal, WithVal
<1> HIDE DEF f
<1> QED BY <1>1, <1>2, SetVal, Words

(* The virtual object o is deleted, with what it held and who recognized it. *)
Deleted(vt, w, o) ==
  /\ w \in Vat /\ Counted(w)
  /\ w.entries = {e \in vt.entries : e.holder # o /\ e.key # o}
  /\ \A q \in Vrefs : w.rc[q] <= vt.rc[q]
  /\ Listed(vt, w)
  /\ w.es = [vt.es EXCEPT ![o] = "n"] /\ w.alive = vt.alive \ {o} /\ w.val = vt.val
  /\ w.exported = vt.exported /\ w.recognized = vt.recognized
  /\ vt.retired \subseteq w.retired
  /\ \A p \in w.retired : p \in vt.retired \/ Known(vt, p)
  /\ \A p \in Presences : Known(vt, p) /\ ~Known(w, p) => p \in w.retired
  /\ NoneIsLost(vt) /\ ~IsVirtualObjectReachable(vt, o) /\ o \in vt.alive =>
       w.failed = vt.failed

LEMMA DeletedFields ==
  ASSUME NEW vt \in Vat, Counted(vt), NEW o \in Stored, vt.rc[o] = 0,
         NEW w, w = DeleteVirtualObject(vt, o)
  PROVE  Deleted(vt, w, o)
<1> DEFINE legal == ~IsVirtualObjectReachable(vt, o) /\ o \in vt.alive
           a == Fail(vt, legal)
           E == {e \in a.entries : e.holder = o}
           b == RemoveEntries(a, E)
           c == [b EXCEPT !.alive = @ \ {o}, !.es[o] = "n", !.rc[o] = 0]
           F == {e \in c.entries : e.key = o}
<1>1. /\ a \in Vat /\ a.entries = vt.entries /\ a.rc = vt.rc /\ a.es = vt.es
      /\ a.alive = vt.alive /\ a.val = vt.val /\ a.dead = vt.dead /\ a.retired = vt.retired
      /\ a.exported = vt.exported /\ a.recognized = vt.recognized
  BY DEF Fail, Vat
<1>2. legal => a.failed = vt.failed
  BY DEF Fail, Vat
<1>3. w = CeaseRecognition(c, o)
  BY <1>1 DEF DeleteVirtualObject
<1> HIDE DEF a, legal
<1>4. Counted(a)
  BY <1>1 DEF Counted
<1>5. /\ Freed(a, b, E) /\ a.retired \subseteq b.retired
      /\ \A p \in b.retired : p \in a.retired \/ \E e \in E : e.key = p
      /\ \A p \in Presences : Known(a, p) /\ ~Known(b, p) => p \in b.retired
  <2>1. Removed(a, b, E)
    BY <1>1, <1>4, RemoveEntriesFrees
  <2> QED BY <2>1 DEF Removed
<1> HIDE DEF b
<1>6. b.rc[o] = 0 /\ o \in Vrefs
  BY <1>1, <1>5, Kinds DEF Freed, Vat
<1>7. /\ c \in Vat /\ c.entries = b.entries /\ c.rc = b.rc /\ c.dead = b.dead
      /\ c.es = [b.es EXCEPT ![o] = "n"] /\ c.alive = b.alive \ {o} /\ c.val = b.val
      /\ c.retired = b.retired /\ c.exported = b.exported
      /\ c.recognized = b.recognized /\ c.failed = b.failed
  <2> DEFINE alive == b.alive \ {o}
             es == [b.es EXCEPT ![o] = "n"]
             rc == [b.rc EXCEPT ![o] = 0]
  <2>1. b \in Vat
    BY <1>5 DEF Freed
  <2>2. alive \in SUBSET Stored /\ es \in [Stored -> Statuses] /\ rc \in [Vrefs -> Nat]
    BY <2>1, Words DEF Vat
  <2>3. rc = b.rc
    BY <1>6, <2>1 DEF Vat
  <2>4. c = [b EXCEPT !.alive = alive, !.es = es, !.rc = rc]
    OBVIOUS
  <2> HIDE DEF c, alive, es, rc
  <2>5. /\ c \in Vat /\ c.entries = b.entries /\ c.rc = rc /\ c.dead = b.dead
        /\ c.es = es /\ c.alive = alive /\ c.val = b.val
        /\ c.retired = b.retired /\ c.exported = b.exported
        /\ c.recognized = b.recognized /\ c.failed = b.failed
    BY <2>1, <2>2, <2>4 DEF Vat
  <2> QED BY <2>3, <2>5 DEF alive, es
<1> HIDE DEF c
<1>8. Counted(c)
  BY <1>5, <1>7 DEF Freed, Counted
<1>9. Freed(c, w, F) /\ w.retired = c.retired
  BY <1>3, <1>7, <1>8, CeaseRecognitionFrees
<1>10. w.entries = {e \in vt.entries : e.holder # o /\ e.key # o}
  BY <1>1, <1>5, <1>7, <1>9 DEF Freed
<1>11. \A q \in Vrefs : w.rc[q] <= vt.rc[q]
  BY <1>1, <1>5, <1>7, <1>9 DEF Freed, Vat
<1>12. Listed(vt, w)
  <2> SUFFICES ASSUME NEW q \in Vrefs
               PROVE  q \in w.dead <=>
                        q \in vt.dead \/ (q \notin Remotables /\ vt.rc[q] > 0 /\ w.rc[q] = 0)
    BY DEF Listed
  <2>1. vt.rc[q] \in Nat /\ c.rc[q] \in Nat /\ w.rc[q] \in Nat
    BY <1>7, <1>9 DEF Freed, Vat
  <2>2. c.rc[q] <= vt.rc[q] /\ w.rc[q] <= c.rc[q]
    BY <1>1, <1>5, <1>7, <1>9 DEF Freed
  <2>3. q \in c.dead <=>
          q \in vt.dead \/ (q \notin Remotables /\ vt.rc[q] > 0 /\ c.rc[q] = 0)
    BY <1>1, <1>5, <1>7 DEF Freed, Listed
  <2>4. q \in w.dead <=>
          q \in c.dead \/ (q \notin Remotables /\ c.rc[q] > 0 /\ w.rc[q] = 0)
    BY <1>9 DEF Freed, Listed
  <2> QED BY <2>1, <2>2, <2>3, <2>4
<1>13. /\ vt.retired \subseteq w.retired
       /\ \A p \in w.retired : p \in vt.retired \/ Known(vt, p)
  BY <1>1, <1>5, <1>7, <1>9 DEF Known
<1>14. \A p \in Presences : Known(vt, p) /\ ~Known(w, p) => p \in w.retired
  <2> SUFFICES ASSUME NEW p \in Presences, Known(vt, p), ~Known(w, p)
               PROVE  p \in w.retired
    OBVIOUS
  <2>1. p # o
    BY Kinds
  <2>2. Known(a, p)
    BY <1>1 DEF Known
  <2>3. ~Known(b, p)
    BY <1>7, <1>9, <2>1 DEF Known, Freed
  <2> QED BY <1>5, <1>7, <1>9, <2>2, <2>3
<1>15. NoneIsLost(vt) /\ legal => w.failed = vt.failed
  <2> SUFFICES ASSUME NoneIsLost(vt), legal PROVE w.failed = vt.failed
    OBVIOUS
  <2>1. NoneIsLost(a)
    BY <1>1 DEF NoneIsLost
  <2>2. NoneIsLost(c)
    BY <1>1, <1>5, <1>7, <2>1, Kinds DEF NoneIsLost, Freed, Vat
  <2> QED BY <1>2, <1>5, <1>7, <1>9, <2>1, <2>2 DEF Freed
<1> QED
  BY <1>1, <1>5, <1>7, <1>9, <1>10, <1>11, <1>12, <1>13, <1>14, <1>15
  DEF Freed, Deleted, legal

-----------------------------------------------------------------------------
(* Every step keeps the invariant *)

LEMMA ForgetKeeps ==
  ASSUME Inv, NEW o, Forget(o)
  PROVE  Inv' /\ LegalStep
<1>1. vat' = vat /\ held' \subseteq held /\ callbacks' = callbacks /\ clist' = clist /\ scan' = scan
  BY DEF Forget
<1>2. TypeInv'
  BY <1>1 DEF Inv, TypeInv
<1>3. IsInRAM'
  BY <1>1 DEF Inv, IsInRAM
<1>4. Counted(vat)' /\ OneEntry(vat)' /\ IsAlive' /\ ImportsAgree' /\ ExportsAgree'
      /\ IsListed' /\ ScanInv'
  BY <1>1 DEF Inv, Counted, OneEntry, IsAlive, ImportsAgree, ExportsAgree, IsListed, ScanInv, Known
<1>5. LegalStep
  BY <1>1 DEF LegalStep, LegalInv
<1> QED BY <1>2, <1>3, <1>4, <1>5 DEF Inv

LEMMA SendKeeps ==
  ASSUME Inv, NEW o \in Vrefs, Send(o)
  PROVE  Inv' /\ LegalStep
<1>1. /\ o \in held /\ o \in Exports
      /\ scan = NoScan
      /\ held' = held /\ callbacks' = callbacks /\ scan' = scan
      /\ clist' = [clist EXCEPT ![o] = "reach"]
  BY SendableAssumption DEF Send, Inv, ScanInv, Idle
<1>2. /\ vat' \in Vat /\ SameStore(vat, vat') /\ vat'.dead = vat.dead
      /\ vat'.val = IF o \in Remotables THEN [vat.val EXCEPT ![o] = "live"] ELSE vat.val
      /\ vat'.es = IF o \in Stored THEN [vat.es EXCEPT ![o] = "r"] ELSE vat.es
      /\ vat'.exported = vat.exported \cup ({o} \cap Remotables)
      /\ vat'.recognized = vat.recognized \cup ({o} \cap Remotables)
      /\ vat'.failed = vat.failed
  <2> DEFINE named == ToSlot(vat, o)
  <2>1. /\ named \in Vat /\ SameStore(vat, named)
        /\ named.val = IF o \in Remotables THEN [vat.val EXCEPT ![o] = "live"] ELSE vat.val
        /\ named.es = vat.es /\ named.dead = vat.dead /\ named.exported = vat.exported
        /\ named.recognized = vat.recognized /\ named.failed = vat.failed
    BY Slot DEF Inv, TypeInv
  <2>2. vat' = RetainExported(named, o)
    BY DEF Send
  <2> HIDE DEF named
  <2>3. CASE o \in Stored
    <3>1. vat' = SetExportStatus(named, o, "r")
      BY <2>2, <2>3 DEF RetainExported
    <3>2. /\ vat' \in Vat /\ SameStore(named, vat')
          /\ vat'.es = [named.es EXCEPT ![o] = "r"]
          /\ \A q : q \in vat'.dead <=> q \in named.dead
          /\ vat'.val = named.val /\ vat'.exported = named.exported
          /\ vat'.recognized = named.recognized /\ vat'.failed = named.failed
      BY <2>1, <2>3, <3>1, SetStatus, Words
    <3>3. o \notin Remotables
      BY <2>3, Kinds
    <3>4. vat'.dead = named.dead
      BY <3>2
    <3> QED BY <2>1, <2>3, <3>2, <3>3, <3>4 DEF SameStore
  <2>4. CASE o \in Remotables
    <3> DEFINE A == named.exported \cup {o}
               B == named.recognized \cup {o}
    <3>1. vat' = WithExports(named, A, B)
      BY <2>2, <2>4, Kinds DEF RetainExported, WithExports
    <3>2. A \in SUBSET Remotables /\ B \in SUBSET Remotables
      BY <2>1, <2>4 DEF Vat
    <3> QED BY <2>1, <2>4, <3>1, <3>2, Export, Kinds DEF SameStore
  <2> QED BY <1>1, <2>3, <2>4, Kinds
<1>3. TypeInv'
  BY <1>1, <1>2 DEF Inv, TypeInv
<1>4. Counted(vat)' /\ OneEntry(vat)'
  BY <1>2 DEF Inv, Counted, OneEntry, SameStore
<1>5. IsAlive'
  BY <1>1, <1>2, Kinds DEF Inv, TypeInv, Vat, Values, Statuses, SameStore, IsAlive, IsInRAM
<1>6. IsInRAM'
  BY <1>1, <1>2, Kinds DEF Inv, TypeInv, Vat, Values, Statuses, SameStore, IsInRAM
<1>7. ImportsAgree'
  BY <1>1, <1>2, Kinds DEF Inv, TypeInv, Vat, Values, Statuses, SameStore, ImportsAgree, Known
<1>8. ExportsAgree'
  BY <1>1, <1>2, Kinds DEF Inv, TypeInv, Vat, Values, Statuses, SameStore, ExportsAgree, NoScan
<1>9. IsListed'
  BY <1>1, <1>2, Kinds DEF Inv, TypeInv, Vat, Values, Statuses, SameStore, IsListed, Known
<1>10. ScanInv'
  BY <1>1 DEF Inv, ScanInv
<1>11. LegalStep
  BY <1>1, <1>2, Kinds DEF LegalStep, LegalInv, SameStore, Inv, TypeInv, Vat
<1> QED BY <1>3, <1>4, <1>5, <1>6, <1>7, <1>8, <1>9, <1>10, <1>11 DEF Inv

LEMMA DeliverKeeps ==
  ASSUME Inv, NEW o \in Vrefs, Deliver(o)
  PROVE  Inv' /\ LegalStep
<1>1. /\ scan = NoScan /\ callbacks' = callbacks /\ scan' = scan
      /\ held' = held \cup {o} /\ clist' = [clist EXCEPT ![o] = "reach"]
      /\ o \in Exports => clist[o] = "reach"
  BY Kinds DEF Deliver, Inv, ScanInv, Idle
<1>2. /\ vat' \in Vat /\ SameStore(vat, vat')
      /\ vat'.val = [vat.val EXCEPT ![o] = "live"]
      /\ vat'.es = vat.es /\ vat'.dead = vat.dead /\ vat'.exported = vat.exported
      /\ vat'.recognized = vat.recognized /\ vat'.failed = vat.failed
  <2>1. o \in Remotables => vat.val[o] = "live"
    BY <1>1, Kinds DEF Inv, ExportsAgree, IsInRAM
  <2>2. vat \in Vat /\ vat' = ToVal(vat, o)
    BY DEF Deliver, Inv, TypeInv
  <2> QED BY <2>1, <2>2, Val
<1>3. TypeInv'
  BY <1>1, <1>2 DEF Inv, TypeInv
<1>4. Counted(vat)' /\ OneEntry(vat)'
  BY <1>1, <1>2 DEF Inv, Counted, OneEntry, SameStore
<1>5. IsAlive'
  BY <1>1, <1>2, Kinds DEF Inv, TypeInv, Vat, Values, Statuses, SameStore, IsAlive, IsInRAM, ExportsAgree
<1>6. IsInRAM'
  BY <1>1, <1>2, Kinds DEF Inv, TypeInv, Vat, Values, Statuses, SameStore, IsInRAM
<1>7. ImportsAgree'
  BY <1>1, <1>2, Kinds DEF Inv, TypeInv, Vat, Values, Statuses, SameStore, ImportsAgree, Known, NoScan
<1>8. ExportsAgree'
  BY <1>1, <1>2, Kinds DEF Inv, TypeInv, Vat, Values, Statuses, SameStore, ExportsAgree, NoScan
<1>9. IsListed'
  BY <1>1, <1>2, Kinds DEF Inv, TypeInv, Vat, Values, Statuses, SameStore, IsListed, Known
<1>10. ScanInv'
  BY <1>1, <1>2 DEF Inv, ScanInv
<1>11. LegalStep
  BY <1>1, <1>2, Kinds DEF LegalStep, LegalInv, SameStore, Inv, TypeInv, Vat
<1> QED BY <1>3, <1>4, <1>5, <1>6, <1>7, <1>8, <1>9, <1>10, <1>11 DEF Inv

LEMMA DropExportsKeeps ==
  ASSUME Inv, NEW o \in Vrefs, DropExports(o)
  PROVE  Inv' /\ LegalStep
<1>1. /\ scan = NoScan /\ callbacks' = callbacks /\ scan' = scan /\ held' = held
      /\ o \in Exports /\ clist[o] = "reach" /\ clist' = [clist EXCEPT ![o] = "seen"]
  BY DEF DropExports, Inv, ScanInv, Idle
<1>2. /\ vat' \in Vat /\ SameStore(vat, vat')
      /\ vat'.val = vat.val
      /\ vat'.es = IF o \in Stored THEN [vat.es EXCEPT ![o] = "s"] ELSE vat.es
      /\ \A q : q \in vat'.dead <=>
                q \in vat.dead \/ (q = o /\ o \in Stored /\ vat.rc[o] = 0)
      /\ vat'.exported = vat.exported \ {o}
      /\ vat'.recognized = vat.recognized /\ vat'.failed = vat.failed
  <2> DEFINE freed == IF InRAM(vat, o) THEN [vat EXCEPT !.exported = @ \ {o}] ELSE vat
  <2>1. vat.exported \ {o} \in SUBSET Remotables /\ vat.recognized \in SUBSET Remotables /\ vat \in Vat
    BY DEF Inv, TypeInv, Vat
  <2>2. freed = WithExports(vat, vat.exported \ {o}, vat.recognized)
    <3>1. CASE InRAM(vat, o)
      BY <2>1, <3>1 DEF WithExports, Vat
    <3>2. CASE ~InRAM(vat, o)
      <4>1. vat.exported \ {o} = vat.exported
        BY <3>2, <2>1 DEF Inv, IsInRAM, InRAM, Vat
      <4> QED BY <2>1, <3>2, <4>1 DEF WithExports, Vat
    <3> QED BY <3>1, <3>2
  <2> HIDE DEF freed
  <2>3. /\ freed \in Vat /\ SameStore(vat, freed)
        /\ freed.exported = vat.exported \ {o} /\ freed.recognized = vat.recognized
        /\ freed.es = vat.es /\ freed.dead = vat.dead /\ freed.val = vat.val
        /\ freed.failed = vat.failed
    BY <2>1, <2>2, Export
  <2>4. CASE o \in Stored
    <3>1. vat' = SetExportStatus(freed, o, "s")
      BY <2>4 DEF DropExports, freed
    <3>2. /\ vat' \in Vat /\ SameStore(freed, vat')
          /\ vat'.es = [freed.es EXCEPT ![o] = "s"]
          /\ \A q : q \in vat'.dead <=> q \in freed.dead \/ (q = o /\ freed.rc[o] = 0)
          /\ vat'.val = freed.val /\ vat'.exported = freed.exported
          /\ vat'.recognized = freed.recognized /\ vat'.failed = freed.failed
      BY <2>3, <2>4, <3>1, SetStatus, Words
    <3> QED BY <2>3, <2>4, <3>2 DEF SameStore
  <2>5. CASE o \notin Stored
    <3>1. vat' = freed
      BY <2>5 DEF DropExports, freed
    <3> QED BY <2>3, <2>5, <3>1
  <2> QED BY <2>4, <2>5
<1>3. TypeInv'
  BY <1>1, <1>2 DEF Inv, TypeInv
<1>4. Counted(vat)' /\ OneEntry(vat)'
  BY <1>1, <1>2 DEF Inv, Counted, OneEntry, SameStore
<1>5. IsAlive'
  BY <1>1, <1>2, Kinds DEF Inv, TypeInv, Vat, Values, Statuses, SameStore, IsAlive, IsInRAM, ExportsAgree
<1>6. IsInRAM'
  BY <1>1, <1>2, Kinds DEF Inv, TypeInv, Vat, Values, Statuses, SameStore, IsInRAM
<1>7. ImportsAgree'
  BY <1>1, <1>2, Kinds DEF Inv, TypeInv, Vat, Values, Statuses, SameStore, ImportsAgree, Known
<1>8. ExportsAgree'
  BY <1>1, <1>2, Kinds DEF Inv, TypeInv, Vat, Values, Statuses, SameStore, ExportsAgree, NoScan
<1>9. IsListed'
  BY <1>1, <1>2, Kinds DEF Inv, TypeInv, Vat, Values, Statuses, SameStore, IsListed, Known, IsInRAM, ExportsAgree, NoScan
<1>10. ScanInv'
  BY <1>1, <1>2 DEF Inv, ScanInv
<1>11. LegalStep
  BY <1>1, <1>2, Kinds DEF LegalStep, LegalInv, SameStore, Inv, TypeInv, Vat
<1> QED BY <1>3, <1>4, <1>5, <1>6, <1>7, <1>8, <1>9, <1>10, <1>11 DEF Inv

LEMMA RetireExportsKeeps ==
  ASSUME Inv, NEW o \in Vrefs, RetireExports(o)
  PROVE  Inv' /\ LegalStep
<1>1. /\ scan = NoScan /\ callbacks' = callbacks /\ scan' = scan /\ held' = held
      /\ o \in Exports /\ clist[o] = "seen" /\ clist' = [clist EXCEPT ![o] = "none"]
  BY DEF RetireExports, Inv, ScanInv, Idle
<1>2. /\ vat' \in Vat /\ SameStore(vat, vat')
      /\ vat'.val = vat.val /\ vat'.dead = vat.dead
      /\ vat'.es = IF o \in Stored THEN [vat.es EXCEPT ![o] = "n"] ELSE vat.es
      /\ vat'.exported = vat.exported
      /\ vat'.recognized = vat.recognized \ {o} /\ vat'.failed = vat.failed
  <2>1. vat.exported \in SUBSET Remotables /\ vat.recognized \ {o} \in SUBSET Remotables /\ vat \in Vat
    BY DEF Inv, TypeInv, Vat
  <2>2. CASE o \in Stored
    <3>1. vat' = SetExportStatus(vat, o, "n")
      BY <2>2 DEF RetireExports
    <3>2. /\ vat' \in Vat /\ SameStore(vat, vat')
          /\ vat'.es = [vat.es EXCEPT ![o] = "n"]
          /\ \A q : q \in vat'.dead <=> q \in vat.dead
          /\ vat'.val = vat.val /\ vat'.exported = vat.exported
          /\ vat'.recognized = vat.recognized /\ vat'.failed = vat.failed
      BY <2>1, <2>2, <3>1, SetStatus, Words
    <3>3. vat'.dead = vat.dead
      BY <3>2
    <3>4. vat.recognized \ {o} = vat.recognized
      BY <2>1, <2>2, Kinds DEF Vat
    <3> QED BY <2>2, <3>2, <3>3, <3>4
  <2>3. CASE o \notin Stored
    <3>1. vat' = WithExports(vat, vat.exported, vat.recognized \ {o})
      BY <2>1, <2>3 DEF RetireExports, WithExports, Vat
    <3> QED BY <2>1, <2>3, <3>1, Export
  <2> QED BY <2>2, <2>3
<1>3. TypeInv'
  BY <1>1, <1>2 DEF Inv, TypeInv
<1>4. Counted(vat)' /\ OneEntry(vat)'
  BY <1>1, <1>2 DEF Inv, Counted, OneEntry, SameStore
<1>5. IsAlive'
  BY <1>1, <1>2, Kinds DEF Inv, TypeInv, Vat, Values, Statuses, SameStore, IsAlive, IsInRAM
<1>6. IsInRAM'
  BY <1>1, <1>2, Kinds DEF Inv, TypeInv, Vat, Values, Statuses, SameStore, IsInRAM
<1>7. ImportsAgree'
  BY <1>1, <1>2, Kinds DEF Inv, TypeInv, Vat, Values, Statuses, SameStore, ImportsAgree, Known
<1>8. ExportsAgree'
  BY <1>1, <1>2, Kinds DEF Inv, TypeInv, Vat, Values, Statuses, SameStore, ExportsAgree, NoScan
<1>9. IsListed'
  BY <1>1, <1>2, Kinds DEF Inv, TypeInv, Vat, Values, Statuses, SameStore, IsListed, Known
<1>10. ScanInv'
  BY <1>1, <1>2 DEF Inv, ScanInv
<1>11. LegalStep
  BY <1>1, <1>2, Kinds DEF LegalStep, LegalInv, SameStore, Inv, TypeInv, Vat
<1> QED BY <1>3, <1>4, <1>5, <1>6, <1>7, <1>8, <1>9, <1>10, <1>11 DEF Inv

LEMMA RetireImportsKeeps ==
  ASSUME Inv, NEW o \in Vrefs, RetireImports(o)
  PROVE  Inv' /\ LegalStep
<1>1. /\ scan = NoScan /\ callbacks' = callbacks /\ scan' = scan /\ held' = held
      /\ o \in Presences /\ clist[o] = "seen" /\ clist' = [clist EXCEPT ![o] = "gone"]
  BY DEF RetireImports, Inv, ScanInv, Idle
<1>2. /\ Freed(vat, vat', {e \in vat.entries : e.key = o})
      /\ vat'.retired = vat.retired
  BY CeaseRecognitionFrees DEF RetireImports, Inv, TypeInv
<1>3. TypeInv'
  BY <1>1, <1>2 DEF Inv, TypeInv, Freed
<1>4. Counted(vat)' /\ OneEntry(vat)'
  BY <1>1, <1>2 DEF Inv, Counted, OneEntry, Freed
<1>5. IsAlive'
  BY <1>1, <1>2, Kinds DEF Inv, TypeInv, Vat, Values, Statuses, Freed, Listed, IsAlive
<1>6. IsInRAM'
  BY <1>1, <1>2, Kinds DEF Inv, TypeInv, Vat, Values, Statuses, Freed, Listed, IsInRAM
<1>7. ImportsAgree'
  BY <1>1, <1>2, Kinds DEF Inv, TypeInv, Vat, Values, Statuses, Freed, Listed, ImportsAgree, Known, NoScan
<1>8. ExportsAgree'
  BY <1>1, <1>2, Kinds DEF Inv, TypeInv, Vat, Values, Statuses, Freed, Listed, ExportsAgree, NoScan
<1>9. IsListed'
  BY <1>1, <1>2, Kinds DEF Inv, TypeInv, Vat, Values, Statuses, Freed, Listed, IsListed, Known, IsInRAM
<1>10. ScanInv'
  BY <1>1, <1>2 DEF Inv, ScanInv
<1>11. LegalStep
  <2>1. NoneIsLost(vat)
    BY DEF NoneIsLost, Inv, IsInRAM
  <2> QED BY <1>1, <1>2, <2>1, Kinds DEF LegalStep, LegalInv, Freed, NoScan, Inv, TypeInv, Vat
<1> QED BY <1>3, <1>4, <1>5, <1>6, <1>7, <1>8, <1>9, <1>10, <1>11 DEF Inv

LEMMA DeleteEntryKeeps ==
  ASSUME Inv, NEW e \in vat.entries, DeleteEntry(e.holder, e.key)
  PROVE  Inv' /\ LegalStep
<1> DEFINE E == At(vat, e.holder, e.key)
<1>1. /\ scan = NoScan /\ callbacks' = callbacks /\ scan' = scan /\ held' = held
      /\ clist' = clist
  BY DEF DeleteEntry, Inv, ScanInv, Idle
<1>2. /\ Freed(vat, vat', E) /\ vat.retired \subseteq vat'.retired
      /\ \A p \in Presences : Known(vat, p) /\ ~Known(vat', p) => p \in vat'.retired
      /\ \A p \in vat'.retired : p \in vat.retired \/ \E x \in E : x.key = p
      /\ NoneIsLost(vat) => vat'.failed = vat.failed
  <2>1. vat \in Vat /\ Counted(vat) /\ E \in SUBSET vat.entries /\ vat' = RemoveEntries(vat, E)
    BY DEF DeleteEntry, Inv, TypeInv, At
  <2> HIDE DEF E
  <2>2. Removed(vat, vat', E)
    BY <2>1, RemoveEntriesFrees
  <2> QED BY <2>2 DEF Removed, Freed
<1> HIDE DEF E
<1>3. TypeInv'
  BY <1>1, <1>2 DEF Inv, TypeInv, Freed
<1>4. Counted(vat)' /\ OneEntry(vat)'
  BY <1>1, <1>2 DEF Inv, Counted, OneEntry, Freed
<1>5. IsAlive'
  BY <1>1, <1>2, Kinds DEF Inv, TypeInv, Vat, Values, Statuses, Freed, Listed, IsAlive
<1>6. IsInRAM'
  BY <1>1, <1>2, Kinds DEF Inv, TypeInv, Vat, Values, Statuses, Freed, Listed, IsInRAM
<1>7. ImportsAgree'
  BY <1>1, <1>2, Kinds DEF Inv, TypeInv, Vat, Values, Statuses, Freed, Listed, ImportsAgree, Known, NoScan
<1>8. ExportsAgree'
  BY <1>1, <1>2, Kinds DEF Inv, TypeInv, Vat, Values, Statuses, Freed, Listed, ExportsAgree, NoScan
<1>9. IsListed'
  BY <1>1, <1>2, Kinds DEF Inv, TypeInv, Vat, Values, Statuses, Freed, Listed, IsListed, Known, IsInRAM
<1>10. ScanInv'
  BY <1>1, <1>2 DEF Inv, ScanInv
<1>11. LegalStep
  <2>1. NoneIsLost(vat)
    BY DEF NoneIsLost, Inv, IsInRAM
  <2>2. e.key \in Presences => clist[e.key] = "reach"
    BY Kinds DEF DeleteEntry, Inv, IsInRAM, ImportsAgree
  <2>3. \A p \in vat'.retired : p \in vat.retired \/ clist[p] = "reach"
    BY <1>2, <2>2 DEF E, At, Freed, Vat
  <2> QED BY <1>1, <1>2, <2>1, <2>3 DEF LegalStep, LegalInv, Freed, NoScan
<1> QED BY <1>3, <1>4, <1>5, <1>6, <1>7, <1>8, <1>9, <1>10, <1>11 DEF Inv

LEMMA FinalizeWeakMapKeeps ==
  ASSUME Inv, NEW m \in WeakMaps, FinalizeWeakMap(m)
  PROVE  Inv' /\ LegalStep
<1> DEFINE E == {e \in vat.entries : e.holder = m}
           w == RemoveEntries(vat, E)
<1>1. /\ callbacks' = callbacks /\ scan' = scan /\ held' = held /\ clist' = clist
  BY DEF FinalizeWeakMap
<1>2. /\ vat' \in Vat /\ Counted(vat') /\ vat'.entries = vat.entries \ E
      /\ \A o \in Vrefs : vat'.rc[o] <= vat.rc[o]
      /\ Listed(vat, vat')
      /\ vat'.es = vat.es /\ vat'.alive = vat.alive /\ vat'.val = vat.val
      /\ vat'.exported = vat.exported /\ vat'.recognized = vat.recognized
      /\ vat.retired \subseteq vat'.retired
      /\ \A p \in Presences : Known(vat, p) /\ ~Known(vat', p) => p \in vat'.retired
      /\ \A p \in vat'.retired : p \in vat.retired \/ \E e \in E : e.key = p
      /\ NoneIsLost(vat) => vat'.failed = vat.failed
  <2>1. vat \in Vat /\ Counted(vat) /\ E \in SUBSET vat.entries
    BY DEF Inv, TypeInv
  <2>2. vat' = [w EXCEPT !.maps = @ \ {m}]
    BY DEF FinalizeWeakMap
  <2>3. /\ Freed(vat, w, E) /\ vat.retired \subseteq w.retired
        /\ \A p \in Presences : Known(vat, p) /\ ~Known(w, p) => p \in w.retired
        /\ \A p \in w.retired : p \in vat.retired \/ \E e \in E : e.key = p
    <3>1. Removed(vat, w, E)
      BY <2>1, RemoveEntriesFrees
    <3> QED BY <3>1 DEF Removed
  <2> HIDE DEF E, w
  <2>4. /\ vat' \in Vat /\ vat'.entries = w.entries /\ vat'.rc = w.rc /\ vat'.dead = w.dead
        /\ vat'.es = w.es /\ vat'.alive = w.alive /\ vat'.val = w.val
        /\ vat'.exported = w.exported /\ vat'.recognized = w.recognized
        /\ vat'.retired = w.retired /\ vat'.failed = w.failed
    BY <2>2, <2>3 DEF Freed, Vat
  <2> QED BY <2>3, <2>4 DEF Freed, Listed, Counted, Known
<1> HIDE DEF E
<1>3. TypeInv'
  BY <1>1, <1>2 DEF Inv, TypeInv
<1>4. Counted(vat)' /\ OneEntry(vat)'
  BY <1>1, <1>2 DEF Inv, Counted, OneEntry
<1>5. IsAlive'
  BY <1>1, <1>2, Kinds DEF Inv, TypeInv, Vat, Values, Statuses, Listed, IsAlive
<1>6. IsInRAM'
  BY <1>1, <1>2, Kinds DEF Inv, TypeInv, Vat, Values, Statuses, Listed, IsInRAM
<1>7. ImportsAgree'
  BY <1>1, <1>2, Kinds DEF Inv, TypeInv, Vat, Values, Statuses, Listed, ImportsAgree, Known, NoScan
<1>8. ExportsAgree'
  BY <1>1, <1>2, Kinds DEF Inv, TypeInv, Vat, Values, Statuses, Listed, ExportsAgree, NoScan
<1>9. IsListed'
  BY <1>1, <1>2, Kinds DEF Inv, TypeInv, Vat, Values, Statuses, Listed, IsListed, Known, IsInRAM
<1>10. ScanInv'
  BY <1>1, <1>2 DEF Inv, ScanInv
<1>11. LegalStep
  <2> SUFFICES ASSUME OrganicGC \cap WeakMaps = {}, LegalInv PROVE LegalInv'
    BY DEF LegalStep
  <2>1. NoneIsLost(vat)
    BY DEF NoneIsLost, Inv, IsInRAM
  <2>2. scan.phase = "gc"
    BY DEF FinalizeWeakMap, Forced
  <2>3. \A p \in vat'.retired : p \in vat.retired \/ clist[p] \in {"reach", "seen"}
    BY <1>2 DEF E, Inv, ImportsAgree, Vat
  <2> QED BY <1>1, <1>2, <2>1, <2>2, <2>3 DEF LegalInv
<1> QED BY <1>3, <1>4, <1>5, <1>6, <1>7, <1>8, <1>9, <1>10, <1>11 DEF Inv

LEMMA CollectKeeps ==
  ASSUME Inv, NEW o \in Vrefs, Collect(o)
  PROVE  Inv' /\ LegalStep
<1>1. /\ scan' = scan /\ held' = held /\ clist' = clist
      /\ callbacks' = [callbacks EXCEPT ![o] = @ + 1]
      /\ vat.val[o] = "live" /\ o \notin held /\ o \notin vat.exported
      /\ ~(o \in Remotables /\ vat.rc[o] > 0)
      /\ \A e \in vat.entries : e.holder \in WeakMaps => e.val # o
  BY DEF Collect, InRAM, Pinned
<1>2. /\ vat' \in Vat /\ SameStore(vat, vat')
      /\ vat'.val = [vat.val EXCEPT ![o] = "collected"]
      /\ vat'.es = vat.es /\ vat'.dead = vat.dead /\ vat'.exported = vat.exported
      /\ vat'.recognized = vat.recognized /\ vat'.failed = vat.failed
  <2>1. vat \in Vat /\ vat' = WithVal(vat, o, "collected")
    BY DEF Collect, WithVal, Inv, TypeInv
  <2> QED BY <2>1, SetVal, Words
<1>3. TypeInv'
  BY <1>1, <1>2 DEF Inv, TypeInv
<1>4. Counted(vat)' /\ OneEntry(vat)'
  BY <1>1, <1>2 DEF Inv, Counted, OneEntry, SameStore
<1>5. IsAlive'
  BY <1>1, <1>2, Kinds DEF Inv, TypeInv, Vat, Values, Statuses, SameStore, IsAlive, IsInRAM
<1>6. IsInRAM'
  BY <1>1, <1>2, Kinds DEF Inv, TypeInv, Vat, Values, Statuses, SameStore, IsInRAM
<1>7. ImportsAgree'
  BY <1>1, <1>2, Kinds DEF Inv, TypeInv, Vat, Values, Statuses, SameStore, ImportsAgree, Known
<1>8. ExportsAgree'
  BY <1>1, <1>2, Kinds DEF Inv, TypeInv, Vat, Values, Statuses, SameStore, ExportsAgree, NoScan
<1>9. IsListed'
  BY <1>1, <1>2, Kinds DEF Inv, TypeInv, Vat, Values, Statuses, SameStore, IsListed, Known
<1>10. ScanInv'
  BY <1>1, <1>2 DEF Inv, ScanInv
<1>11. LegalStep
  BY <1>1, <1>2 DEF LegalStep, LegalInv, SameStore
<1> QED BY <1>3, <1>4, <1>5, <1>6, <1>7, <1>8, <1>9, <1>10, <1>11 DEF Inv

LEMMA RunFinalizerKeeps ==
  ASSUME Inv, NEW o \in Vrefs, RunFinalizer(o)
  PROVE  Inv' /\ LegalStep
<1>1. /\ scan' = scan /\ held' = held /\ clist' = clist /\ scan.todo = {}
      /\ callbacks[o] > 0 /\ callbacks' = [callbacks EXCEPT ![o] = @ - 1]
  BY DEF RunFinalizer, Inv, ScanInv, Idle, Forced, NoScan
<1>2. /\ vat' \in Vat /\ SameStore(vat, vat')
      /\ vat'.val = IF vat.val[o] = "collected" THEN [vat.val EXCEPT ![o] = "absent"] ELSE vat.val
      /\ vat'.dead = vat.dead \cup (IF vat.val[o] = "collected" THEN {o} ELSE {})
      /\ vat'.es = vat.es /\ vat'.exported = vat.exported
      /\ vat'.recognized = vat.recognized /\ vat'.failed = vat.failed
  <2>1. vat \in Vat
    BY DEF Inv, TypeInv
  <2>2. CASE vat.val[o] = "collected"
    <3> DEFINE w == [vat EXCEPT !.dead = @ \cup {o}]
    <3>1. w \in Vat /\ SameStore(vat, w) /\ w.val = vat.val /\ w.dead = vat.dead \cup {o}
          /\ w.es = vat.es /\ w.exported = vat.exported
          /\ w.recognized = vat.recognized /\ w.failed = vat.failed
      BY <2>1 DEF Vat, SameStore
    <3>2. vat' = WithVal(w, o, "absent")
      BY <2>2 DEF RunFinalizer, Finalized, WithVal
    <3> HIDE DEF w
    <3>3. /\ vat' \in Vat /\ SameStore(w, vat')
          /\ vat'.val = [w.val EXCEPT ![o] = "absent"]
          /\ vat'.es = w.es /\ vat'.dead = w.dead /\ vat'.exported = w.exported
          /\ vat'.recognized = w.recognized /\ vat'.failed = w.failed
      BY <3>1, <3>2, SetVal, Words
    <3> QED BY <2>2, <3>1, <3>3 DEF SameStore
  <2>3. CASE vat.val[o] # "collected"
    <3>1. vat' = vat
      BY <2>3 DEF RunFinalizer, Finalized
    <3> QED BY <2>1, <2>3, <3>1 DEF SameStore
  <2> QED BY <2>2, <2>3
<1>3. TypeInv'
  BY <1>1, <1>2 DEF Inv, TypeInv
<1>4. Counted(vat)' /\ OneEntry(vat)'
  BY <1>1, <1>2 DEF Inv, Counted, OneEntry, SameStore
<1>5. IsAlive'
  BY <1>1, <1>2, Kinds DEF Inv, TypeInv, Vat, Values, Statuses, SameStore, IsAlive, IsInRAM
<1>6. IsInRAM'
  BY <1>1, <1>2, Kinds DEF Inv, TypeInv, Vat, Values, Statuses, SameStore, IsInRAM
<1>7. ImportsAgree'
  BY <1>1, <1>2, Kinds DEF Inv, TypeInv, Vat, Values, Statuses, SameStore, ImportsAgree, Known
<1>8. ExportsAgree'
  BY <1>1, <1>2, Kinds DEF Inv, TypeInv, Vat, Values, Statuses, SameStore, ExportsAgree, NoScan
<1>9. IsListed'
  BY <1>1, <1>2, Kinds DEF Inv, TypeInv, Vat, Values, Statuses, SameStore, IsListed, Known
<1>10. ScanInv'
  BY <1>1, <1>2 DEF Inv, ScanInv
<1>11. LegalStep
  BY <1>1, <1>2 DEF LegalStep, LegalInv, SameStore
<1> QED BY <1>3, <1>4, <1>5, <1>6, <1>7, <1>8, <1>9, <1>10, <1>11 DEF Inv

LEMMA Linked ==
  ASSUME Inv, NEW e \in InStore(vat.entries), e.val \in Vrefs
  PROVE  vat.rc[e.val] > 0
<1>1. IsFiniteSet(InStore(vat.entries)) /\ vat.rc[e.val] = CountIn(InStore(vat.entries), e.val)
  BY StoredIsFinite DEF Inv, Counted
<1>2. CountIn(InStore(vat.entries), e.val) \in Nat /\ CountIn(InStore(vat.entries), e.val) # 0
  BY <1>1, CountIsNat
<1> QED BY <1>1, <1>2

LEMMA GetEntryKeeps ==
  ASSUME Inv, NEW f \in vat.entries, GetEntry(f.holder, f.key)
  PROVE  Inv' /\ LegalStep
<1>1. /\ scan = NoScan /\ callbacks' = callbacks /\ scan' = scan /\ clist' = clist
  BY DEF GetEntry, Inv, ScanInv, Idle
<1> DEFINE h == f.holder
<1>2. PICK e \in At(vat, h, f.key) :
        /\ e.val # NoVref
        /\ held' = held \cup {e.val}
        /\ vat' = IF h \in WeakMaps THEN vat ELSE ToVal(vat, e.val)
  BY DEF GetEntry
<1>3. vat \in Vat /\ e \in vat.entries /\ e.holder = h /\ e \in Contents
  BY DEF At, Inv, TypeInv, Vat
<1>4. e.val \in Vrefs /\ (h \in Stored \/ h \in WeakMaps)
  BY <1>2, <1>3, Entries
<1>5. CASE h \in WeakMaps
  <2>1. vat' = vat /\ vat.val[e.val] \in {"live", "unnamed"}
    BY <1>2, <1>3, <1>4, <1>5 DEF Inv, IsInRAM
  <2>2. TypeInv'
    BY <1>1, <1>2, <1>4, <2>1 DEF Inv, TypeInv
  <2>3. IsInRAM'
    BY <1>1, <1>2, <2>1 DEF Inv, IsInRAM
  <2>4. Counted(vat)' /\ OneEntry(vat)' /\ IsAlive' /\ ImportsAgree' /\ ExportsAgree'
        /\ IsListed' /\ ScanInv'
    BY <1>1, <2>1
    DEF Inv, Counted, OneEntry, IsAlive, ImportsAgree, ExportsAgree, IsListed, ScanInv, Known
  <2>5. LegalStep
    BY <1>1, <2>1 DEF LegalStep, LegalInv
  <2> QED BY <2>2, <2>3, <2>4, <2>5 DEF Inv
<1>6. CASE h \notin WeakMaps
  <2> DEFINE o == e.val
  <2>1. vat.rc[o] > 0
    BY <1>3, <1>4, <1>6, Linked DEF InStore
  <2>2. /\ vat' \in Vat /\ SameStore(vat, vat')
        /\ vat'.val = [vat.val EXCEPT ![o] = "live"]
        /\ vat'.es = vat.es /\ vat'.dead = vat.dead /\ vat'.exported = vat.exported
        /\ vat'.recognized = vat.recognized /\ vat'.failed = vat.failed
    <3>1. o \in Remotables => vat.val[o] = "live"
      BY <2>1 DEF Inv, IsInRAM
    <3> QED BY <1>2, <1>3, <1>4, <1>6, <3>1, Val
  <2>3. held' = held \cup {o} /\ o \in Vrefs
    BY <1>2, <1>4
  <2> HIDE DEF o
  <2>4. TypeInv'
    BY <1>1, <2>1, <2>2, <2>3 DEF Inv, TypeInv
  <2>5. Counted(vat)' /\ OneEntry(vat)'
    BY <1>1, <2>1, <2>2, <2>3 DEF Inv, Counted, OneEntry, SameStore
  <2>6. IsAlive'
    BY <1>1, <2>1, <2>2, <2>3, Kinds DEF Inv, TypeInv, Vat, Values, Statuses, SameStore, IsAlive, IsInRAM
  <2>7. IsInRAM'
    BY <1>1, <2>1, <2>2, <2>3, Kinds DEF Inv, TypeInv, Vat, Values, Statuses, SameStore, IsInRAM
  <2>8. ImportsAgree'
    BY <1>1, <2>1, <2>2, <2>3, Kinds DEF Inv, TypeInv, Vat, Values, Statuses, SameStore, ImportsAgree, Known
  <2>9. ExportsAgree'
    BY <1>1, <2>1, <2>2, <2>3, Kinds DEF Inv, TypeInv, Vat, Values, Statuses, SameStore, ExportsAgree, NoScan
  <2>10. IsListed'
    BY <1>1, <2>1, <2>2, <2>3, Kinds DEF Inv, TypeInv, Vat, Values, Statuses, SameStore, IsListed, Known
  <2>11. ScanInv'
    BY <1>1, <2>1, <2>2, <2>3 DEF Inv, ScanInv
  <2>12. LegalStep
    BY <1>1, <2>2 DEF LegalStep, LegalInv, SameStore
  <2> QED BY <2>4, <2>5, <2>6, <2>7, <2>8, <2>9, <2>10, <2>11, <2>12 DEF Inv
<1> QED BY <1>5, <1>6

LEMMA SetStoredKeeps ==
  ASSUME Inv, NEW f \in Contents, SetStored(f.holder, f.key, f.val)
  PROVE  Inv' /\ LegalStep
<1> DEFINE h == f.holder
           k == f.key
           x == f.val
           n == [holder |-> h, key |-> k, val |-> x]
           one == ToSlot(vat, k)
           vt == ToSlot(one, x)
<1>1. /\ scan = NoScan /\ callbacks' = callbacks /\ scan' = scan /\ clist' = clist
      /\ held' = held /\ h \in Stored /\ n \in Contents
      /\ {h, k, x} \subseteq held \cup {NoVref}
      /\ k \in Vrefs \cup {NoVref} /\ x \in Vrefs \cup {NoVref}
      /\ k # NoVref => k \in held
      /\ x # NoVref => x \in held
      /\ h \in held
  BY Entries, Kinds DEF SetStored, Inv, ScanInv, Idle
<1>2. vat' = Written(vt, h, k, x)
  BY DEF SetStored
<1>3. /\ one \in Vat /\ SameStore(vat, one)
      /\ one.val = IF k \in Remotables THEN [vat.val EXCEPT ![k] = "live"] ELSE vat.val
      /\ one.es = vat.es /\ one.dead = vat.dead /\ one.exported = vat.exported
      /\ one.recognized = vat.recognized /\ one.failed = vat.failed
  <2>1. vat \in Vat /\ one = ToSlot(vat, k) /\ k \in Vrefs \cup {NoVref}
    BY <1>1 DEF Inv, TypeInv
  <2> HIDE DEF one, k
  <2> QED BY <2>1, Slot
<1> HIDE DEF one
<1>4. /\ vt \in Vat /\ SameStore(one, vt)
      /\ vt.val = IF x \in Remotables THEN [one.val EXCEPT ![x] = "live"] ELSE one.val
      /\ vt.es = one.es /\ vt.dead = one.dead /\ vt.exported = one.exported
      /\ vt.recognized = one.recognized /\ vt.failed = one.failed
  <2>1. one \in Vat /\ vt = ToSlot(one, x) /\ x \in Vrefs \cup {NoVref}
    BY <1>1, <1>3
  <2> HIDE DEF vt, x
  <2> QED BY <2>1, Slot
<1> HIDE DEF vt
<1>5. /\ vt \in Vat /\ SameStore(vat, vt)
      /\ \A o \in Vrefs : vt.val[o] =
           IF o \in Remotables /\ o \in {k, x} THEN "live" ELSE vat.val[o]
      /\ vt.es = vat.es /\ vt.dead = vat.dead /\ vt.exported = vat.exported
      /\ vt.recognized = vat.recognized /\ vt.failed = vat.failed
  BY <1>1, <1>3, <1>4, Kinds DEF SameStore, Inv, TypeInv, Vat
<1>6. x \in Remotables => vt.val[x] = "live"
  BY <1>5, Kinds
<1>7. NoneIsLost(vt)
  BY <1>5, Kinds DEF NoneIsLost, Inv, IsInRAM, SameStore
<1>8. Counted(vt) /\ OneEntry(vt)
  BY <1>5 DEF SameStore, Inv, Counted, OneEntry
<1> HIDE DEF h, k, x
<1>9. Wrote(vt, vat', h, k, x)
  BY <1>1, <1>2, <1>5, <1>6, <1>7, <1>8, WrittenFields
<1>10. /\ vat' \in Vat /\ Counted(vat')
       /\ vat'.entries = (vat.entries \ At(vat, h, k)) \cup {n}
       /\ \A o \in Vrefs : vat'.rc[o] > 0 => vat.rc[o] > 0 \/ o = x
       /\ \A o \in Vrefs :
            o \in vat'.dead <=>
              o \in vat.dead \/ (o \notin Remotables /\ vat.rc[o] > 0 /\ vat'.rc[o] = 0)
       /\ \A o \in Vrefs : vat'.val[o] =
            IF o \in Remotables /\ o \in {k, x} THEN "live" ELSE vat.val[o]
       /\ vat'.es = vat.es /\ vat'.alive = vat.alive /\ vat'.retired = vat.retired
       /\ vat'.exported = vat.exported /\ vat'.recognized = vat.recognized
       /\ vat'.failed = vat.failed
  BY <1>5, <1>9 DEF Wrote, Listed, SameStore, At
<1>11. n.holder = h /\ n.key = k /\ n.val = x
  OBVIOUS
<1> HIDE DEF n
<1>12. /\ \A e \in vat'.entries : e = n \/ (e \in vat.entries /\ ~(e.holder = h /\ e.key = k))
       /\ \A o : o # k /\ Known(vat', o) => Known(vat, o)
       /\ \A o : Known(vat, o) => Known(vat', o)
  BY <1>10, <1>11 DEF At, Known
<1> DEFINE R(q) == vat.val[q] \in {"live", "unnamed"}
<1>13. /\ k # NoVref => R(k)
       /\ x # NoVref => R(x)
       /\ R(h)
  BY <1>1, Kinds DEF Inv, IsInRAM
<1>14. TypeInv'
  BY <1>1, <1>10 DEF Inv, TypeInv
<1>15. Counted(vat)' /\ OneEntry(vat)'
  BY <1>10, <1>11, <1>12 DEF Inv, OneEntry, Counted
<1>16. vat.rc \in [Vrefs -> Nat] /\ vat'.rc \in [Vrefs -> Nat] /\ vat.dead \subseteq Vrefs /\ vat'.dead \subseteq Vrefs
  BY <1>10 DEF Inv, TypeInv, Vat
<1>17. IsAlive'
  <2>1. \A o \in Stored : R(o) => o \in vat.alive
    BY Kinds DEF Inv, IsAlive, IsInRAM
  <2>2. h \in vat.alive
    BY <1>1, <1>13, <2>1
  <2>3. k \in Stored => k \in vat.alive
    BY <1>13, <2>1, Kinds
  <2>4. \A e \in vat'.entries : Stored \cap {e.holder, e.key} \subseteq vat'.alive
    BY <1>10, <1>11, <1>12, <2>2, <2>3 DEF Inv, IsAlive
  <2>5. ASSUME NEW o \in Stored \ vat'.alive
        PROVE  /\ vat'.val[o] = "absent" /\ vat'.rc[o] = 0 /\ vat'.es[o] = "n"
               /\ o \notin vat'.dead \cup scan'.todo
    <3>1. /\ o \in Vrefs /\ o \notin Remotables
          /\ vat.val[o] = "absent" /\ vat.rc[o] = 0 /\ vat.es[o] = "n"
          /\ o \notin vat.dead \cup scan.todo
      BY <1>10, Kinds DEF Inv, IsAlive
    <3>2. o # x
      BY <1>13, <3>1, Kinds
    <3> QED BY <1>1, <1>10, <1>16, <3>1, <3>2
  <2> QED BY <2>4, <2>5 DEF IsAlive
<1>18. IsInRAM'
  <2>1. \A o \in Vrefs : vat'.val[o] = vat.val[o] \/ (o \in Remotables /\ vat'.val[o] = "live")
    BY <1>10
  <2>2. \A e \in vat'.entries : e.holder \in WeakMaps => e \in vat.entries
    BY <1>1, <1>11, <1>12, Kinds DEF Exports, Vrefs
  <2>3. \A o \in Remotables : o \in vat'.exported \/ vat'.rc[o] > 0 => vat'.val[o] = "live"
    BY <1>10, <2>1, Kinds DEF Inv, IsInRAM
  <2> QED BY <1>1, <1>10, <2>1, <2>2, <2>3 DEF Inv, IsInRAM
<1>19. ImportsAgree'
  <2>1. \A o \in Presences : R(o) => clist[o] = "reach"
    BY Kinds DEF Inv, ImportsAgree, IsInRAM
  <2>2. k \in Presences => clist[k] = "reach"
    BY <1>13, <2>1, Kinds
  <2>3. \A e \in vat'.entries : e.key \in Presences => clist[e.key] \in {"reach", "seen"}
    BY <1>11, <1>12, <2>2 DEF Inv, ImportsAgree
  <2>4. ASSUME NEW o \in Presences
        PROVE  /\ clist[o] # "reach" =>
                    vat'.val[o] = "absent" /\ vat'.rc[o] = 0 /\ o \notin vat'.dead
               /\ clist[o] = "reach" /\ vat'.val[o] = "absent" /\ vat'.rc[o] = 0 =>
                    o \in vat'.dead
               /\ clist[o] = "seen" /\ ~Known(vat', o) => o \in vat'.retired
    <3>1. o \in Vrefs /\ o \notin Remotables
      BY Kinds
    <3>2. /\ clist[o] # "reach" =>
                    vat.val[o] = "absent" /\ vat.rc[o] = 0 /\ o \notin vat.dead
          /\ clist[o] = "reach" /\ vat.val[o] = "absent" /\ vat.rc[o] = 0 => o \in vat.dead
          /\ clist[o] = "seen" /\ ~Known(vat, o) => o \in vat.retired
      BY <1>1 DEF Inv, ImportsAgree, NoScan
    <3>3. clist[o] # "reach" => o # x
      BY <1>13, <2>1, Kinds
    <3> QED BY <1>10, <1>12, <1>16, <3>1, <3>2, <3>3
  <2> QED BY <1>1, <2>3, <2>4 DEF ImportsAgree, NoScan
<1>20. ExportsAgree'
  BY <1>1, <1>10, Kinds DEF Inv, ExportsAgree, NoScan
<1>21. IsListed'
  <2>1. ASSUME NEW o \in vat'.alive, vat'.val[o] = "absent", vat'.rc[o] = 0, clist'[o] # "reach"
        PROVE  o \in vat'.dead
    <3>1. o \in Stored /\ o \in Vrefs /\ o \notin Remotables
      BY <1>10, Kinds DEF Vat
    <3> QED BY <1>1, <1>10, <1>16, <2>1, <3>1 DEF Inv, IsListed
  <2>2. ASSUME NEW o \in Remotables \ vat'.dead, vat'.val[o] = "absent"
        PROVE  ~Known(vat', o) /\ (clist'[o] = "seen" => o \in scan'.retireExports)
    <3>1. o \in Vrefs /\ o # k /\ vat.val[o] = "absent" /\ o \notin vat.dead
      BY <1>10, <2>2, Kinds
    <3> QED BY <1>1, <1>12, <3>1 DEF Inv, IsListed
  <2> QED BY <2>1, <2>2 DEF IsListed
<1>22. ScanInv'
  BY <1>1 DEF Inv, ScanInv
<1>23. LegalStep
  BY <1>1, <1>10 DEF LegalStep, LegalInv
<1> QED BY <1>14, <1>15, <1>17, <1>18, <1>19, <1>20, <1>21, <1>22, <1>23 DEF Inv

LEMMA SetWeakMapKeeps ==
  ASSUME Inv, NEW f \in Contents, SetWeakMap(f.holder, f.key, f.val)
  PROVE  Inv' /\ LegalStep
<1> DEFINE m == f.holder
           k == f.key
           x == f.val
           n == [holder |-> m, key |-> k, val |-> x]
<1>1. /\ scan = NoScan /\ callbacks' = callbacks /\ scan' = scan /\ clist' = clist
      /\ held' = held /\ m \in WeakMaps /\ n \in Contents
      /\ k \in Vrefs \cup {NoVref} /\ x \in Vrefs \cup {NoVref} /\ k \notin Remotables
      /\ k # NoVref => k \in held
      /\ x # NoVref => x \in held
  BY Entries, Kinds DEF SetWeakMap, Inv, ScanInv, Idle
<1> DEFINE rest == (vat.entries \ At(vat, m, k)) \cup {n}
<1>2. /\ vat' \in Vat /\ vat'.entries = rest
      /\ vat'.rc = vat.rc /\ vat'.dead = vat.dead /\ vat'.val = vat.val
      /\ vat'.es = vat.es /\ vat'.alive = vat.alive /\ vat'.retired = vat.retired
      /\ vat'.exported = vat.exported /\ vat'.recognized = vat.recognized
      /\ vat'.failed = vat.failed
  <2>1. rest \in SUBSET Contents
    BY <1>1 DEF Inv, TypeInv, Vat
  <2>2. vat' = [vat EXCEPT !.entries = rest]
    BY DEF SetWeakMap
  <2> HIDE DEF rest
  <2> QED BY <2>1, <2>2 DEF Inv, TypeInv, Vat
<1>3. n.holder = m /\ n.key = k /\ n.val = x
  OBVIOUS
<1> HIDE DEF n
<1>4. /\ \A e \in vat'.entries : e = n \/ (e \in vat.entries /\ ~(e.holder = m /\ e.key = k))
      /\ \A o : o # k /\ Known(vat', o) => Known(vat, o)
      /\ \A o : Known(vat, o) => Known(vat', o)
  BY <1>2, <1>3 DEF At, Known
<1> DEFINE R(q) == vat.val[q] \in {"live", "unnamed"}
<1>5. /\ k # NoVref => R(k)
      /\ x # NoVref => R(x)
  BY <1>1, Kinds DEF Inv, IsInRAM
<1>6. TypeInv'
  BY <1>1, <1>2 DEF Inv, TypeInv
<1>7. Counted(vat)' /\ OneEntry(vat)'
  <2>1. InStore(vat'.entries) = InStore(vat.entries)
    BY <1>1, <1>2, <1>3, Kinds DEF InStore, At
  <2> DEFINE kept == vat.entries \ At(vat, m, k)
  <2>5. IsFiniteSet(vat.entries) /\ kept \subseteq vat.entries
    BY DEF Inv, Counted
  <2>2. IsFiniteSet(vat'.entries)
    <3>1. vat'.entries = kept \cup {n}
      BY <1>2
    <3> HIDE DEF kept
    <3> QED BY <2>5, <3>1, FS_Subset, FS_AddElement
  <2> HIDE DEF kept
  <2>3. OneEntry(vat)'
    <3>1. ASSUME NEW e \in vat'.entries, NEW g \in vat'.entries,
                 e.holder = g.holder, e.key = g.key
          PROVE  e = g
      <4>1. /\ e = n \/ (e \in vat.entries /\ ~(e.holder = m /\ e.key = k))
            /\ g = n \/ (g \in vat.entries /\ ~(g.holder = m /\ g.key = k))
        BY <1>4
      <4> HIDE DEF m, k
      <4> QED BY <1>3, <3>1, <4>1 DEF Inv, OneEntry
    <3> QED BY ONLY <3>1 DEF OneEntry
  <2>4. Counted(vat)'
    BY <1>2, <2>1, <2>2 DEF Inv, Counted
  <2> QED BY <2>3, <2>4
<1>8. IsAlive'
  BY <1>1, <1>2, <1>3, <1>4, <1>5, Kinds DEF Inv, IsAlive, IsInRAM
<1>9. IsInRAM'
  BY <1>1, <1>2, <1>3, <1>4, <1>5, Kinds DEF Inv, IsInRAM
<1>10. ImportsAgree'
  BY <1>1, <1>2, <1>3, <1>4, <1>5, Kinds DEF Inv, ImportsAgree, IsInRAM, NoScan
<1>11. ExportsAgree'
  BY <1>1, <1>2 DEF Inv, ExportsAgree
<1>12. IsListed'
  BY <1>1, <1>2, <1>4, Kinds DEF Inv, IsListed
<1>13. ScanInv'
  BY <1>1 DEF Inv, ScanInv
<1>14. LegalStep
  BY <1>1, <1>2 DEF LegalStep, LegalInv
<1> QED BY <1>6, <1>7, <1>8, <1>9, <1>10, <1>11, <1>12, <1>13, <1>14 DEF Inv

LEMMA BringOutYourDeadKeeps ==
  ASSUME Inv, BringOutYourDead
  PROVE  Inv' /\ LegalStep
<1>1. /\ vat' = vat /\ held' = held /\ callbacks' = callbacks /\ clist' = clist
      /\ scan'.phase = "gc" /\ scan'.todo = {} /\ scan'.drop = {} /\ scan'.retireExports = {}
      /\ scan.todo = {} /\ scan.drop = {} /\ scan.retireExports = {}
  BY DEF BringOutYourDead, Idle, Inv, TypeInv, ScanInv, NoScan
<1>2. TypeInv'
  BY <1>1 DEF BringOutYourDead, Inv, TypeInv
<1>3. Counted(vat)' /\ OneEntry(vat)' /\ IsAlive' /\ IsInRAM' /\ ImportsAgree'
      /\ ExportsAgree' /\ IsListed' /\ ScanInv'
  BY <1>1
  DEF Inv, Counted, OneEntry, IsAlive, IsInRAM, ImportsAgree, ExportsAgree, IsListed, ScanInv, Known
<1>4. LegalStep
  BY <1>1 DEF LegalStep, LegalInv
<1> QED BY <1>2, <1>3, <1>4 DEF Inv

LEMMA BeginPassKeeps ==
  ASSUME Inv, BeginPass
  PROVE  Inv' /\ LegalStep
<1>1. /\ held' = held /\ callbacks' = callbacks /\ clist' = clist
      /\ scan'.phase = "examine" /\ scan'.todo = vat.dead
      /\ scan'.drop = scan.drop /\ scan'.retireExports = scan.retireExports
  BY DEF BeginPass, Inv, TypeInv
<1>2. /\ vat' \in Vat /\ SameStore(vat, vat') /\ vat'.val = vat.val
      /\ vat'.es = vat.es /\ vat'.dead = vat.dead /\ vat'.exported = vat.exported
      /\ vat'.recognized = vat.recognized /\ vat'.failed = vat.failed
  BY DEF BeginPass, Inv, TypeInv, Vat, SameStore
<1>3. TypeInv'
  BY <1>1, <1>2 DEF BeginPass, Inv, TypeInv, Vat
<1>4. Counted(vat)' /\ OneEntry(vat)' /\ IsAlive' /\ IsInRAM' /\ ImportsAgree'
      /\ ExportsAgree' /\ IsListed' /\ ScanInv'
  BY <1>1, <1>2
  DEF Inv, Counted, OneEntry, IsAlive, IsInRAM, ImportsAgree, ExportsAgree, IsListed, ScanInv,
      Known, SameStore
<1>5. LegalStep
  BY <1>1, <1>2 DEF LegalStep, LegalInv, SameStore, BeginPass, Forced
<1> QED BY <1>3, <1>4, <1>5 DEF Inv

LEMMA AnotherPassKeeps ==
  ASSUME Inv, AnotherPass
  PROVE  Inv' /\ LegalStep
<1>1. /\ vat' = vat /\ held' = held /\ callbacks' = callbacks /\ clist' = clist
      /\ scan'.phase = "gc" /\ scan'.todo = {} /\ scan.todo = {}
      /\ scan'.drop = scan.drop /\ scan'.retireExports = scan.retireExports
  BY DEF AnotherPass, Inv, TypeInv
<1>2. TypeInv'
  BY <1>1 DEF AnotherPass, Inv, TypeInv
<1>3. Counted(vat)' /\ OneEntry(vat)' /\ IsAlive' /\ IsInRAM' /\ ImportsAgree'
      /\ ExportsAgree' /\ IsListed' /\ ScanInv'
  BY <1>1
  DEF Inv, Counted, OneEntry, IsAlive, IsInRAM, ImportsAgree, ExportsAgree, IsListed, ScanInv, Known
<1>4. LegalStep
  BY <1>1 DEF LegalStep, LegalInv, AnotherPass
<1> QED BY <1>2, <1>3, <1>4 DEF Inv

LEMMA FinishScanKeeps ==
  ASSUME Inv, FinishScan
  PROVE  Inv' /\ LegalStep
<1> DEFINE retires == ImportsToRetire
           legal == Legal(scan.drop, retires, scan.retireExports)
<1>1. /\ held' = held /\ callbacks' = callbacks /\ scan' = NoScan
      /\ scan.todo = {} /\ vat.dead = {}
      /\ clist' = [o \in Vrefs |->
                     IF o \in retires THEN "gone"
                     ELSE IF o \in scan.drop THEN "seen"
                     ELSE IF o \in scan.retireExports THEN "none" ELSE clist[o]]
  BY DEF FinishScan
<1>2. /\ vat' \in Vat /\ vat'.entries = vat.entries /\ vat'.rc = vat.rc
      /\ vat'.alive = vat.alive /\ vat'.val = vat.val /\ vat'.retired = {}
      /\ vat'.es = vat.es /\ vat'.dead = vat.dead /\ vat'.exported = vat.exported
      /\ vat'.recognized = vat.recognized
  <2>1. vat' = [Fail(vat, legal) EXCEPT !.retired = {}]
    BY DEF FinishScan
  <2> DEFINE failed == vat.failed \/ ~legal
  <2>2. vat \in Vat /\ failed \in BOOLEAN
    BY DEF Inv, TypeInv, Vat
  <2>3. vat' = [vat EXCEPT !.failed = failed, !.retired = {}]
    BY <2>1, <2>2 DEF Vat, Fail
  <2> HIDE DEF failed
  <2> QED BY <2>2, <2>3 DEF Vat
<1>3. \A o : o \in retires <=>
        /\ o \in vat.retired
        /\ o \in scan.drop \/ ~(HasVal(vat, o) \/ IsPresenceReachable(vat, o))
        /\ ~Known(vat, o)
  BY RecognizableIsKnown DEF ImportsToRetire
<1> HIDE DEF retires, legal
<1>4. vat.retired \subseteq Presences /\ scan.drop \subseteq Presences
      /\ scan.retireExports \subseteq Exports /\ vat.alive \subseteq Stored
      /\ vat.rc \in [Vrefs -> Nat]
      /\ \A o \in Vrefs : vat.val[o] \in {"unnamed", "absent", "live", "collected"}
  BY Words DEF Inv, TypeInv, Vat
<1>5. \A o \in Presences : o \in retires => vat.val[o] = "absent" /\ vat.rc[o] = 0
  <2> SUFFICES ASSUME NEW o \in Presences, o \in retires
               PROVE  vat.val[o] = "absent" /\ vat.rc[o] = 0
    OBVIOUS
  <2>1. CASE o \in scan.drop
    BY <2>1 DEF Inv, ImportsAgree
  <2>2. CASE o \notin scan.drop
    <3>1. vat.val[o] \notin {"live", "collected"} /\ ~(vat.rc[o] > 0)
      BY <1>3, <2>2 DEF HasVal, IsPresenceReachable
    <3>2. vat.val[o] # "unnamed"
      BY Kinds DEF Inv, IsInRAM
    <3> QED BY <1>4, <3>1, <3>2, Kinds
  <2> QED BY <2>1, <2>2
<1>6. TypeInv'
  BY <1>1, <1>2 DEF Inv, TypeInv, NoScan
<1>7. Counted(vat)' /\ OneEntry(vat)'
  BY <1>2 DEF Inv, Counted, OneEntry
<1>8. IsAlive'
  BY <1>1, <1>2 DEF Inv, IsAlive, NoScan
<1>9. IsInRAM'
  BY <1>1, <1>2 DEF Inv, IsInRAM
<1>10. \A o \in Exports : o \notin retires /\ o \notin scan.drop
  BY <1>3, <1>4, Kinds
<1>11. \A o \in Presences : o \notin scan.retireExports
  BY <1>4, Kinds
<1>12. ImportsAgree'
  <2>1. ASSUME NEW o \in Presences
        PROVE  /\ clist'[o] # "reach" =>
                    vat'.val[o] = "absent" /\ vat'.rc[o] = 0 /\ o \notin vat'.dead
               /\ clist'[o] = "reach" /\ vat'.val[o] = "absent" /\ vat'.rc[o] = 0 => FALSE
               /\ clist'[o] = "seen" => Known(vat', o)
    <3>1. clist'[o] = IF o \in retires THEN "gone" ELSE IF o \in scan.drop THEN "seen" ELSE clist[o]
      BY <1>1, <1>11, Kinds
    <3>2. /\ clist[o] # "reach" => vat.val[o] = "absent" /\ vat.rc[o] = 0
          /\ clist[o] = "reach" /\ vat.val[o] = "absent" /\ vat.rc[o] = 0 => o \in scan.drop
          /\ clist[o] = "seen" /\ ~Known(vat, o) => o \in vat.retired
          /\ o \in scan.drop =>
               vat.val[o] = "absent" /\ vat.rc[o] = 0 /\ o \in vat.retired
      BY <1>1 DEF Inv, ImportsAgree
    <3>3. Known(vat', o) <=> Known(vat, o)
      BY <1>2 DEF Known
    <3>4. clist'[o] = "seen" => Known(vat, o)
      BY <1>3, <3>1, <3>2 DEF HasVal, IsPresenceReachable
    <3> QED BY <1>1, <1>2, <1>5, <3>1, <3>2, <3>3, <3>4
  <2>2. ASSUME NEW e \in vat'.entries, e.key \in Presences
        PROVE  clist'[e.key] \in {"reach", "seen"}
    <3>1. e \in vat.entries /\ clist[e.key] \in {"reach", "seen"}
      BY <1>2, <2>2 DEF Inv, ImportsAgree
    <3>2. e.key \notin retires
      BY <1>3, <3>1 DEF Known
    <3> QED BY <1>1, <1>11, <2>2, <3>1, <3>2, Kinds
  <2> QED BY <1>1, <2>1, <2>2 DEF ImportsAgree, NoScan
<1>13. \A o \in Exports : clist'[o] = IF o \in scan.retireExports THEN "none" ELSE clist[o]
  BY <1>1, <1>10, Kinds
<1>14. ExportsAgree'
  BY <1>1, <1>2, <1>13, Kinds DEF Inv, ExportsAgree, NoScan
<1>15. IsListed'
  BY <1>1, <1>2, <1>4, <1>13, Kinds DEF Inv, IsListed, ExportsAgree, NoScan, Known
<1>16. ScanInv'
  BY <1>1 DEF ScanInv, NoScan
<1>17. LegalStep
  <2> SUFFICES ASSUME LegalInv PROVE LegalInv'
    BY DEF LegalStep
  <2>1. \A o \in scan.drop : clist[o] = "reach"
    BY DEF Inv, ImportsAgree
  <2>2. ASSUME NEW o \in retires
        PROVE  clist[o] \in {"reach", "seen"} /\ (clist[o] = "seen" \/ o \in scan.drop)
    <3>1. o \in Presences /\ clist[o] \in {"reach", "seen"}
      BY <1>3, <1>4, <2>2 DEF LegalInv
    <3> QED BY <1>1, <1>5, <2>2, <3>1 DEF Inv, ImportsAgree
  <2>3. \A o \in scan.retireExports : clist[o] = "seen"
    BY DEF Inv, ExportsAgree
  <2>4. legal
    BY <2>1, <2>2, <2>3 DEF legal, Legal
  <2>5. vat'.failed = vat.failed
    BY <2>4 DEF FinishScan, Fail, Inv, TypeInv, Vat, retires, legal
  <2> QED BY <1>1, <1>2, <2>5 DEF LegalInv, NoScan
<1> QED BY <1>6, <1>7, <1>8, <1>9, <1>12, <1>14, <1>15, <1>16, <1>17 DEF Inv

LEMMA ExamineKeeps ==
  ASSUME Inv, NEW o \in Vrefs, Examine(o)
  PROVE  Inv' /\ LegalStep
<1> DEFINE looked == [vat EXCEPT !.dead = @ \ {o}]
<1>1. /\ held' = held /\ callbacks' = callbacks /\ clist' = clist
      /\ scan.phase = "examine" /\ o \in scan.todo
  BY DEF Examine
<1>2. /\ looked \in Vat /\ SameStore(vat, looked) /\ looked.dead = vat.dead \ {o}
      /\ looked.val = vat.val /\ looked.es = vat.es /\ looked.exported = vat.exported
      /\ looked.recognized = vat.recognized /\ looked.failed = vat.failed
  BY DEF Inv, TypeInv, Vat, SameStore
<1>3. Counted(looked)
  BY <1>2 DEF Inv, Counted, SameStore
<1>4. \/ CheckExportRepresentative(looked, o)
      \/ CheckExportRemotable(looked, o)
      \/ CheckImportPresence(looked, o)
  BY DEF Examine
<1> HIDE DEF looked
<1>5. /\ vat.rc \in [Vrefs -> Nat] /\ vat.rc[o] \in Nat
      /\ vat.val[o] \in {"unnamed", "absent", "live", "collected"}
      /\ vat.val[o] = "unnamed" => o \in Remotables
  BY Words DEF Inv, TypeInv, Vat, IsInRAM
<1>6. NoneIsLost(looked)
  BY <1>2, Kinds DEF NoneIsLost, Inv, IsInRAM, SameStore
<1>7. ASSUME vat' = looked, scan' = [scan EXCEPT !.todo = @ \ {o}],
             o \in Stored => ~(vat.val[o] = "absent" /\ vat.rc[o] = 0 /\ vat.es[o] # "r"),
             o \in Remotables => vat.val[o] # "absent",
             o \in Presences => ~(vat.val[o] = "absent" /\ vat.rc[o] = 0)
      PROVE  Inv' /\ LegalStep
  <2>1. /\ scan'.phase = "examine" /\ scan'.todo = scan.todo \ {o} /\ scan'.drop = scan.drop
        /\ scan'.retireExports = scan.retireExports
    BY <1>1, <1>7 DEF Inv, TypeInv
  <2>2. TypeInv'
    BY <1>1, <1>2, <1>7 DEF Inv, TypeInv
  <2>3. Counted(vat)' /\ OneEntry(vat)'
    BY <1>2, <1>3, <1>7 DEF Inv, OneEntry, SameStore
  <2>4. IsAlive' /\ IsInRAM' /\ ExportsAgree' /\ ScanInv'
    BY <1>1, <1>2, <1>7, <2>1 DEF Inv, IsAlive, IsInRAM, ExportsAgree, ScanInv, SameStore
  <2>5. ImportsAgree'
    BY <1>1, <1>2, <1>7, <2>1 DEF Inv, ImportsAgree, Known, SameStore
  <2>6. IsListed'
    BY <1>1, <1>2, <1>7, <2>1, Kinds
    DEF Inv, TypeInv, Vat, IsListed, ExportsAgree, Known, SameStore
  <2>7. LegalStep
    BY <1>1, <1>2, <1>7, <2>1 DEF LegalStep, LegalInv, SameStore
  <2> QED BY <2>2, <2>3, <2>4, <2>5, <2>6, <2>7 DEF Inv
<1>8. CASE CheckExportRepresentative(looked, o)
  <2>1. o \in Stored /\ o \notin Remotables /\ o \notin Presences
    BY <1>8, Kinds DEF CheckExportRepresentative
  <2>2. CASE HasVal(looked, o) \/ IsVirtualObjectReachable(looked, o)
    <3>1. vat' = looked /\ scan' = [scan EXCEPT !.todo = @ \ {o}]
      BY <1>8, <2>2 DEF CheckExportRepresentative
    <3>2. ~(vat.val[o] = "absent" /\ vat.rc[o] = 0 /\ vat.es[o] # "r")
      BY <1>2, <1>5, <2>2 DEF HasVal, IsVirtualObjectReachable, SameStore
    <3> QED BY <1>7, <2>1, <3>1, <3>2
  <2>3. CASE ~(HasVal(looked, o) \/ IsVirtualObjectReachable(looked, o))
    <3>1. /\ vat' = DeleteVirtualObject(looked, o)
          /\ scan' = [scan EXCEPT !.todo = @ \ {o},
                        !.retireExports = @ \cup {q \in {o} : looked.es[q] = "s"}]
      BY <1>8, <2>3 DEF CheckExportRepresentative
    <3>2. vat.val[o] = "absent" /\ vat.rc[o] = 0 /\ vat.es[o] # "r"
      BY <1>2, <1>5, <2>1, <2>3 DEF HasVal, IsVirtualObjectReachable, SameStore
    <3>3. Deleted(looked, vat', o)
      BY <1>2, <1>3, <2>1, <3>1, <3>2, DeletedFields DEF SameStore
    <3>4. /\ scan'.phase = "examine" /\ scan'.todo = scan.todo \ {o} /\ scan'.drop = scan.drop
          /\ \A q : q \in scan'.retireExports <=>
                      q \in scan.retireExports \/ (q = o /\ vat.es[o] = "s")
          /\ scan' \in [phase : {"idle", "gc", "examine"}, todo : SUBSET Vrefs,
                         drop : SUBSET Presences, retireExports : SUBSET Exports]
      <4> DEFINE re == scan.retireExports \cup {q \in {o} : looked.es[q] = "s"}
      <4>1. re \in SUBSET Exports
        BY <2>1, Kinds DEF Inv, TypeInv
      <4>2. \A q : q \in re <=> q \in scan.retireExports \/ (q = o /\ vat.es[o] = "s")
        BY <1>2
      <4>3. scan' = [scan EXCEPT !.todo = @ \ {o}, !.retireExports = re]
        BY <3>1
      <4> HIDE DEF re
      <4> QED BY <1>1, <4>1, <4>2, <4>3 DEF Inv, TypeInv
    <3>5. o \in vat.alive
      BY <1>1, <2>1 DEF Inv, IsAlive
    <3>6. /\ vat' \in Vat /\ Counted(vat')
          /\ vat'.entries = {e \in vat.entries : e.holder # o /\ e.key # o}
          /\ \A q \in Vrefs : vat'.rc[q] <= vat.rc[q]
          /\ \A q \in Vrefs : q \in vat'.dead <=>
               (q \in vat.dead /\ q # o) \/ (q \notin Remotables /\ vat.rc[q] > 0 /\ vat'.rc[q] = 0)
          /\ vat'.es = [vat.es EXCEPT ![o] = "n"] /\ vat'.alive = vat.alive \ {o}
          /\ vat'.val = vat.val /\ vat'.exported = vat.exported
          /\ vat'.recognized = vat.recognized /\ vat.retired \subseteq vat'.retired
          /\ \A p \in vat'.retired : p \in vat.retired \/ Known(vat, p)
          /\ \A p \in Presences : Known(vat, p) /\ ~Known(vat', p) => p \in vat'.retired
          /\ vat'.failed = vat.failed
      BY <1>2, <1>6, <2>3, <3>3, <3>5 DEF Deleted, Listed, SameStore, Known
    <3>7. \A q \in Vrefs : vat.rc[q] \in Nat /\ vat'.rc[q] \in Nat
      BY <3>6 DEF Inv, TypeInv, Vat
    <3>8. TypeInv'
      BY <1>1, <3>4, <3>6 DEF Inv, TypeInv
    <3>9. Counted(vat)' /\ OneEntry(vat)'
      BY <3>6 DEF Inv, OneEntry
    <3>10. IsAlive'
      <4>1. ASSUME NEW q \in Stored \ vat'.alive
            PROVE  /\ vat'.val[q] = "absent" /\ vat'.rc[q] = 0 /\ vat'.es[q] = "n"
                   /\ q \notin vat'.dead \cup scan'.todo
        <5>1. q \in Vrefs /\ vat.val[q] = "absent" /\ vat.rc[q] = 0
          BY <3>2, <3>6, Kinds DEF Inv, IsAlive
        <5>2. q # o => vat.es[q] = "n" /\ q \notin vat.dead \cup scan.todo
          BY <3>6 DEF Inv, IsAlive
        <5>3. vat.es \in [Stored -> Statuses]
          BY DEF Inv, TypeInv, Vat
        <5> QED BY <2>1, <3>4, <3>6, <3>7, <5>1, <5>2, <5>3
      <4>2. \A e \in vat'.entries : Stored \cap {e.holder, e.key} \subseteq vat'.alive
        BY <3>6 DEF Inv, IsAlive
      <4> QED BY <4>1, <4>2 DEF IsAlive
    <3>11. IsInRAM'
      BY <1>1, <3>6, <3>7, Kinds DEF Inv, IsInRAM
    <3>12. ImportsAgree'
      BY <1>1, <2>1, <3>4, <3>6, <3>7, Kinds DEF Inv, ImportsAgree
    <3>13. ExportsAgree'
      <4>1. /\ o \notin vat'.alive /\ vat.es[o] = "s" <=> clist[o] = "seen" /\ o \notin scan.retireExports
            /\ o \in Exports /\ clist[o] # "reach"
        BY <2>1, <3>2, <3>6, Kinds DEF Inv, ExportsAgree
      <4>2. \A q \in Stored : q # o => vat'.es[q] = vat.es[q]
        BY <3>6 DEF Inv, TypeInv, Vat
      <4>3. vat'.es[o] = "n"
        BY <2>1, <3>6 DEF Inv, TypeInv, Vat
      <4> QED BY <1>1, <2>1, <3>2, <3>4, <3>6, <4>1, <4>2, <4>3, Kinds DEF Inv, ExportsAgree
    <3>14. IsListed'
      <4>1. \A q : Known(vat', q) => Known(vat, q)
        BY <3>6 DEF Known
      <4> QED BY <1>1, <2>1, <3>4, <3>6, <3>7, <4>1, Kinds DEF Inv, TypeInv, Vat, IsListed
    <3>15. ScanInv'
      BY <3>4 DEF ScanInv
    <3>16. LegalStep
      <4>1. \A p \in Presences : Known(vat, p) => clist[p] \in {"reach", "seen"}
        BY DEF Inv, ImportsAgree, Known
      <4> QED BY <1>1, <3>4, <3>6, <4>1 DEF LegalStep, LegalInv, Vat
    <3> QED BY <3>8, <3>9, <3>10, <3>11, <3>12, <3>13, <3>14, <3>15, <3>16 DEF Inv
  <2> QED BY <2>2, <2>3
<1>9. CASE CheckExportRemotable(looked, o)
  <2>1. o \in Remotables /\ o \notin Stored /\ o \notin Presences
    BY <1>9, Kinds DEF CheckExportRemotable
  <2>2. CASE HasVal(looked, o)
    <3>1. vat' = looked /\ scan' = [scan EXCEPT !.todo = @ \ {o}]
      BY <1>9, <2>2 DEF CheckExportRemotable
    <3>2. vat.val[o] # "absent"
      BY <1>2, <2>2 DEF HasVal
    <3> QED BY <1>7, <2>1, <3>1, <3>2
  <2>3. CASE ~HasVal(looked, o)
    <3> DEFINE vt == [looked EXCEPT !.recognized = @ \ {o}]
               re == scan.retireExports \cup ({o} \cap looked.recognized)
    <3>1. vat' = CeaseRecognition(vt, o) /\ scan' = [scan EXCEPT !.todo = @ \ {o}, !.retireExports = re]
      BY <1>9, <2>3 DEF CheckExportRemotable
    <3>2. /\ vt \in Vat /\ SameStore(vat, vt) /\ vt.dead = vat.dead \ {o} /\ vt.val = vat.val
          /\ vt.es = vat.es /\ vt.exported = vat.exported
          /\ vt.recognized = vat.recognized \ {o} /\ vt.failed = vat.failed
      BY <1>2 DEF Vat, SameStore
    <3> HIDE DEF vt
    <3>3. Counted(vt) /\ NoneIsLost(vt)
      BY <1>2, <1>3, <1>6, <3>2 DEF Counted, NoneIsLost, SameStore
    <3>4. Freed(vt, vat', {e \in vt.entries : e.key = o}) /\ vat'.retired = vt.retired
      BY <3>1, <3>2, <3>3, CeaseRecognitionFrees
    <3>5. /\ vat' \in Vat /\ Counted(vat')
          /\ vat'.entries = {e \in vat.entries : e.key # o}
          /\ \A q \in Vrefs : vat'.rc[q] <= vat.rc[q]
          /\ \A q \in Vrefs : q \in vat'.dead <=>
               (q \in vat.dead /\ q # o) \/ (q \notin Remotables /\ vat.rc[q] > 0 /\ vat'.rc[q] = 0)
          /\ vat'.es = vat.es /\ vat'.alive = vat.alive
          /\ vat'.val = vat.val /\ vat'.exported = vat.exported
          /\ vat'.recognized = vat.recognized \ {o} /\ vat'.retired = vat.retired
          /\ vat'.failed = vat.failed
      BY <3>2, <3>3, <3>4 DEF Freed, Listed, SameStore
    <3>6. /\ scan'.phase = "examine" /\ scan'.todo = scan.todo \ {o} /\ scan'.drop = scan.drop
          /\ \A q : q \in scan'.retireExports <=>
                      q \in scan.retireExports \/ (q = o /\ o \in vat.recognized)
          /\ scan' \in [phase : {"idle", "gc", "examine"}, todo : SUBSET Vrefs,
                         drop : SUBSET Presences, retireExports : SUBSET Exports]
      <4>1. re \in SUBSET Exports
        BY <2>1, Kinds DEF Inv, TypeInv
      <4>2. \A q : q \in re <=> q \in scan.retireExports \/ (q = o /\ o \in vat.recognized)
        BY <1>2
      <4> HIDE DEF re
      <4> QED BY <1>1, <3>1, <4>1, <4>2 DEF Inv, TypeInv
    <3>7. vat.val[o] = "absent" \/ vat.val[o] = "unnamed"
      BY <1>2, <1>5, <2>3 DEF HasVal
    <3>8. \A q \in Vrefs : vat.rc[q] \in Nat /\ vat'.rc[q] \in Nat
      BY <3>5 DEF Inv, TypeInv, Vat
    <3>9. TypeInv'
      BY <1>1, <3>5, <3>6 DEF Inv, TypeInv
    <3>10. Counted(vat)' /\ OneEntry(vat)'
      BY <3>5 DEF Inv, OneEntry
    <3>11. IsAlive'
      BY <1>1, <2>1, <3>5, <3>6, <3>8, Kinds DEF Inv, IsAlive
    <3>12. IsInRAM'
      BY <1>1, <3>5, <3>8, Kinds DEF Inv, IsInRAM
    <3>13. ImportsAgree'
      <4>1. \A p \in Presences : Known(vat', p) <=> Known(vat, p)
        BY <2>1, <3>5 DEF Known
      <4> QED BY <1>1, <2>1, <3>5, <3>6, <3>8, <4>1, Kinds DEF Inv, ImportsAgree
    <3>14. ExportsAgree'
      BY <1>1, <2>1, <3>5, <3>6, <3>7, Kinds DEF Inv, TypeInv, Vat, ExportsAgree, IsInRAM
    <3>15. IsListed'
      <4>1. ~Known(vat', o) /\ \A q : Known(vat', q) => Known(vat, q)
        BY <3>5 DEF Known
      <4>2. clist[o] = "seen" => o \in scan'.retireExports
        BY <2>1, <3>6 DEF Inv, ExportsAgree
      <4> QED BY <1>1, <2>1, <3>5, <3>6, <3>8, <4>1, <4>2, Kinds DEF Inv, TypeInv, Vat, IsListed
    <3>16. ScanInv'
      BY <3>6 DEF ScanInv
    <3>17. LegalStep
      BY <1>1, <3>5, <3>6 DEF LegalStep, LegalInv
    <3> QED BY <3>9, <3>10, <3>11, <3>12, <3>13, <3>14, <3>15, <3>16, <3>17 DEF Inv
  <2> QED BY <2>2, <2>3
<1>10. CASE CheckImportPresence(looked, o)
  <2>1. o \in Presences /\ o \notin Stored /\ o \notin Remotables
    BY <1>10, Kinds DEF CheckImportPresence
  <2>2. CASE HasVal(looked, o) \/ IsPresenceReachable(looked, o)
    <3>1. vat' = looked /\ scan' = [scan EXCEPT !.todo = @ \ {o}]
      BY <1>10, <2>2 DEF CheckImportPresence
    <3>2. ~(vat.val[o] = "absent" /\ vat.rc[o] = 0)
      BY <1>2, <1>5, <2>2 DEF HasVal, IsPresenceReachable, SameStore
    <3> QED BY <1>7, <2>1, <3>1, <3>2
  <2>3. CASE ~(HasVal(looked, o) \/ IsPresenceReachable(looked, o))
    <3>1. /\ vat' = [looked EXCEPT !.retired = @ \cup {o}]
          /\ scan' = [scan EXCEPT !.todo = @ \ {o}, !.drop = @ \cup {o}]
      BY <1>10, <2>3 DEF CheckImportPresence
    <3>2. /\ vat' \in Vat /\ vat'.entries = vat.entries /\ vat'.rc = vat.rc
          /\ vat'.alive = vat.alive /\ vat'.retired = vat.retired \cup {o}
          /\ vat'.dead = vat.dead \ {o} /\ vat'.val = vat.val /\ vat'.es = vat.es
          /\ vat'.exported = vat.exported /\ vat'.recognized = vat.recognized
          /\ vat'.failed = vat.failed
      BY <1>2, <2>1, <3>1 DEF Vat, SameStore
    <3>3. /\ scan'.phase = "examine" /\ scan'.todo = scan.todo \ {o}
          /\ scan'.drop = scan.drop \cup {o} /\ scan'.retireExports = scan.retireExports
          /\ scan' \in [phase : {"idle", "gc", "examine"}, todo : SUBSET Vrefs,
                         drop : SUBSET Presences, retireExports : SUBSET Exports]
      BY <1>1, <2>1, <3>1 DEF Inv, TypeInv
    <3>4. vat.val[o] = "absent" /\ vat.rc[o] = 0
      BY <1>2, <1>5, <2>1, <2>3 DEF HasVal, IsPresenceReachable, SameStore
    <3>5. clist[o] = "reach"
      BY <1>1, <2>1 DEF Inv, ImportsAgree
    <3>6. TypeInv'
      BY <1>1, <3>2, <3>3 DEF Inv, TypeInv
    <3>7. Counted(vat)' /\ OneEntry(vat)'
      BY <3>2 DEF Inv, OneEntry, Counted
    <3>8. IsAlive' /\ IsInRAM' /\ ExportsAgree' /\ ScanInv'
      BY <1>1, <3>2, <3>3 DEF Inv, IsAlive, IsInRAM, ExportsAgree, ScanInv
    <3>9. ImportsAgree'
      BY <1>1, <3>2, <3>3, <3>4, <3>5 DEF Inv, ImportsAgree, Known
    <3>10. IsListed'
      BY <1>1, <2>1, <3>2, <3>3, Kinds DEF Inv, TypeInv, Vat, IsListed, Known
    <3>11. LegalStep
      BY <1>1, <3>2, <3>3, <3>5 DEF LegalStep, LegalInv
    <3> QED BY <3>6, <3>7, <3>8, <3>9, <3>10, <3>11 DEF Inv
  <2> QED BY <2>2, <2>3
<1> QED BY <1>4, <1>8, <1>9, <1>10

-----------------------------------------------------------------------------
(* The theorems *)

LEMMA InitHolds ==
  ASSUME Init
  PROVE  Inv /\ LegalInv
<1>1. /\ vat.entries = {} /\ vat.rc = [o \in Vrefs |-> 0] /\ vat.es = [o \in Stored |-> "n"]
      /\ vat.alive = Stored /\ vat.dead = {} /\ vat.retired = {} /\ vat.exported = {}
      /\ vat.recognized = {} /\ vat.failed = FALSE
      /\ vat.val = [o \in Vrefs |-> IF o \in Stored THEN "live"
                                     ELSE IF o \in Remotables THEN "unnamed" ELSE "absent"]
  BY DEF Init
<1>2. /\ held = Exports \cup WeakMaps /\ callbacks = [o \in Vrefs |-> 0]
      /\ clist = [o \in Vrefs |-> "none"] /\ scan = NoScan
  BY DEF Init
<1>3. TypeInv
  <2>1. vat.rc \in [Vrefs -> Nat] /\ vat.es \in [Stored -> Statuses] /\ vat.val \in [Vrefs -> Values]
    BY <1>1, Words
  <2>2. vat \in Vat
    BY <1>1, <2>1 DEF Init, Vat
  <2> QED BY <1>2, <2>2, Kinds DEF TypeInv, NoScan
<1>4. Counted(vat)
  <2>1. IsFiniteSet({}) /\ InStore({}) = {}
    BY FS_EmptySet DEF InStore
  <2>2. \A o \in Vrefs : CountIn({}, o) = 0
    BY <2>1, CountIsNat
  <2> QED BY <1>1, <2>1, <2>2 DEF Counted
<1>5. OneEntry(vat) /\ IsAlive /\ ImportsAgree /\ ExportsAgree
  BY <1>1, <1>2, Kinds DEF OneEntry, IsAlive, ImportsAgree, ExportsAgree, NoScan
<1>6. IsInRAM
  BY <1>1, <1>2, Kinds DEF IsInRAM
<1>7. IsListed /\ ScanInv /\ LegalInv
  BY <1>1, <1>2, Kinds DEF IsListed, NoScan, ScanInv, LegalInv, Known
<1> QED BY <1>3, <1>4, <1>5, <1>6, <1>7 DEF Inv

LEMMA NextKeeps ==
  ASSUME Inv, [Next]_vars
  PROVE  Inv' /\ LegalStep
<1>1. CASE UNCHANGED vars
  <2>1. vat' = vat /\ held' = held /\ callbacks' = callbacks /\ clist' = clist /\ scan' = scan
    BY <1>1 DEF vars
  <2>2. Inv'
    BY <2>1
    DEF Inv, TypeInv, Counted, OneEntry, IsAlive, IsInRAM, ImportsAgree, ExportsAgree, IsListed,
        ScanInv, Known
  <2>3. LegalStep
    BY <2>1 DEF LegalStep, LegalInv
  <2> QED BY <2>2, <2>3
<1>2. ASSUME NEW o \in Vrefs \cup WeakMaps, Forget(o) PROVE Inv' /\ LegalStep
  BY <1>2, ForgetKeeps
<1>3. ASSUME NEW e \in Contents, SetStored(e.holder, e.key, e.val) PROVE Inv' /\ LegalStep
  BY <1>3, SetStoredKeeps
<1>4. ASSUME NEW e \in Contents, SetWeakMap(e.holder, e.key, e.val) PROVE Inv' /\ LegalStep
  BY <1>4, SetWeakMapKeeps
<1>5. ASSUME NEW e \in vat.entries, DeleteEntry(e.holder, e.key) PROVE Inv' /\ LegalStep
  BY <1>5, DeleteEntryKeeps
<1>6. ASSUME NEW e \in vat.entries, GetEntry(e.holder, e.key) PROVE Inv' /\ LegalStep
  BY <1>6, GetEntryKeeps
<1>7. ASSUME NEW o \in Vrefs, Send(o) PROVE Inv' /\ LegalStep
  BY <1>7, SendKeeps
<1>8. ASSUME NEW o \in Vrefs, Deliver(o) PROVE Inv' /\ LegalStep
  BY <1>8, DeliverKeeps
<1>9. ASSUME NEW o \in Vrefs, DropExports(o) PROVE Inv' /\ LegalStep
  BY <1>9, DropExportsKeeps
<1>10. ASSUME NEW o \in Vrefs, RetireExports(o) PROVE Inv' /\ LegalStep
  BY <1>10, RetireExportsKeeps
<1>11. ASSUME NEW o \in Vrefs, RetireImports(o) PROVE Inv' /\ LegalStep
  BY <1>11, RetireImportsKeeps
<1>12. ASSUME NEW o \in Vrefs, Collect(o) PROVE Inv' /\ LegalStep
  BY <1>12, CollectKeeps
<1>13. ASSUME NEW o \in Vrefs, RunFinalizer(o) PROVE Inv' /\ LegalStep
  BY <1>13, RunFinalizerKeeps
<1>14. ASSUME NEW o \in Vrefs, Examine(o) PROVE Inv' /\ LegalStep
  BY <1>14, ExamineKeeps
<1>15. ASSUME NEW m \in WeakMaps, FinalizeWeakMap(m) PROVE Inv' /\ LegalStep
  BY <1>15, FinalizeWeakMapKeeps
<1>16. ASSUME BringOutYourDead \/ BeginPass \/ AnotherPass \/ FinishScan
       PROVE  Inv' /\ LegalStep
  BY <1>16, BringOutYourDeadKeeps, BeginPassKeeps, AnotherPassKeeps, FinishScanKeeps
<1> QED
  BY <1>1, <1>2, <1>3, <1>4, <1>5, <1>6, <1>7, <1>8, <1>9, <1>10, <1>11, <1>12, <1>13, <1>14,
     <1>15, <1>16 DEF Next

(* The tables of liveslots agree with the storage, the engine and the kernel *)
(* in every reachable state: the inductive invariant of the model. *)
THEOREM TablesAgree == Spec => []Inv
<1>1. Init => Inv
  BY InitHolds
<1>2. Inv /\ [Next]_vars => Inv'
  BY NextKeeps
<1> QED BY <1>1, <1>2, PTL DEF Spec

LEMMA UsedIsKept ==
  ASSUME Inv
  PROVE  WhatIsUsedIsKept
<1> DEFINE recognized == {e.key : e \in vat.entries}
           there(o) == /\ o \in Presences => clist[o] = "reach"
                       /\ o \in Stored => o \in vat.alive
                       /\ o \in Remotables => vat.val[o] \in {"unnamed", "live"}
<1>1. \A o \in Vrefs : vat.val[o] \in {"live", "unnamed"} => there(o)
  BY Kinds DEF Inv, IsAlive, ImportsAgree, IsInRAM
<1>2. \A o \in Vrefs : vat.rc[o] > 0 => there(o)
  BY Kinds DEF Inv, IsAlive, ImportsAgree, IsInRAM
<1>3. \A o \in Roots \cap Vrefs : there(o)
  <2> SUFFICES ASSUME NEW o \in Roots \cap Vrefs PROVE there(o)
    OBVIOUS
  <2>1. CASE o \in held
    BY <1>1, <2>1 DEF Inv, IsInRAM
  <2>2. CASE o \in Exports /\ clist[o] = "reach"
    BY <2>2, Kinds DEF Inv, ExportsAgree, IsAlive, IsInRAM
  <2>3. CASE \E e \in vat.entries : e.holder \in WeakMaps /\ e.val = o
    BY <1>1, <2>3 DEF Inv, IsInRAM
  <2> QED BY <2>1, <2>2, <2>3 DEF Roots
<1>4. ASSUME NEW e \in InStore(vat.entries), e.val \in Vrefs PROVE there(e.val)
  BY <1>2, <1>4, Linked
<1>5. \A o \in Used \cap Vrefs : there(o)
  <2> SUFFICES ASSUME NEW o \in Used \cap Vrefs, o \notin Roots PROVE there(o)
    BY <1>3
  <2>1. PICK e \in InStore(vat.entries) : e.val = o
    BY DEF Used
  <2> QED BY <1>4, <2>1
<1>6. \A o \in Presences \cap recognized : clist[o] # "gone"
  BY DEF Inv, ImportsAgree
<1>7. Stored \cap recognized \subseteq vat.alive
  BY DEF Inv, IsAlive
<1> QED BY <1>5, <1>6, <1>7, Kinds DEF WhatIsUsedIsKept

(* An object that the vat's code, its storage or another vat can reach is    *)
(* there when it is asked for, whatever the engine collects and when, and    *)
(* what a collection has as a key is not retired. *)
THEOREM WhatIsUsedIsAlwaysKept == Spec => []WhatIsUsedIsKept
BY TablesAgree, UsedIsKept, PTL

LEMMA NothingForgotten ==
  ASSUME Inv
  PROVE  NothingIsForgotten
<1> DEFINE gone(o) == vat.val[o] = "absent" /\ ~Stores(o)
<1>1. \A o \in Vrefs : ~Stores(o) => vat.rc[o] = 0
  <2> SUFFICES ASSUME NEW o \in Vrefs, ~Stores(o) PROVE vat.rc[o] = 0
    OBVIOUS
  <2>1. IsFiniteSet(InStore(vat.entries)) /\ vat.rc[o] = CountIn(InStore(vat.entries), o)
    BY StoredIsFinite DEF Inv, Counted
  <2> QED BY <2>1, CountIsNat DEF Stores
<1> SUFFICES ASSUME scan.phase = "idle"
             PROVE  /\ \A o \in Vrefs : vat.val[o] = "collected" => callbacks[o] > 0
                    /\ \A o \in Presences :
                         /\ gone(o) /\ clist[o] = "reach" => o \in vat.dead
                         /\ gone(o) /\ clist[o] = "seen" /\ ~IsRecognizable(vat, o)
                              => o \in vat.retired \cup vat.dead
                    /\ \A o \in vat.alive : gone(o) /\ clist[o] # "reach" => o \in vat.dead
                    /\ \A o \in Remotables :
                         gone(o) /\ (clist[o] = "seen" \/ IsRecognizable(vat, o)) => o \in vat.dead
  BY DEF NothingIsForgotten
<1>2. scan.drop = {} /\ scan.retireExports = {} /\ vat.alive \subseteq Stored
  BY DEF Inv, ScanInv, NoScan, TypeInv, Vat
<1>3. \A o \in Vrefs : vat.val[o] = "collected" => callbacks[o] > 0
  BY DEF Inv, IsInRAM
<1>4. ASSUME NEW o \in Presences
      PROVE  /\ gone(o) /\ clist[o] = "reach" => o \in vat.dead
             /\ gone(o) /\ clist[o] = "seen" /\ ~IsRecognizable(vat, o)
                  => o \in vat.retired \cup vat.dead
  BY <1>1, <1>2, Kinds, RecognizableIsKnown DEF Inv, ScanInv, NoScan, ImportsAgree
<1>5. \A o \in vat.alive : gone(o) /\ clist[o] # "reach" => o \in vat.dead
  BY <1>1, <1>2, Kinds DEF Inv, IsListed
<1>6. ASSUME NEW o \in Remotables, gone(o), clist[o] = "seen" \/ IsRecognizable(vat, o)
      PROVE  o \in vat.dead
  BY <1>2, <1>6, RecognizableIsKnown DEF Inv, IsListed
<1> QED BY <1>3, <1>4, <1>5, <1>6

(* Whatever has lost its last support waits, between scans, where the next   *)
(* bringOutYourDead finds it. *)
THEOREM NothingIsEverForgotten == Spec => []NothingIsForgotten
BY TablesAgree, NothingForgotten, PTL

(* The engine collects a WeakMap of the vat's code in a forced GC only. *)
WeakMapsWait == OrganicGC \cap WeakMaps = {}

(* Where the engine collects WeakMaps in a forced GC only, no assertion of   *)
(* liveslots fails, no count goes below zero, and the kernel finds every     *)
(* drop and retirement of the vat in its c-list, as it has to be. *)
THEOREM SyscallsAreAlwaysLegal ==
  ASSUME WeakMapsWait
  PROVE  Spec => []SyscallsAreLegal
<1>1. Init => Inv /\ LegalInv
  BY InitHolds
<1>2. Inv /\ LegalInv /\ [Next]_vars => (Inv /\ LegalInv)'
  BY NextKeeps DEF LegalStep, WeakMapsWait
<1>3. Inv /\ LegalInv => SyscallsAreLegal
  BY DEF LegalInv, SyscallsAreLegal
<1> QED BY <1>1, <1>2, <1>3, PTL DEF Spec

=============================================================================

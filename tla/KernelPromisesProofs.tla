------------------------ MODULE KernelPromisesProofs ------------------------
(*************************************************************************)
(* Theorems of KernelPromises: the promise table is typed, its reference  *)
(* counts are exact, no throw in the kernel's code is reached, each       *)
(* unresolved promise has one resolver, and whoever waits for a promise   *)
(* is told of it.                                                         *)
(*                                                                        *)
(* A step of the kernel is a sequence of operations on the state, and     *)
(* between two of them the counts, the deciders and the subscriptions do  *)
(* not yet agree: a send that was taken from its queue still has its      *)
(* references counted, a settled promise still has subscribers.  So the   *)
(* invariant is in two parts.  Base holds between any two operations:     *)
(* types, that what refers to a promise finds it in the table, that no    *)
(* two sends share a result.  What is yet to be put right is measured:    *)
(* Excess (references counted that the kernel has no place for) and the   *)
(* four sets Orphans, Unfit, Early and Unheard, empty in a Good state.    *)
(* A lemma on an operation says what it does to Base and to each          *)
(* measure; a lemma on a loop (ForEach) says it for each of its turns; a  *)
(* step is Good again at its end.                                         *)
(*************************************************************************)
EXTENDS KernelPromisesProperties, FiniteSetTheorems, SequenceTheorems,
  WellFoundedInduction, TLAPS

-----------------------------------------------------------------------------
(* Sets of numbers are well ordered. *)

LEMMA SmallestMember ==
  ASSUME NEW T \in SUBSET Nat, T # {}
  PROVE  \E m \in T : \A n \in T : m <= n
<1> DEFINE R == StrictSubsetOrdering(Nat)
           S == FiniteSubsetsOf(Nat)
           U == {1..n : n \in T}
<1>1. IsWellFoundedOn(R, S)
  BY FS_StrictSubsetOrderingWellFounded
<1>2. U \subseteq S /\ U # {}
  <2>1. ASSUME NEW n \in T
        PROVE  1..n \in S
    <3>1. IsFiniteSet(1..n)
      BY FS_Interval
    <3>2. 1..n \in SUBSET Nat
      OBVIOUS
    <3> QED
      BY <3>1, <3>2 DEF FiniteSubsetsOf
  <2> HIDE DEF S
  <2> QED
    BY <2>1
<1>3. PICK x \in U : \A y \in U : <<y, x>> \notin R
  <2> HIDE DEF R, S, U
  <2> QED
    BY <1>1, <1>2, WFMin
<1>4. PICK m \in T : x = 1..m
  OBVIOUS
<1>5. ASSUME NEW n \in T, n < m
      PROVE  FALSE
  <2>1. 1..n \in U /\ 1..n \subseteq 1..m /\ m \in 1..m /\ m \notin 1..n
    BY <1>5
  <2>2. 1..n \in SUBSET Nat /\ 1..m \in SUBSET Nat
    OBVIOUS
  <2>3. <<1..n, 1..m>> \in R
    BY <2>1, <2>2 DEF StrictSubsetOrdering
  <2> QED
    BY <1>3, <1>4, <2>1, <2>3
<1> QED
  BY <1>5

(* Loops: what holds after each turn holds after the last.                 *)

LEMMA LoopEnds ==
  ASSUME NEW n \in Nat, NEW Inv, NEW h, h[0] \in Inv[0],
         \A i \in 1..n : h[i - 1] \in Inv[i - 1] => h[i] \in Inv[i]
  PROVE  \A i \in 0..n : h[i] \in Inv[i]
<1> DEFINE Bad == {m \in 0..n : h[m] \notin Inv[m]}
<1>1. Bad \in SUBSET Nat
  OBVIOUS
<1>2. SUFFICES ASSUME Bad # {}
               PROVE  FALSE
  BY <1>2
<1>3. PICK m \in Bad : \A k1 \in Bad : m <= k1
  <2> HIDE DEF Bad
  <2> QED
    BY <1>1, <1>2, SmallestMember
<1>4. m \in 0..n /\ h[m] \notin Inv[m]
  OBVIOUS
<1>5. m # 0
  BY <1>4
<1>6. m - 1 \in 0..n /\ m - 1 \notin Bad
  BY <1>3, <1>4, <1>5
<1>7. h[m - 1] \in Inv[m - 1] /\ m \in 1..n
  BY <1>4, <1>5, <1>6
<1> QED
  BY <1>4, <1>7

\* A run of n turns, each of which applies next.
Runs(f, n, base, next) ==
  /\ f[0] = base
  /\ \A i \in 1..n : f[i] = next[<<i, f[i - 1]>>]
RunExists(Inv, n, base, next) ==
  \E f : f = [i \in 0..n |-> f[i]] /\ Runs(f, n, base, next) /\ \A i \in 0..n : f[i] \in Inv[i]

LEMMA LoopRuns ==
  ASSUME NEW n \in Nat, NEW Inv, NEW base, base \in Inv[0], NEW next,
         \A i \in 1..n : \A a \in Inv[i - 1] : next[<<i, a>>] \in Inv[i]
  PROVE  RunExists(Inv, n, base, next)
<1> DEFINE Bad == {m \in 0..n : ~RunExists(Inv, m, base, next)}
<1>1. Bad \in SUBSET Nat
  OBVIOUS
<1>2. SUFFICES ASSUME Bad # {}
               PROVE  FALSE
  <2>1. n \in 0..n
    OBVIOUS
  <2> QED
    BY <1>2, <2>1
<1>3. PICK m \in Bad : \A k1 \in Bad : m <= k1
  <2> HIDE DEF Bad
  <2> QED
    BY <1>1, <1>2, SmallestMember
<1>4. m \in 0..n /\ ~RunExists(Inv, m, base, next)
  OBVIOUS
<1>5. m # 0
  <2>1. SUFFICES ASSUME m = 0
                 PROVE  RunExists(Inv, m, base, next)
    BY <1>4
  <2> DEFINE f == [i \in 0..m |-> base]
  <2>2. f = [i \in 0..m |-> f[i]] /\ \A i \in 0..m : f[i] = base /\ i = 0
    BY <2>1
  <2>3. f[0] = base
    BY <2>1, <2>2
  <2> HIDE DEF f
  <2>4. Runs(f, m, base, next) /\ \A i \in 0..m : f[i] \in Inv[i]
    BY <2>1, <2>2, <2>3 DEF Runs
  <2> QED
    BY <2>2, <2>4 DEF RunExists
<1>6. m - 1 \in 0..n
  BY <1>4, <1>5
<1>7. RunExists(Inv, m - 1, base, next)
  BY <1>3, <1>4, <1>6
<1> HIDE DEF Bad
<1>8. PICK f : f = [i \in 0..m - 1 |-> f[i]] /\ Runs(f, m - 1, base, next)
               /\ \A i \in 0..m - 1 : f[i] \in Inv[i]
  BY <1>7 DEF RunExists
<1> DEFINE g == [i \in 0..m |-> IF i = m THEN next[<<m, f[m - 1]>>] ELSE f[i]]
<1>9. /\ g = [i \in 0..m |-> g[i]] /\ g[m] = next[<<m, f[m - 1]>>]
      /\ \A i \in 0..m - 1 : g[i] = f[i]
  BY <1>4, <1>5
<1> HIDE DEF g
<1>10. ASSUME NEW i \in 1..m
       PROVE  g[i] = next[<<i, g[i - 1]>>]
  <2>1. CASE i = m
    <3>1. m - 1 \in 0..m - 1
      BY <1>4, <1>5
    <3> QED
      BY <1>9, <2>1, <3>1
  <2>2. CASE i # m
    <3>1. i \in 1..m - 1 /\ i \in 0..m - 1 /\ i - 1 \in 0..m - 1
      BY <1>4, <2>2
    <3> QED
      BY <1>8, <1>9, <3>1 DEF Runs
  <2> QED
    BY <2>1, <2>2
<1>11. Runs(g, m, base, next)
  <2>1. 0 \in 0..m - 1
    BY <1>4, <1>5
  <2> QED
    BY <1>8, <1>9, <1>10, <2>1 DEF Runs
<1>12. ASSUME NEW i \in 0..m
       PROVE  g[i] \in Inv[i]
  <2>1. CASE i = m
    <3>1. m - 1 \in 0..m - 1 /\ m \in 1..n
      BY <1>4, <1>5
    <3>2. f[m - 1] \in Inv[m - 1]
      BY <1>8, <3>1
    <3> QED
      BY <1>9, <2>1, <3>1, <3>2
  <2>2. CASE i # m
    <3>1. i \in 0..m - 1
      BY <1>4, <2>2
    <3> QED
      BY <1>8, <1>9, <3>1
  <2> QED
    BY <2>1, <2>2
<1>13. RunExists(Inv, m, base, next)
  BY <1>9, <1>11, <1>12 DEF RunExists
<1> QED
  BY <1>4, <1>13

(* The members of a set of numbers in their order.                         *)

Rising(s) == \A i, j \in DOMAIN s : i < j => s[i] < s[j]

LEMMA OrderExists ==
  ASSUME NEW S \in SUBSET Nat, IsFiniteSet(S)
  PROVE  \E s \in [1..Cardinality(S) -> S] : Rising(s)
<1> DEFINE Lined(T) == \E s \in [1..Cardinality(T) -> T] : Rising(s)
           Bad == {n \in Nat : \E T \in SUBSET Nat : IsFiniteSet(T) /\ Cardinality(T) = n
                                                     /\ ~Lined(T)}
<1>1. SUFFICES Bad = {}
  <2>1. Cardinality(S) \in Nat
    BY FS_CardinalityType
  <2> QED
    BY <1>1, <2>1
<1>2. SUFFICES ASSUME Bad # {}
               PROVE  FALSE
  OBVIOUS
<1>3. PICK n \in Bad : \A m \in Bad : n <= m
  <2>1. Bad \in SUBSET Nat
    OBVIOUS
  <2> HIDE DEF Bad
  <2> QED
    BY <1>2, <2>1, SmallestMember
<1>4. PICK T \in SUBSET Nat : IsFiniteSet(T) /\ Cardinality(T) = n /\ ~Lined(T)
  BY <1>3
<1>5. n \in Nat
  BY <1>3
<1>6. T # {}
  <2>1. SUFFICES ASSUME T = {}
                 PROVE  FALSE
    OBVIOUS
  <2>2. Cardinality(T) = 0
    BY <2>1, FS_EmptySet
  <2> DEFINE s == [i \in 1..0 |-> 0]
  <2>3. s \in [1..0 -> T] /\ Rising(s)
    BY <2>1 DEF Rising
  <2> HIDE DEF s
  <2>4. Lined(T)
    BY <2>2, <2>3
  <2> QED
    BY <1>4, <2>4
<1>7. PICK m \in T : \A t \in T : m <= t
  BY <1>6, SmallestMember
<1> DEFINE U == T \ {m}
<1>8. /\ U \in SUBSET Nat /\ IsFiniteSet(U) /\ Cardinality(U) = n - 1
  BY <1>4, <1>7, FS_RemoveElement
<1>9. n - 1 \in Nat
  BY <1>8, FS_CardinalityType
<1>10. n - 1 \notin Bad
  BY <1>3, <1>5, <1>9
<1>11. Lined(U)
  BY <1>8, <1>9, <1>10
<1>12. PICK s \in [1..n - 1 -> U] : Rising(s)
  BY <1>8, <1>11
<1> DEFINE t == [i \in 1..n |-> IF i = 1 THEN m ELSE s[i - 1]]
<1> HIDE DEF Lined, Bad
<1>13. ASSUME NEW i \in 1..n, i # 1
       PROVE  i - 1 \in 1..n - 1 /\ s[i - 1] \in T /\ m < s[i - 1]
  <2>1. i - 1 \in 1..n - 1
    BY <1>5, <1>13
  <2>2. s[i - 1] \in U
    BY <1>12, <2>1
  <2>3. s[i - 1] \in T /\ s[i - 1] # m /\ s[i - 1] \in Nat /\ m \in Nat
    BY <1>7, <2>2
  <2>4. m <= s[i - 1]
    BY <1>7, <2>3
  <2> QED
    BY <2>1, <2>3, <2>4
<1>14. t \in [1..n -> T]
  BY <1>7, <1>13
<1>15. ASSUME NEW i \in 1..n, NEW j \in 1..n, i < j
       PROVE  t[i] < t[j]
  <2>1. j # 1 /\ t[j] = s[j - 1]
    BY <1>5, <1>15
  <2>2. CASE i = 1
    BY <1>13, <2>1, <2>2
  <2>3. CASE i # 1
    <3>1. /\ i - 1 \in DOMAIN s /\ j - 1 \in DOMAIN s /\ i - 1 < j - 1
          /\ t[i] = s[i - 1]
      BY <1>5, <1>12, <1>13, <1>15, <2>1, <2>3
    <3> QED
      BY <1>12, <2>1, <3>1 DEF Rising
  <2> QED
    BY <2>2, <2>3
<1>16. Rising(t)
  <2>1. DOMAIN t = 1..n
    OBVIOUS
  <2> HIDE DEF t
  <2> QED
    BY <1>15, <2>1 DEF Rising
<1>17. Lined(T)
  <2> HIDE DEF t
  <2> QED
    BY <1>4, <1>14, <1>16 DEF Lined
<1> QED
  BY <1>4, <1>17

LEMMA AscendingIs ==
  ASSUME NEW S \in SUBSET Nat, IsFiniteSet(S)
  PROVE  /\ Cardinality(S) \in Nat /\ Ascending(S) \in [1..Cardinality(S) -> S]
         /\ \A i, j \in 1..Cardinality(S) : i # j => Ascending(S)[i] # Ascending(S)[j]
         /\ \A p \in S : \E i \in 1..Cardinality(S) : Ascending(S)[i] = p
         /\ Ascending(S) \in Seq(S) /\ Len(Ascending(S)) = Cardinality(S)
<1> DEFINE n == Cardinality(S)
           s == Ascending(S)
<1>1. n \in Nat
  BY FS_CardinalityType
<1>2. s \in [1..n -> S] /\ Rising(s)
  BY OrderExists DEF Ascending, Rising
<1> HIDE DEF s
<1>3. s \in Seq(S) /\ Len(s) = n
  BY <1>1, <1>2
<1>4. ASSUME NEW i \in 1..n, NEW j \in 1..n, i # j
      PROVE  s[i] # s[j]
  <2>1. s[i] \in Nat /\ s[j] \in Nat /\ DOMAIN s = 1..n
    BY <1>2
  <2>2. CASE i < j
    BY <1>2, <2>1, <2>2 DEF Rising
  <2>3. CASE j < i
    BY <1>2, <2>1, <2>3 DEF Rising
  <2> QED
    BY <1>1, <1>4, <2>2, <2>3
<1>5. ASSUME NEW p \in S
      PROVE  \E i \in 1..n : s[i] = p
  <2> DEFINE T == {s[i] : i \in 1..n}
  <2>1. T \subseteq S
    BY <1>2
  <2>2. IsFiniteSet(1..n) /\ Cardinality(1..n) = n
    BY <1>1, FS_Interval
  <2>3. ExistsBijection(1..n, T)
    <3> DEFINE f == [i \in 1..n |-> s[i]]
    <3>1. f \in Bijection(1..n, T)
      BY <1>4 DEF Bijection, Injection, Surjection, IsInjective
    <3> QED
      BY <3>1 DEF ExistsBijection
  <2> HIDE DEF T
  <2>4. IsFiniteSet(T) /\ Cardinality(T) = n
    BY <2>1, <2>2, <2>3, FS_Bijection, FS_Subset
  <2>5. T = S
    BY <2>1, <2>4, FS_Subset
  <2> QED
    BY <2>5 DEF T
<1> QED
  BY <1>1, <1>2, <1>3, <1>4, <1>5 DEF s

-----------------------------------------------------------------------------
(* How many items of a sequence are in a set.                              *)

LEMMA ShiftedSet ==
  ASSUME NEW S \in SUBSET Nat, IsFiniteSet(S), NEW n \in Nat
  PROVE  /\ IsFiniteSet({i + n : i \in S})
         /\ Cardinality({i + n : i \in S}) = Cardinality(S)
<1> DEFINE T == {i + n : i \in S}
           f == [i \in S |-> i + n]
<1>1. f \in Bijection(S, T)
  BY DEF Bijection, Injection, Surjection, IsInjective
<1>2. ExistsBijection(S, T)
  BY <1>1 DEF ExistsBijection
<1> HIDE DEF T
<1>3. IsFiniteSet(T) /\ Cardinality(T) = Cardinality(S)
  BY <1>2, FS_Bijection
<1> QED
  BY <1>3 DEF T

LEMMA CountSet ==
  ASSUME NEW E, NEW q \in Seq(E), NEW S
  PROVE  /\ {i \in DOMAIN q : q[i] \in S} \in SUBSET Nat
         /\ IsFiniteSet({i \in DOMAIN q : q[i] \in S})
         /\ CountIn(q, S) \in Nat
<1>1. DOMAIN q = 1..Len(q) /\ Len(q) \in Nat
  OBVIOUS
<1>2. IsFiniteSet(1..Len(q))
  BY <1>1, FS_Interval
<1> DEFINE T == {i \in DOMAIN q : q[i] \in S}
<1>3. T \subseteq 1..Len(q) /\ T \in SUBSET Nat
  BY <1>1
<1> HIDE DEF T
<1>4. IsFiniteSet(T) /\ Cardinality(T) \in Nat
  BY <1>2, <1>3, FS_Subset, FS_CardinalityType
<1> QED
  BY <1>3, <1>4 DEF T, CountIn

LEMMA CountAppend ==
  ASSUME NEW E, NEW q \in Seq(E), NEW e \in E, NEW S
  PROVE  CountIn(Append(q, e), S) = CountIn(q, S) + (IF e \in S THEN 1 ELSE 0)
<1> DEFINE T == {i \in DOMAIN q : q[i] \in S}
           r == Append(q, e)
           U == {i \in DOMAIN r : r[i] \in S}
           n == Len(q) + 1
<1>1. /\ n \in Nat \ {0} /\ DOMAIN q = 1..n - 1 /\ DOMAIN r = 1..n /\ r[n] = e
      /\ \A i \in 1..n - 1 : r[i] = q[i] /\ i # n
  OBVIOUS
<1>2. IsFiniteSet(T) /\ n \notin T /\ CountIn(q, S) = Cardinality(T)
      /\ Cardinality(T) \in Nat /\ CountIn(r, S) = Cardinality(U)
  BY <1>1, CountSet DEF CountIn
<1>3. U = IF e \in S THEN T \cup {n} ELSE T
  <2> HIDE DEF n, r
  <2> QED
    BY <1>1
<1> HIDE DEF T, U, r, n
<1>4. IsFiniteSet(T \cup {n}) /\ Cardinality(T \cup {n}) = Cardinality(T) + 1
  BY <1>2, FS_AddElement
<1>5. CountIn(r, S) = CountIn(q, S) + (IF e \in S THEN 1 ELSE 0)
  BY <1>2, <1>3, <1>4
<1> QED
  BY <1>5 DEF r

LEMMA CountConcat ==
  ASSUME NEW E, NEW q \in Seq(E), NEW s \in Seq(E), NEW S
  PROVE  CountIn(q \o s, S) = CountIn(q, S) + CountIn(s, S)
<1> DEFINE T == {i \in DOMAIN q : q[i] \in S}
           V == {i \in DOMAIN s : s[i] \in S}
           r == q \o s
           U == {i \in DOMAIN r : r[i] \in S}
           n == Len(q)
           m == Len(s)
           W == {i + n : i \in V}
<1>1. /\ n \in Nat /\ m \in Nat /\ DOMAIN q = 1..n /\ DOMAIN s = 1..m /\ DOMAIN r = 1..n + m
      /\ \A i \in 1..n + m : r[i] = IF i <= n THEN q[i] ELSE s[i - n]
  OBVIOUS
<1>2. /\ IsFiniteSet(T) /\ CountIn(q, S) = Cardinality(T) /\ Cardinality(T) \in Nat
      /\ IsFiniteSet(V) /\ CountIn(s, S) = Cardinality(V) /\ Cardinality(V) \in Nat
      /\ V \in SUBSET Nat /\ CountIn(r, S) = Cardinality(U)
  <2>1. CountIn(r, S) = Cardinality(U)
    BY DEF CountIn
  <2>2. IsFiniteSet(T) /\ CountIn(q, S) = Cardinality(T) /\ CountIn(q, S) \in Nat
    <3>1. IsFiniteSet(T) /\ CountIn(q, S) \in Nat
      BY CountSet
    <3> QED
      BY <3>1 DEF CountIn
  <2>3. IsFiniteSet(V) /\ CountIn(s, S) = Cardinality(V) /\ CountIn(s, S) \in Nat /\ V \in SUBSET Nat
    BY CountSet DEF CountIn
  <2> QED
    BY <2>1, <2>2, <2>3
<1>3. IsFiniteSet(W) /\ Cardinality(W) = Cardinality(V)
  <2> HIDE DEF V, n
  <2> QED
    BY <1>1, <1>2, ShiftedSet
<1> HIDE DEF r, n, m
<1>4. T \cap W = {}
  <2>1. ASSUME NEW i \in V
        PROVE  i + n > n
    BY <1>1
  <2>2. ASSUME NEW i \in T
        PROVE  i <= n
    BY <1>1
  <2> HIDE DEF T, V
  <2> QED
    BY <1>1, <1>2, <2>1, <2>2
<1>5. U = T \cup W
  <2>1. ASSUME NEW i \in U
        PROVE  i \in T \cup W
    <3>1. CASE i <= n
      BY <1>1, <3>1
    <3>2. CASE i > n
      <4>1. i - n \in V /\ i = (i - n) + n
        BY <1>1, <3>2
      <4> QED
        BY <4>1
    <3> QED
      BY <1>1, <3>1, <3>2
  <2>2. ASSUME NEW i \in T
        PROVE  i \in U
    BY <1>1
  <2>3. ASSUME NEW j \in V
        PROVE  j + n \in U
    <3>1. j + n \in 1..n + m /\ ~(j + n <= n) /\ (j + n) - n = j /\ s[j] \in S
      BY <1>1
    <3> QED
      BY <1>1, <3>1
  <2> HIDE DEF T, U, V
  <2> QED
    BY <2>1, <2>2, <2>3
<1> HIDE DEF T, U, V, W
<1>6. Cardinality(T \cup W) = Cardinality(T) + Cardinality(W)
  <2>1. Cardinality({}) = 0
    BY FS_EmptySet
  <2>2. Cardinality(T \cup W) = Cardinality(T) + Cardinality(W) - Cardinality(T \cap W)
    BY <1>2, <1>3, FS_Union
  <2>3. Cardinality(T \cap W) = 0
    BY <1>4, <2>1
  <2> QED
    BY <1>2, <1>3, <2>2, <2>3
<1> QED
  BY <1>2, <1>3, <1>5, <1>6 DEF r

LEMMA CountTail ==
  ASSUME NEW E, NEW q \in Seq(E), q # <<>>, NEW S
  PROVE  CountIn(q, S) = CountIn(Tail(q), S) + (IF Head(q) \in S THEN 1 ELSE 0)
<1> DEFINE e == Head(q)
           s == Tail(q)
           none == <<>>
           one == Append(none, e)
<1>1. e \in E /\ s \in Seq(E) /\ none \in Seq(E) /\ one \in Seq(E) /\ q = one \o s
  OBVIOUS
<1>2. CountIn(none, S) = 0
  <2>1. {i \in DOMAIN none : none[i] \in S} = {}
    OBVIOUS
  <2> QED
    BY <2>1, FS_EmptySet DEF CountIn
<1> HIDE DEF e, s, none
<1>3. CountIn(one, S) = CountIn(none, S) + (IF e \in S THEN 1 ELSE 0)
  BY <1>1, CountAppend
<1> HIDE DEF one
<1>4. CountIn(one \o s, S) = CountIn(one, S) + CountIn(s, S)
  BY <1>1, CountConcat
<1>5. CountIn(s, S) \in Nat
  BY <1>1, CountSet
<1>6. CountIn(q, S) = CountIn(s, S) + (IF e \in S THEN 1 ELSE 0)
  <2>1. CountIn(q, S) = CountIn(one, S) + CountIn(s, S)
    BY <1>1, <1>4
  <2> QED
    BY <1>2, <1>3, <1>5, <2>1
<1> QED
  BY <1>6 DEF e, s

LEMMA CountNone ==
  ASSUME NEW E, NEW q \in Seq(E), NEW S, S \cap E = {}
  PROVE  CountIn(q, S) = 0
<1>1. {i \in DOMAIN q : q[i] \in S} = {}
  <2>1. \A i \in DOMAIN q : q[i] \in E
    OBVIOUS
  <2> QED
    BY <2>1
<1> QED
  BY <1>1, FS_EmptySet DEF CountIn

-----------------------------------------------------------------------------
(* A family q of queues of events: who is in it, and how often.            *)

At(q, e) == \E i \in DOMAIN q : \E a \in DOMAIN q[i] : q[i][a] = e
Of(q, type) == {e \in UNION {ToSet(q[i]) : i \in DOMAIN q} : e.type = type}

\* No two sends of the family have the same number.
Unique(q) ==
  \A i, j \in DOMAIN q : \A a \in DOMAIN q[i], b \in DOMAIN q[j] :
    q[i][a].type = "send" /\ q[j][b].type = "send" /\ q[i][a].number = q[j][b].number
      => i = j /\ a = b

Fresh(q, e) == e.type = "send" => \A f \in Of(q, "send") : f.number # e.number

Changed(q, r, i, s) ==
  /\ DOMAIN r = DOMAIN q /\ r[i] = s
  /\ \A j \in DOMAIN q : j # i => r[j] = q[j]
\* The queue j is put behind the queue i.
Moved(q, r, i, j) ==
  /\ DOMAIN r = DOMAIN q /\ r[i] = q[i] \o q[j] /\ r[j] = <<>>
  /\ \A m \in DOMAIN q : m # i /\ m # j => r[m] = q[m]

LEMMA OfIs ==
  ASSUME NEW q, NEW type
  PROVE  \A e : e \in Of(q, type) <=> e.type = type /\ At(q, e)
BY DEF Of, At, ToSet

LEMMA AppendAt ==
  ASSUME NEW E, NEW q, \A i \in DOMAIN q : q[i] \in Seq(E), NEW i \in DOMAIN q, NEW e \in E,
         NEW r, Changed(q, r, i, Append(q[i], e))
  PROVE  /\ DOMAIN r = DOMAIN q /\ \A j \in DOMAIN q : r[j] \in Seq(E)
         /\ \A f : At(r, f) <=> At(q, f) \/ f = e
<1> DEFINE s == Append(q[i], e)
           n == Len(q[i])
<1>1. /\ q[i] \in Seq(E) /\ s \in Seq(E) /\ n \in Nat /\ DOMAIN s = 1..n + 1 /\ DOMAIN q[i] = 1..n
      /\ s[n + 1] = e /\ \A a \in 1..n : s[a] = q[i][a]
  OBVIOUS
<1>2. DOMAIN r = DOMAIN q /\ r[i] = s /\ \A j \in DOMAIN q : j # i => r[j] = q[j]
  BY DEF s, Changed
<1> HIDE DEF s, n
<1>3. \A j \in DOMAIN q : r[j] \in Seq(E)
  BY <1>1, <1>2
<1>4. ASSUME NEW f, At(r, f)
      PROVE  At(q, f) \/ f = e
  <2>1. PICK j \in DOMAIN q : \E a \in DOMAIN r[j] : r[j][a] = f
    BY <1>2, <1>4 DEF At
  <2>2. CASE j # i
    BY <1>2, <2>1, <2>2 DEF At
  <2>3. CASE j = i
    <3>1. PICK a \in 1..n + 1 : s[a] = f
      BY <1>1, <1>2, <2>1, <2>3
    <3>2. a \in 1..n \/ a = n + 1
      BY <1>1
    <3> QED
      BY <1>1, <3>1, <3>2 DEF At
  <2> QED
    BY <2>2, <2>3
<1>5. ASSUME NEW f, At(q, f)
      PROVE  At(r, f)
  <2>1. PICK j \in DOMAIN q : \E a \in DOMAIN q[j] : q[j][a] = f
    BY <1>5 DEF At
  <2>2. CASE j # i
    BY <1>2, <2>1, <2>2 DEF At
  <2>3. CASE j = i
    <3>1. PICK a \in 1..n : q[i][a] = f
      BY <1>1, <2>1, <2>3
    <3>2. a \in DOMAIN r[i] /\ r[i][a] = f
      BY <1>1, <1>2, <3>1
    <3> QED
      BY <1>2, <3>2 DEF At
  <2> QED
    BY <2>2, <2>3
<1>6. At(r, e)
  <2>1. n + 1 \in DOMAIN r[i] /\ r[i][n + 1] = e
    BY <1>1, <1>2
  <2> QED
    BY <1>2, <2>1 DEF At
<1> QED
  BY <1>2, <1>3, <1>4, <1>5, <1>6

LEMMA AppendUnique ==
  ASSUME NEW E, NEW q, \A i \in DOMAIN q : q[i] \in Seq(E), NEW i \in DOMAIN q, NEW e \in E,
         NEW r, Changed(q, r, i, Append(q[i], e)), Unique(q), Fresh(q, e)
  PROVE  Unique(r)
<1> DEFINE s == Append(q[i], e)
           n == Len(q[i])
<1>1. /\ q[i] \in Seq(E) /\ n \in Nat /\ DOMAIN s = 1..n + 1 /\ DOMAIN q[i] = 1..n
      /\ s[n + 1] = e /\ \A a \in 1..n : s[a] = q[i][a]
  OBVIOUS
<1>2. DOMAIN r = DOMAIN q /\ r[i] = s /\ \A j \in DOMAIN q : j # i => r[j] = q[j]
  BY DEF s, Changed
<1> HIDE DEF s, n
\* Where an item of r is in q, unless it is the new one.
<1>3. ASSUME NEW j \in DOMAIN r, NEW a \in DOMAIN r[j]
      PROVE  \/ j = i /\ a = n + 1 /\ r[j][a] = e
             \/ a \in DOMAIN q[j] /\ r[j][a] = q[j][a]
  <2>1. CASE j # i
    BY <1>2, <2>1
  <2>2. CASE j = i
    <3>1. a \in 1..n \/ a = n + 1
      BY <1>1, <1>2, <2>2
    <3> QED
      BY <1>1, <1>2, <2>2, <3>1
  <2> QED
    BY <2>1, <2>2
<1>4. ASSUME e.type = "send", NEW j \in DOMAIN q, NEW a \in DOMAIN q[j], q[j][a].type = "send"
      PROVE  q[j][a].number # e.number
  <2>1. q[j][a] \in Of(q, "send")
    BY <1>4, OfIs DEF At
  <2> QED
    BY <1>4, <2>1 DEF Fresh
<1> SUFFICES ASSUME NEW j1 \in DOMAIN r, NEW j2 \in DOMAIN r,
                    NEW a1 \in DOMAIN r[j1], NEW a2 \in DOMAIN r[j2],
                    r[j1][a1].type = "send", r[j2][a2].type = "send",
                    r[j1][a1].number = r[j2][a2].number
             PROVE  j1 = j2 /\ a1 = a2
  BY DEF Unique
<1>5. CASE j1 = i /\ a1 = n + 1 /\ r[j1][a1] = e
  BY <1>2, <1>3, <1>4, <1>5
<1>6. CASE a1 \in DOMAIN q[j1] /\ r[j1][a1] = q[j1][a1]
  <2>1. CASE j2 = i /\ a2 = n + 1 /\ r[j2][a2] = e
    BY <1>2, <1>4, <1>6, <2>1
  <2>2. CASE a2 \in DOMAIN q[j2] /\ r[j2][a2] = q[j2][a2]
    BY <1>2, <1>6, <2>2 DEF Unique
  <2> QED
    BY <1>3, <2>1, <2>2
<1> QED
  BY <1>3, <1>5, <1>6

LEMMA TailAt ==
  ASSUME NEW E, NEW q, \A i \in DOMAIN q : q[i] \in Seq(E), NEW i \in DOMAIN q, q[i] # <<>>,
         NEW r, Changed(q, r, i, Tail(q[i])), Unique(q)
  PROVE  /\ DOMAIN r = DOMAIN q /\ \A j \in DOMAIN q : r[j] \in Seq(E)
         /\ Head(q[i]) \in E /\ At(q, Head(q[i]))
         /\ \A f : At(r, f) => At(q, f)
         /\ \A f : At(q, f) => At(r, f) \/ f = Head(q[i])
         /\ Fresh(r, Head(q[i]))
         /\ Unique(r)
<1> DEFINE s == Tail(q[i])
           n == Len(q[i])
           e == Head(q[i])
<1>1. /\ q[i] \in Seq(E) /\ s \in Seq(E) /\ n \in Nat \ {0} /\ DOMAIN s = 1..n - 1
      /\ DOMAIN q[i] = 1..n /\ e \in E /\ q[i][1] = e /\ \A a \in 1..n - 1 : s[a] = q[i][a + 1]
  OBVIOUS
<1>2. DOMAIN r = DOMAIN q /\ r[i] = s /\ \A j \in DOMAIN q : j # i => r[j] = q[j]
  BY DEF s, Changed
<1> HIDE DEF s, n, e
<1>3. \A j \in DOMAIN q : r[j] \in Seq(E)
  BY <1>1, <1>2
<1> DEFINE In(j, a) == IF j = i THEN a + 1 ELSE a
\* Where an item of r is in q.
<1>4. ASSUME NEW j \in DOMAIN q, NEW a \in DOMAIN r[j]
      PROVE  In(j, a) \in DOMAIN q[j] /\ r[j][a] = q[j][In(j, a)] /\ (j = i => In(j, a) # 1)
  <2>1. CASE j # i
    BY <1>2, <2>1
  <2>2. CASE j = i
    <3>1. a \in 1..n - 1 /\ In(j, a) = a + 1
      BY <1>1, <1>2, <2>2
    <3> QED
      BY <1>1, <1>2, <2>2, <3>1
  <2> QED
    BY <2>1, <2>2
<1> HIDE DEF In
<1>5. ASSUME NEW f, At(r, f)
      PROVE  At(q, f)
  BY <1>2, <1>4, <1>5 DEF At
<1>6. ASSUME NEW f, At(q, f)
      PROVE  At(r, f) \/ f = e
  <2>1. PICK j \in DOMAIN q : \E a \in DOMAIN q[j] : q[j][a] = f
    BY <1>6 DEF At
  <2>2. CASE j # i
    BY <1>2, <2>1, <2>2 DEF At
  <2>3. CASE j = i
    <3>1. PICK a \in 1..n : q[i][a] = f
      BY <1>1, <2>1, <2>3
    <3>2. CASE a = 1
      BY <1>1, <3>1, <3>2
    <3>3. CASE a # 1
      <4>1. a - 1 \in 1..n - 1 /\ (a - 1) + 1 = a
        BY <1>1, <3>3
      <4>2. a - 1 \in DOMAIN r[i] /\ r[i][a - 1] = f
        BY <1>1, <1>2, <3>1, <4>1
      <4> QED
        BY <1>2, <4>2 DEF At
    <3> QED
      BY <3>2, <3>3
  <2> QED
    BY <2>2, <2>3
<1>7. At(q, e)
  <2>1. 1 \in DOMAIN q[i]
    BY <1>1
  <2> QED
    BY <1>1, <2>1 DEF At
<1>8. Fresh(r, e)
  <2>1. SUFFICES ASSUME e.type = "send", NEW f \in Of(r, "send"), f.number = e.number
                 PROVE  FALSE
    BY DEF Fresh
  <2>2. PICK j \in DOMAIN q : \E a \in DOMAIN r[j] : r[j][a] = f
    <3>1. At(r, f)
      BY <2>1 DEF Of, At, ToSet
    <3> QED
      BY <1>2, <3>1 DEF At
  <2>3. PICK a \in DOMAIN r[j] : r[j][a] = f
    BY <2>2
  <2>4. f.type = "send" /\ 1 \in DOMAIN q[i]
    BY <1>1, <2>1, OfIs
  <2>5. j = i /\ In(j, a) = 1
    BY <1>1, <1>4, <2>1, <2>3, <2>4 DEF Unique
  <2> QED
    BY <1>4, <2>5
<1>9. Unique(r)
  <2> SUFFICES ASSUME NEW j1 \in DOMAIN r, NEW j2 \in DOMAIN r,
                      NEW a1 \in DOMAIN r[j1], NEW a2 \in DOMAIN r[j2],
                      r[j1][a1].type = "send", r[j2][a2].type = "send",
                      r[j1][a1].number = r[j2][a2].number
               PROVE  j1 = j2 /\ a1 = a2
    BY DEF Unique
  <2>1. j1 = j2 /\ In(j1, a1) = In(j2, a2)
    BY <1>2, <1>4 DEF Unique
  <2>2. CASE j1 = i
    <3>1. a1 \in 1..n - 1 /\ a2 \in 1..n - 1
      BY <1>1, <1>2, <2>1, <2>2
    <3> QED
      BY <1>1, <2>1, <2>2, <3>1 DEF In
  <2>3. CASE j1 # i
    BY <2>1, <2>3 DEF In
  <2> QED
    BY <2>2, <2>3
<1> QED
  BY <1>1, <1>2, <1>3, <1>5, <1>6, <1>7, <1>8, <1>9 DEF e

LEMMA MoveAt ==
  ASSUME NEW E, NEW q, \A i \in DOMAIN q : q[i] \in Seq(E), NEW i \in DOMAIN q,
         NEW k1 \in DOMAIN q, k1 # i,
         NEW r, Moved(q, r, i, k1), Unique(q)
  PROVE  /\ DOMAIN r = DOMAIN q /\ \A j \in DOMAIN q : r[j] \in Seq(E)
         /\ \A f : At(r, f) <=> At(q, f)
         /\ Unique(r)
<1> DEFINE s == q[i] \o q[k1]
           n == Len(q[i])
           m == Len(q[k1])
<1>1. /\ q[i] \in Seq(E) /\ q[k1] \in Seq(E) /\ s \in Seq(E) /\ n \in Nat /\ m \in Nat
      /\ DOMAIN s = 1..n + m /\ DOMAIN q[i] = 1..n /\ DOMAIN q[k1] = 1..m
      /\ \A a \in 1..n + m : s[a] = IF a <= n THEN q[i][a] ELSE q[k1][a - n]
  OBVIOUS
<1>2. /\ DOMAIN r = DOMAIN q /\ r[i] = s /\ r[k1] = <<>>
      /\ \A j \in DOMAIN q : j # i /\ j # k1 => r[j] = q[j]
  BY DEF s, Moved
<1> HIDE DEF s, n, m
<1>3. \A j \in DOMAIN q : r[j] \in Seq(E)
  <2>1. r[k1] \in Seq(E)
    BY <1>2
  <2> QED
    BY <1>1, <1>2, <2>1
<1> DEFINE Of1(j, a) == IF j = i /\ a > n THEN k1 ELSE j
           In(j, a) == IF j = i /\ a > n THEN a - n ELSE a
<1>4. ASSUME NEW j \in DOMAIN q, NEW a \in DOMAIN r[j]
      PROVE  /\ Of1(j, a) \in DOMAIN q /\ In(j, a) \in DOMAIN q[Of1(j, a)]
             /\ r[j][a] = q[Of1(j, a)][In(j, a)] /\ j # k1
  <2>1. j # k1
    BY <1>2
  <2>2. CASE j # i
    BY <1>2, <2>1, <2>2
  <2>3. CASE j = i
    <3>1. a \in 1..n + m /\ r[j][a] = IF a <= n THEN q[i][a] ELSE q[k1][a - n]
      BY <1>1, <1>2, <2>3
    <3>2. CASE a <= n
      <4>1. a \in 1..n /\ ~(a > n)
        BY <1>1, <3>1, <3>2
      <4> QED
        BY <1>1, <2>1, <2>3, <3>1, <3>2, <4>1
    <3>3. CASE ~(a <= n)
      <4>1. a - n \in 1..m /\ a > n
        BY <1>1, <3>1, <3>3
      <4> QED
        BY <1>1, <2>1, <2>3, <3>1, <3>3, <4>1
    <3> QED
      BY <3>2, <3>3
  <2> QED
    BY <2>2, <2>3
<1> HIDE DEF Of1, In
<1>5. ASSUME NEW f, At(r, f)
      PROVE  At(q, f)
  BY <1>2, <1>4, <1>5 DEF At
<1>6. ASSUME NEW f, At(q, f)
      PROVE  At(r, f)
  <2>1. PICK j \in DOMAIN q : \E a \in DOMAIN q[j] : q[j][a] = f
    BY <1>6 DEF At
  <2>2. CASE j # i /\ j # k1
    BY <1>2, <2>1, <2>2 DEF At
  <2>3. CASE j = i
    <3>1. PICK a \in 1..n : q[i][a] = f
      BY <1>1, <2>1, <2>3
    <3>2. a \in 1..n + m /\ a <= n
      BY <1>1
    <3>3. a \in DOMAIN r[i] /\ r[i][a] = f
      BY <1>1, <1>2, <3>1, <3>2
    <3> QED
      BY <1>2, <3>3 DEF At
  <2>4. CASE j = k1
    <3>1. PICK a \in 1..m : q[k1][a] = f
      BY <1>1, <2>1, <2>4
    <3>2. a + n \in 1..n + m /\ ~(a + n <= n) /\ (a + n) - n = a
      BY <1>1
    <3>3. a + n \in DOMAIN r[i] /\ r[i][a + n] = f
      BY <1>1, <1>2, <3>1, <3>2
    <3> QED
      BY <1>2, <3>3 DEF At
  <2> QED
    BY <2>2, <2>3, <2>4
<1>7. Unique(r)
  <2> SUFFICES ASSUME NEW j1 \in DOMAIN r, NEW j2 \in DOMAIN r,
                      NEW a1 \in DOMAIN r[j1], NEW a2 \in DOMAIN r[j2],
                      r[j1][a1].type = "send", r[j2][a2].type = "send",
                      r[j1][a1].number = r[j2][a2].number
               PROVE  j1 = j2 /\ a1 = a2
    BY DEF Unique
  <2>1. Of1(j1, a1) = Of1(j2, a2) /\ In(j1, a1) = In(j2, a2) /\ j1 # k1 /\ j2 # k1
    BY <1>2, <1>4 DEF Unique
  <2>2. CASE j1 # i
    BY <2>1, <2>2 DEF Of1, In
  <2>3. CASE j1 = i
    <3>1. j2 = i
      BY <2>1, <2>3 DEF Of1
    <3>2. a1 \in 1..n + m /\ a2 \in 1..n + m
      BY <1>1, <1>2, <2>3, <3>1
    <3> QED
      BY <1>1, <2>1, <2>3, <3>1, <3>2 DEF Of1, In
  <2> QED
    BY <2>2, <2>3
<1> QED
  BY <1>2, <1>3, <1>5, <1>6, <1>7

-----------------------------------------------------------------------------
(* The kernel state: its queues as one family, its table as rows.          *)

QueueIds == -1..NPromises
Queues(kk) ==
  [i \in QueueIds |-> IF i = -1 THEN kk.runQueue
                      ELSE IF i = 0 THEN kk.acceptanceQueue ELSE kk.promises[i].queue]

Sends(kk) == Of(Queues(kk), "send")
Notices(kk) == Of(Queues(kk), "notify")

\* What differs: nothing but the count of p, which is n, and maybeFree.
Recounted(kk, tt, p, n) ==
  /\ tt \in KernelState
  /\ tt.clist = kk.clist /\ tt.acceptanceQueue = kk.acceptanceQueue
  /\ tt.runQueue = kk.runQueue /\ tt.nextKpid = kk.nextKpid /\ tt.live = kk.live
  /\ tt.terminated = kk.terminated /\ tt.sends = kk.sends /\ tt.external = kk.external
  /\ tt.awaiting = kk.awaiting /\ tt.handedOn = kk.handedOn /\ tt.failed = kk.failed
  /\ \A q \in Promises :
       /\ tt.promises[q].state = kk.promises[q].state
       /\ tt.promises[q].decider = kk.promises[q].decider
       /\ tt.promises[q].subscribers = kk.promises[q].subscribers
       /\ tt.promises[q].queue = kk.promises[q].queue
       /\ tt.promises[q].data = kk.promises[q].data
       /\ tt.promises[q].refCount = IF q = p THEN n ELSE kk.promises[q].refCount

LEMMA RecountIs ==
  ASSUME NEW kk \in KernelState, NEW p \in Promises, NEW n \in Nat, NEW free \in Seq(Promises),
         NEW tt, tt = [kk EXCEPT !.promises[p].refCount = n, !.maybeFree = free]
  PROVE  Recounted(kk, tt, p, n)
<1> DEFINE r == kk.promises[p]
           s == [r EXCEPT !.refCount = n]
           P == [kk.promises EXCEPT ![p] = s]
<1>1. r \in KernelPromise
  BY DEF KernelState
<1>2. s \in KernelPromise /\ s.state = r.state /\ s.decider = r.decider
      /\ s.subscribers = r.subscribers /\ s.queue = r.queue /\ s.data = r.data /\ s.refCount = n
  BY <1>1 DEF KernelPromise
<1>3. tt = [kk EXCEPT !.promises = P, !.maybeFree = free]
  OBVIOUS
<1> HIDE DEF s
<1>4. P \in [Promises -> KernelPromise] /\ P[p] = s /\ \A q \in Promises : q # p => P[q] = kk.promises[q]
  BY <1>2 DEF KernelState
<1> HIDE DEF P
<1>5. tt.promises = P
  BY <1>3 DEF KernelState
<1>6. tt \in KernelState
  BY <1>3, <1>4 DEF KernelState
<1>7. /\ tt.clist = kk.clist /\ tt.acceptanceQueue = kk.acceptanceQueue
      /\ tt.runQueue = kk.runQueue /\ tt.nextKpid = kk.nextKpid /\ tt.live = kk.live
      /\ tt.terminated = kk.terminated /\ tt.sends = kk.sends /\ tt.external = kk.external
      /\ tt.awaiting = kk.awaiting /\ tt.handedOn = kk.handedOn /\ tt.failed = kk.failed
  BY <1>3 DEF KernelState
<1> QED
  BY <1>2, <1>4, <1>5, <1>6, <1>7 DEF Recounted

LEMMA IncrementIs ==
  ASSUME NEW kk \in KernelState, NEW p \in Promises, HasKernelPromise(kk, p)
  PROVE  Recounted(kk, IncrementRefCount(kk, p), p, kk.promises[p].refCount + 1)
<1> DEFINE n == kk.promises[p].refCount + 1
           free == kk.maybeFree
           tt == [kk EXCEPT !.promises[p].refCount = n, !.maybeFree = free]
<1>1. n \in Nat /\ free \in Seq(Promises)
  BY DEF KernelState, KernelPromise
<1>2. IncrementRefCount(kk, p) = tt
  BY DEF IncrementRefCount, KernelState
<1> HIDE DEF n, free, tt
<1>3. Recounted(kk, tt, p, n)
  BY <1>1, RecountIs DEF tt
<1> QED
  BY <1>2, <1>3 DEF n

LEMMA DecrementIs ==
  ASSUME NEW kk \in KernelState, NEW p \in Promises, kk.promises[p].refCount # 0
  PROVE  Recounted(kk, DecrementRefCount(kk, p), p, kk.promises[p].refCount - 1)
<1> DEFINE n == kk.promises[p].refCount - 1
           less == [kk EXCEPT !.promises[p].refCount = n]
           free == IF kk.promises[p].refCount = 1 /\ ~Contains(kk.maybeFree, p)
                   THEN Append(kk.maybeFree, p) ELSE kk.maybeFree
           tt == [kk EXCEPT !.promises[p].refCount = n, !.maybeFree = free]
<1>1. n \in Nat /\ free \in Seq(Promises)
  BY DEF KernelState, KernelPromise
<1>2. DecrementRefCount(kk, p) = tt
  BY DEF DecrementRefCount, KernelState
<1> HIDE DEF n, free, tt
<1>3. Recounted(kk, tt, p, n)
  BY <1>1, RecountIs DEF tt
<1> QED
  BY <1>2, <1>3 DEF n

-----------------------------------------------------------------------------
(* The references to a promise from the queues.                            *)

TargetRefs(S, p) == Cardinality({e \in S : e.target = Promise(p)})
ArgRefs(S, p) == Cardinality({e \in S : e.arg = Promise(p)})
ResultRefs(S, p) == Cardinality({e \in S : e.result = p})
NoticesOf(p) == [type : {"notify"}, vat : Vats, kpid : {p}]
Tally(q, S) == CountIn(q[0], S) + CountIn(q[-1], S)
QueueRefs(q, p) ==
  LET S == Of(q, "send")
  IN TargetRefs(S, p) + ArgRefs(S, p) + ResultRefs(S, p) + Tally(q, NoticesOf(p))

One(b) == IF b THEN 1 ELSE 0
\* The references of an event to a promise.
Owed(e, p) ==
  IF e.type = "send" THEN One(e.target = Promise(p)) + One(e.arg = Promise(p)) + One(e.result = p)
  ELSE IF e.type = "notify" THEN One(e.kpid = p) ELSE 0

\* The queues of a state: only sends wait for a promise.
Family(q) ==
  /\ DOMAIN q = QueueIds /\ \A i \in QueueIds : q[i] \in Seq(Event)
  /\ \A p \in Promises : q[p] \in Seq(Send)
  /\ Unique(q)

LEMMA ConstantsAre ==
  /\ NVats \in Nat /\ NPromises \in Nat /\ MaxSends \in Nat
  /\ IsFiniteSet(Vats) /\ IsFiniteSet(Promises) /\ NoVat \notin Vats /\ NoPromise \notin Promises
  /\ Vats \in SUBSET Nat /\ Promises \in SUBSET Nat /\ AdminVat \in Vats
  /\ \A p \in Promises : p \in QueueIds /\ p # 0 /\ p # -1
  /\ 0 \in QueueIds /\ -1 \in QueueIds
<1>1. NVats \in Nat \ {0} /\ NPromises \in Nat /\ MaxSends \in Nat
  BY SizesAssumption
<1>2. IsFiniteSet(1..NVats) /\ IsFiniteSet(1..NPromises)
  BY <1>1, FS_Interval
<1> QED
  BY <1>1, <1>2 DEF Vats, Promises, NoVat, NoPromise, AdminVat, QueueIds

LEMMA EventTypes ==
  /\ \A e \in Event : e.type \in {"send", "notify", "upgrade-vat"}
  /\ \A e \in Event : e.type = "send" <=> e \in Send
  /\ \A e \in Event : e.type = "notify" <=> e \in Notification
  /\ \A e \in Event : e.type = "upgrade-vat" <=> e \in UpgradeEvent
BY DEF Event, Send, Notification, UpgradeEvent

LEMMA SendsAreFinite ==
  ASSUME NEW q, Family(q)
  PROVE  /\ Of(q, "send") \in SUBSET Send /\ IsFiniteSet(Of(q, "send"))
         /\ Of(q, "notify") \in SUBSET Notification
<1> DEFINE S == Of(q, "send")
<1>1. \A f : f \in S <=> f.type = "send" /\ At(q, f)
  BY OfIs
<1>2. \A f : f \in Of(q, "notify") <=> f.type = "notify" /\ At(q, f)
  BY OfIs
<1>3. \A f : At(q, f) => f \in Event
  BY DEF At, Family
<1>4. S \in SUBSET Send /\ Of(q, "notify") \in SUBSET Notification
  BY <1>1, <1>2, <1>3, EventTypes
<1>5. ASSUME NEW f \in S, NEW g \in S, f.number = g.number
      PROVE  f = g
  BY <1>1, <1>5 DEF At, Family, Unique
<1>6. \A f \in S : f.number \in 1..MaxSends
  BY <1>4 DEF Send
<1> HIDE DEF S
<1> DEFINE num == [f \in S |-> f.number]
<1>7. num \in Injection(S, 1..MaxSends)
  BY <1>5, <1>6 DEF Injection, IsInjective
<1>8. IsFiniteSet(1..MaxSends)
  BY ConstantsAre, FS_Interval
<1>9. IsFiniteSet(S)
  BY <1>7, <1>8, FS_Injection
<1> QED
  BY <1>4, <1>9 DEF S

LEMMA OneMore ==
  ASSUME NEW A, IsFiniteSet(A), NEW e, e \notin A, NEW b \in BOOLEAN,
         NEW B, B = IF b THEN A \cup {e} ELSE A
  PROVE  Cardinality(B) = Cardinality(A) + One(b) /\ Cardinality(A) \in Nat
<1>1. Cardinality(A) \in Nat
  BY FS_CardinalityType
<1>2. CASE b
  BY <1>1, <1>2, FS_AddElement DEF One
<1>3. CASE ~b
  BY <1>1, <1>3 DEF One
<1> QED
  BY <1>2, <1>3

RefsAdd(S, T, e, p) ==
  /\ TargetRefs(T, p) = TargetRefs(S, p) + One(e.target = Promise(p)) /\ TargetRefs(S, p) \in Nat
  /\ ArgRefs(T, p) = ArgRefs(S, p) + One(e.arg = Promise(p)) /\ ArgRefs(S, p) \in Nat
  /\ ResultRefs(T, p) = ResultRefs(S, p) + One(e.result = p) /\ ResultRefs(S, p) \in Nat

LEMMA OneMoreSend ==
  ASSUME NEW S, IsFiniteSet(S), NEW e, e \notin S, NEW T, T = S \cup {e}, NEW p
  PROVE  RefsAdd(S, T, e, p)
<1>1. /\ IsFiniteSet({f \in S : f.target = Promise(p)}) /\ IsFiniteSet({f \in S : f.arg = Promise(p)})
      /\ IsFiniteSet({f \in S : f.result = p})
  BY FS_Subset
<1>2. TargetRefs(T, p) = TargetRefs(S, p) + One(e.target = Promise(p)) /\ TargetRefs(S, p) \in Nat
  <2> DEFINE A == {f \in S : f.target = Promise(p)}
             B == {f \in T : f.target = Promise(p)}
             b == e.target = Promise(p)
  <2>1. IsFiniteSet(A) /\ e \notin A /\ b \in BOOLEAN /\ B = IF b THEN A \cup {e} ELSE A
    BY <1>1
  <2>2. TargetRefs(T, p) = Cardinality(B) /\ TargetRefs(S, p) = Cardinality(A)
    BY DEF TargetRefs
  <2>3. One(b) = One(e.target = Promise(p))
    OBVIOUS
  <2> HIDE DEF A, B, b
  <2>4. Cardinality(B) = Cardinality(A) + One(b) /\ Cardinality(A) \in Nat
    BY <2>1, OneMore
  <2> QED
    BY <2>2, <2>3, <2>4
<1>3. ArgRefs(T, p) = ArgRefs(S, p) + One(e.arg = Promise(p)) /\ ArgRefs(S, p) \in Nat
  <2> DEFINE A == {f \in S : f.arg = Promise(p)}
             B == {f \in T : f.arg = Promise(p)}
             b == e.arg = Promise(p)
  <2>1. IsFiniteSet(A) /\ e \notin A /\ b \in BOOLEAN /\ B = IF b THEN A \cup {e} ELSE A
    BY <1>1
  <2>2. ArgRefs(T, p) = Cardinality(B) /\ ArgRefs(S, p) = Cardinality(A)
    BY DEF ArgRefs
  <2>3. One(b) = One(e.arg = Promise(p))
    OBVIOUS
  <2> HIDE DEF A, B, b
  <2>4. Cardinality(B) = Cardinality(A) + One(b) /\ Cardinality(A) \in Nat
    BY <2>1, OneMore
  <2> QED
    BY <2>2, <2>3, <2>4
<1>4. ResultRefs(T, p) = ResultRefs(S, p) + One(e.result = p) /\ ResultRefs(S, p) \in Nat
  <2> DEFINE A == {f \in S : f.result = p}
             B == {f \in T : f.result = p}
             b == e.result = p
  <2>1. IsFiniteSet(A) /\ e \notin A /\ b \in BOOLEAN /\ B = IF b THEN A \cup {e} ELSE A
    BY <1>1
  <2>2. ResultRefs(T, p) = Cardinality(B) /\ ResultRefs(S, p) = Cardinality(A)
    BY DEF ResultRefs
  <2>3. One(b) = One(e.result = p)
    OBVIOUS
  <2> HIDE DEF A, B, b
  <2>4. Cardinality(B) = Cardinality(A) + One(b) /\ Cardinality(A) \in Nat
    BY <2>1, OneMore
  <2> QED
    BY <2>2, <2>3, <2>4
<1> QED
  BY <1>2, <1>3, <1>4 DEF RefsAdd

LEMMA QueueRefsType ==
  ASSUME NEW q, Family(q), NEW p
  PROVE  /\ TargetRefs(Of(q, "send"), p) \in Nat /\ ArgRefs(Of(q, "send"), p) \in Nat
         /\ ResultRefs(Of(q, "send"), p) \in Nat
         /\ CountIn(q[0], NoticesOf(p)) \in Nat /\ CountIn(q[-1], NoticesOf(p)) \in Nat
         /\ QueueRefs(q, p) \in Nat
         /\ Tally(q, UpgradeEvent) \in Nat
<1> DEFINE S == Of(q, "send")
<1>1. IsFiniteSet(S)
  BY SendsAreFinite
<1>2. q[0] \in Seq(Event) /\ q[-1] \in Seq(Event)
  BY ConstantsAre DEF Family
<1>3. CountIn(q[0], NoticesOf(p)) \in Nat /\ CountIn(q[-1], NoticesOf(p)) \in Nat
  BY <1>2, CountSet
<1>4. CountIn(q[0], UpgradeEvent) \in Nat /\ CountIn(q[-1], UpgradeEvent) \in Nat
  BY <1>2, CountSet
<1> HIDE DEF S
<1>5. /\ IsFiniteSet({f \in S : f.target = Promise(p)}) /\ IsFiniteSet({f \in S : f.arg = Promise(p)})
      /\ IsFiniteSet({f \in S : f.result = p})
  BY <1>1, FS_Subset
<1>6. TargetRefs(S, p) \in Nat /\ ArgRefs(S, p) \in Nat /\ ResultRefs(S, p) \in Nat
  BY <1>5, FS_CardinalityType DEF TargetRefs, ArgRefs, ResultRefs
<1>7. QueueRefs(q, p) \in Nat
  BY <1>3, <1>6 DEF QueueRefs, Tally, S
<1> QED
  BY <1>3, <1>4, <1>6, <1>7 DEF S, Tally

\* r is q with e put on one of its queues.
Put(q, r, e) ==
  /\ Family(q) /\ Family(r) /\ e \in Event
  /\ e.type = "send" => Of(r, "send") = Of(q, "send") \cup {e} /\ Fresh(q, e)
  /\ e.type # "send" => Of(r, "send") = Of(q, "send")
  /\ e.type = "notify" => Of(r, "notify") \subseteq Of(q, "notify") \cup {e}
  /\ e.type = "notify" => Of(q, "notify") \subseteq Of(r, "notify") /\ e \in Of(r, "notify")
  /\ e.type # "notify" => Of(r, "notify") = Of(q, "notify")
  /\ \A p \in Promises : QueueRefs(r, p) = QueueRefs(q, p) + Owed(e, p)
  /\ Tally(r, UpgradeEvent) = Tally(q, UpgradeEvent) + One(e.type = "upgrade-vat")

LEMMA OwedIs ==
  ASSUME NEW e \in Event, NEW p \in Promises
  PROVE  /\ e \in NoticesOf(p) <=> e.type = "notify" /\ e.kpid = p
         /\ e \in UpgradeEvent <=> e.type = "upgrade-vat"
         /\ Owed(e, p) \in Nat
BY DEF Event, Send, Notification, UpgradeEvent, NoticesOf, Owed, One

\* The counts follow from what is in the queues.
Shift(q, r, S, d) == Tally(r, S) = Tally(q, S) + d

LEMMA RefsFollow ==
  ASSUME NEW q, NEW r, Family(q), Family(r), NEW e \in Event,
         e.type = "send" => Of(r, "send") = Of(q, "send") \cup {e} /\ e \notin Of(q, "send"),
         e.type # "send" => Of(r, "send") = Of(q, "send"),
         NEW p \in Promises, Shift(q, r, NoticesOf(p), One(e \in NoticesOf(p)))
  PROVE  QueueRefs(r, p) = QueueRefs(q, p) + Owed(e, p)
<1> DEFINE S == Of(q, "send")
           T == Of(r, "send")
<1>1. /\ TargetRefs(S, p) \in Nat /\ ArgRefs(S, p) \in Nat /\ ResultRefs(S, p) \in Nat
      /\ CountIn(q[0], NoticesOf(p)) \in Nat /\ CountIn(q[-1], NoticesOf(p)) \in Nat
      /\ CountIn(r[0], NoticesOf(p)) \in Nat /\ CountIn(r[-1], NoticesOf(p)) \in Nat
  BY QueueRefsType
<1>2. Tally(q, NoticesOf(p)) \in Nat /\ Tally(r, NoticesOf(p)) \in Nat
  BY <1>1 DEF Tally
<1>3. IsFiniteSet(S)
  BY SendsAreFinite
<1>4. e \in NoticesOf(p) <=> e.type = "notify" /\ e.kpid = p
  BY OwedIs
<1>5. /\ QueueRefs(q, p) = TargetRefs(S, p) + ArgRefs(S, p) + ResultRefs(S, p) + Tally(q, NoticesOf(p))
      /\ QueueRefs(r, p) = TargetRefs(T, p) + ArgRefs(T, p) + ResultRefs(T, p) + Tally(r, NoticesOf(p))
  BY DEF QueueRefs
<1>6. CASE e.type = "send"
  <2>1. T = S \cup {e} /\ e \notin S
    BY <1>6
  <2> HIDE DEF S, T
  <2>2. RefsAdd(S, T, e, p)
    BY <1>3, <2>1, OneMoreSend
  <2>3. Tally(r, NoticesOf(p)) = Tally(q, NoticesOf(p))
    BY <1>2, <1>4, <1>6 DEF Shift, One
  <2>4. Owed(e, p) = One(e.target = Promise(p)) + One(e.arg = Promise(p)) + One(e.result = p)
    BY <1>6 DEF Owed
  <2>5. One(e.target = Promise(p)) \in Nat /\ One(e.arg = Promise(p)) \in Nat /\ One(e.result = p) \in Nat
    BY DEF One
  <2> QED
    BY <1>1, <1>2, <1>5, <2>2, <2>3, <2>4, <2>5 DEF RefsAdd
<1>7. CASE e.type # "send"
  <2>1. T = S
    BY <1>7
  <2>2. One(e \in NoticesOf(p)) = Owed(e, p) /\ Owed(e, p) \in Nat
    BY <1>4, <1>7 DEF Owed, One
  <2> HIDE DEF S, T
  <2> QED
    BY <1>1, <1>2, <1>5, <2>1, <2>2 DEF Shift
<1> QED
  BY <1>6, <1>7

-----------------------------------------------------------------------------
(* Putting an event on a queue, taking it off, moving a whole queue.       *)

LEMMA CountsFollow ==
  ASSUME NEW q, NEW r, Family(q), Family(r), NEW e \in Event, NEW i \in QueueIds,
         Changed(q, r, i, Append(q[i], e)), i \in Promises => e \in Send, NEW S,
         S \cap Send = {}
  PROVE  Shift(q, r, S, One(e \in S))
<1>1. /\ q[0] \in Seq(Event) /\ q[-1] \in Seq(Event)
      /\ CountIn(q[0], S) \in Nat /\ CountIn(q[-1], S) \in Nat
  BY CountSet, ConstantsAre DEF Family
<1>2. i = 0 \/ i = -1 \/ i \in Promises
  BY ConstantsAre DEF QueueIds, Promises
<1>3. CASE i = 0
  <2>1. r[0] = Append(q[0], e) /\ r[-1] = q[-1]
    BY <1>3, ConstantsAre DEF Changed, Family
  <2>2. CountIn(r[0], S) = CountIn(q[0], S) + One(e \in S)
    BY <1>1, <2>1, CountAppend DEF One
  <2> QED
    BY <1>1, <2>1, <2>2 DEF Shift, Tally, One
<1>4. CASE i = -1
  <2>1. r[-1] = Append(q[-1], e) /\ r[0] = q[0]
    BY <1>4, ConstantsAre DEF Changed, Family
  <2>2. CountIn(r[-1], S) = CountIn(q[-1], S) + One(e \in S)
    BY <1>1, <2>1, CountAppend DEF One
  <2> QED
    BY <1>1, <2>1, <2>2 DEF Shift, Tally, One
<1>5. CASE i \in Promises
  <2>1. r[-1] = q[-1] /\ r[0] = q[0]
    BY <1>5, ConstantsAre DEF Changed, Family
  <2>2. ~(e \in S)
    BY <1>5
  <2> QED
    BY <1>1, <2>1, <2>2 DEF Shift, Tally, One
<1> QED
  BY <1>2, <1>3, <1>4, <1>5

LEMMA NoSendIsOther ==
  /\ UpgradeEvent \cap Send = {}
  /\ \A p : NoticesOf(p) \cap Send = {}
BY DEF UpgradeEvent, Send, NoticesOf

\* r is q with e put on one of its queues, seen from either side.
LEMMA PutFollows ==
  ASSUME NEW q, NEW r, Family(q), Family(r), NEW e \in Event,
         \A f : At(r, f) <=> At(q, f) \/ f = e, Fresh(q, e),
         \A p \in Promises : Shift(q, r, NoticesOf(p), One(e \in NoticesOf(p))),
         Shift(q, r, UpgradeEvent, One(e \in UpgradeEvent))
  PROVE  Put(q, r, e)
<1>1. /\ \A f : f \in Of(q, "send") <=> f.type = "send" /\ At(q, f)
      /\ \A f : f \in Of(r, "send") <=> f.type = "send" /\ At(r, f)
      /\ \A f : f \in Of(q, "notify") <=> f.type = "notify" /\ At(q, f)
      /\ \A f : f \in Of(r, "notify") <=> f.type = "notify" /\ At(r, f)
  BY OfIs
<1>2. /\ e.type = "send" => Of(r, "send") = Of(q, "send") \cup {e}
      /\ e.type # "send" => Of(r, "send") = Of(q, "send")
      /\ e.type = "notify" => Of(r, "notify") = Of(q, "notify") \cup {e}
      /\ e.type # "notify" => Of(r, "notify") = Of(q, "notify")
  BY <1>1
<1>3. e.type = "send" => e \notin Of(q, "send")
  BY DEF Fresh
<1>4. ASSUME NEW p \in Promises
      PROVE  QueueRefs(r, p) = QueueRefs(q, p) + Owed(e, p)
  BY <1>2, <1>3, RefsFollow
<1>5. Tally(r, UpgradeEvent) = Tally(q, UpgradeEvent) + One(e.type = "upgrade-vat")
  <2>1. e \in UpgradeEvent <=> e.type = "upgrade-vat"
    BY EventTypes
  <2> QED
    BY <2>1 DEF Shift, One
<1> QED
  BY <1>2, <1>4, <1>5 DEF Put

LEMMA PutIs ==
  ASSUME NEW q, NEW r, Family(q), NEW e \in Event, NEW i \in QueueIds,
         Changed(q, r, i, Append(q[i], e)), i \in Promises => e \in Send, Fresh(q, e)
  PROVE  Put(q, r, e)
<1>1. DOMAIN q = QueueIds /\ (\A j \in DOMAIN q : q[j] \in Seq(Event)) /\ Unique(q)
  BY DEF Family
<1>2. /\ DOMAIN r = DOMAIN q /\ \A j \in DOMAIN q : r[j] \in Seq(Event)
      /\ \A f : At(r, f) <=> At(q, f) \/ f = e
  BY <1>1, AppendAt
<1>3. Unique(r)
  BY <1>1, AppendUnique
<1>4. \A p \in Promises : r[p] \in Seq(Send)
  <2> TAKE p \in Promises
  <2>1. p \in QueueIds /\ q[p] \in Seq(Send)
    BY ConstantsAre DEF Family
  <2>2. CASE p = i
    BY <2>1, <2>2 DEF Changed
  <2>3. CASE p # i
    BY <1>1, <2>1, <2>3 DEF Changed
  <2> QED
    BY <2>2, <2>3
<1>5. Family(r)
  BY <1>1, <1>2, <1>3, <1>4 DEF Family
<1>6. ASSUME NEW S, S \cap Send = {}
      PROVE  Shift(q, r, S, One(e \in S))
  BY <1>5, <1>6, CountsFollow
<1> QED
  BY <1>2, <1>5, <1>6, PutFollows, NoSendIsOther

\* Taking the head off is the converse.
LEMMA TakeIs ==
  ASSUME NEW q, NEW r, Family(q), NEW i \in {0, -1}, q[i] # <<>>,
         Changed(q, r, i, Tail(q[i]))
  PROVE  Put(r, q, Head(q[i]))
<1> DEFINE e == Head(q[i])
<1>0. i \in QueueIds /\ i \notin Promises
  BY ConstantsAre
<1>1. DOMAIN q = QueueIds /\ (\A j \in DOMAIN q : q[j] \in Seq(Event)) /\ Unique(q)
  BY DEF Family
<1>2. /\ DOMAIN r = DOMAIN q /\ \A j \in DOMAIN q : r[j] \in Seq(Event)
      /\ e \in Event /\ At(q, e)
      /\ \A f : At(r, f) => At(q, f)
      /\ \A f : At(q, f) => At(r, f) \/ f = e
      /\ Fresh(r, e)
      /\ Unique(r)
  BY <1>0, <1>1, TailAt
<1>3. \A p \in Promises : r[p] \in Seq(Send)
  BY <1>0, <1>1, ConstantsAre DEF Family, Changed
<1>4. Family(r)
  BY <1>1, <1>2, <1>3 DEF Family
<1>5. ASSUME NEW S
      PROVE  Shift(r, q, S, One(e \in S))
  <2>1. /\ q[0] \in Seq(Event) /\ q[-1] \in Seq(Event) /\ r[0] \in Seq(Event) /\ r[-1] \in Seq(Event)
    BY <1>1, <1>2, ConstantsAre
  <2>2. CountIn(r[0], S) \in Nat /\ CountIn(r[-1], S) \in Nat
    BY <2>1, CountSet
  <2>3. CountIn(q[i], S) = CountIn(Tail(q[i]), S) + One(e \in S)
    BY <1>0, <1>1, CountTail DEF One
  <2>4. r[i] = Tail(q[i]) /\ (i = 0 => r[-1] = q[-1]) /\ (i = -1 => r[0] = q[0])
    BY <1>1, ConstantsAre DEF Changed
  <2>5. One(e \in S) \in Nat
    BY DEF One
  <2>6. CASE i = 0
    <3>1. CountIn(q[0], S) = CountIn(r[0], S) + One(e \in S) /\ CountIn(q[-1], S) = CountIn(r[-1], S)
      BY <2>3, <2>4, <2>6
    <3> QED
      BY <2>2, <2>5, <3>1 DEF Shift, Tally
  <2>7. CASE i = -1
    <3>1. CountIn(q[-1], S) = CountIn(r[-1], S) + One(e \in S) /\ CountIn(q[0], S) = CountIn(r[0], S)
      BY <2>3, <2>4, <2>7
    <3> QED
      BY <2>2, <2>5, <3>1 DEF Shift, Tally
  <2> QED
    BY <2>6, <2>7
<1> HIDE DEF e
<1>6. \A f : At(q, f) <=> At(r, f) \/ f = e
  BY <1>2
<1>7. Put(r, q, e)
  BY <1>2, <1>4, <1>5, <1>6, PutFollows
<1> QED
  BY <1>7 DEF e

\* r holds what q holds.
Alike(q, r) ==
  /\ Family(r)
  /\ Of(r, "send") = Of(q, "send") /\ Of(r, "notify") = Of(q, "notify")
  /\ \A p \in Promises : QueueRefs(r, p) = QueueRefs(q, p)
  /\ Tally(r, UpgradeEvent) = Tally(q, UpgradeEvent)

LEMMA MoveIs ==
  ASSUME NEW q, NEW r, Family(q), NEW p1 \in Promises, Moved(q, r, 0, p1)
  PROVE  Alike(q, r)
<1>0. 0 \in QueueIds /\ -1 \in QueueIds /\ p1 \in QueueIds /\ p1 # 0 /\ p1 # -1
  BY ConstantsAre
<1>1. DOMAIN q = QueueIds /\ (\A j \in DOMAIN q : q[j] \in Seq(Event)) /\ Unique(q)
      /\ q[p1] \in Seq(Send)
  BY DEF Family
<1>2. /\ DOMAIN r = DOMAIN q /\ \A j \in DOMAIN q : r[j] \in Seq(Event)
      /\ \A f : At(r, f) <=> At(q, f)
      /\ Unique(r)
  BY <1>0, <1>1, MoveAt
<1>3. \A p \in Promises : r[p] \in Seq(Send)
  <2> TAKE p \in Promises
  <2>1. p \in QueueIds /\ p # 0 /\ q[p] \in Seq(Send)
    BY ConstantsAre DEF Family
  <2>2. CASE p = p1
    <3>1. r[p1] = <<>>
      BY DEF Moved
    <3>2. << >> \in Seq(Send)
      OBVIOUS
    <3> QED
      BY <2>2, <3>1, <3>2
  <2>3. CASE p # p1
    BY <1>1, <2>1, <2>3 DEF Moved
  <2> QED
    BY <2>2, <2>3
<1>4. Family(r)
  BY <1>1, <1>2, <1>3 DEF Family
<1>5. Of(r, "send") = Of(q, "send") /\ Of(r, "notify") = Of(q, "notify")
  <2>1. /\ \A f : f \in Of(q, "send") <=> f.type = "send" /\ At(q, f)
        /\ \A f : f \in Of(r, "send") <=> f.type = "send" /\ At(r, f)
        /\ \A f : f \in Of(q, "notify") <=> f.type = "notify" /\ At(q, f)
        /\ \A f : f \in Of(r, "notify") <=> f.type = "notify" /\ At(r, f)
    BY OfIs
  <2> QED
    BY <1>2, <2>1
<1>6. ASSUME NEW S, S \cap Send = {}
      PROVE  Tally(r, S) = Tally(q, S)
  <2>1. r[0] = q[0] \o q[p1] /\ r[-1] = q[-1]
    BY <1>0, <1>1 DEF Moved
  <2>2. q[0] \in Seq(Event) /\ q[p1] \in Seq(Event)
    BY <1>0, <1>1
  <2>3. CountIn(q[p1], S) = 0 /\ CountIn(q[0], S) \in Nat
    BY <1>1, <1>6, <2>2, CountNone, CountSet
  <2>4. CountIn(q[0] \o q[p1], S) = CountIn(q[0], S) + CountIn(q[p1], S)
    BY <2>2, CountConcat
  <2>5. CountIn(r[0], S) = CountIn(q[0], S)
    BY <2>1, <2>3, <2>4
  <2> QED
    BY <2>1, <2>5 DEF Tally
<1>7. \A p \in Promises : QueueRefs(r, p) = QueueRefs(q, p)
  BY <1>5, <1>6, NoSendIsOther DEF QueueRefs
<1> QED
  BY <1>4, <1>5, <1>6, <1>7, NoSendIsOther DEF Alike

-----------------------------------------------------------------------------
(* What holds of every state between the operations of a crank, and what   *)
(* an operation may leave for a later one to put right.                    *)

HeldBy(kk, p) == Cardinality({v \in Vats : p \in kk.clist[v]})
DataRefs(kk, p) == Cardinality({q \in Promises : kk.promises[q].data = Promise(p)})
Refs(kk, p) == HeldBy(kk, p) + QueueRefs(Queues(kk), p) + kk.external[p] + DataRefs(kk, p)
\* The references counted for which the kernel has no place yet.
Excess(kk, p) == kk.promises[p].refCount - Refs(kk, p)

Undecided(kk, p) == Unresolved(kk, p) /\ kk.promises[p].decider = NoVat
TableOK(kk) ==
  \A p \in Promises :
    LET r == kk.promises[p]
    IN /\ p >= kk.nextKpid => r.state = "absent"
       /\ r.state = "absent" => r.refCount = 0 /\ r.data = NoSlot
       /\ r.state # "unresolved" => r.decider = NoVat /\ r.subscribers = {} /\ r.queue = <<>>
       /\ r.state = "unresolved" => r.data = NoSlot
       /\ \A a \in DOMAIN r.queue : r.queue[a].target = Promise(p)
Numbered(kk) == Unique(Queues(kk)) /\ \A e \in Sends(kk) : e.number <= kk.sends
Resolvers(kk) ==
  /\ \A e \in Sends(kk) : e.result # NoPromise => Undecided(kk, e.result)
  /\ \A e, f \in Sends(kk) : e.result # NoPromise /\ e.result = f.result => e = f
Ended(kk) == \A i \in DOMAIN kk.terminated : kk.terminated[i] \notin kk.live

Base(kk) ==
  /\ kk \in KernelState /\ kk.failed = FALSE
  /\ TableOK(kk) /\ Numbered(kk) /\ Resolvers(kk) /\ Ended(kk)
  /\ \A p \in Promises : Excess(kk, p) >= 0

\* Promises nobody will resolve, deciders that could not, notifications of
\* what is not settled, and vats that will not be told of what they wait for.
Orphans(kk) == {p \in Promises : Undecided(kk, p) /\ \A e \in Sends(kk) : e.result # p}
Decided(kk, v, p) == kk.promises[p].decider = v /\ v # NoVat
Unfit(kk) ==
  {d \in Vats \X Promises :
     Decided(kk, d[1], d[2]) /\ ~(d[1] \in kk.live /\ d[2] \in kk.clist[d[1]])}
Early(kk) == {e \in Notices(kk) : ~Settled(kk, e.kpid)}
Told(kk, v, p) ==
  /\ p \in kk.clist[v]
  /\ IF Unresolved(kk, p) THEN v \in kk.promises[p].subscribers
     ELSE \E e \in Notices(kk) : e.vat = v /\ e.kpid = p
Unheard(kk) ==
  {d \in Vats \X Promises :
     d[1] \in kk.live /\ d[2] \in kk.awaiting[d[1]] /\ ~Told(kk, d[1], d[2])}

NoWorse(kk, tt) ==
  /\ Orphans(tt) \subseteq Orphans(kk) /\ Unfit(tt) \subseteq Unfit(kk)
  /\ Early(tt) \subseteq Early(kk) /\ Unheard(tt) \subseteq Unheard(kk)

\* Nothing is left to put right.
Good(kk) ==
  /\ Base(kk) /\ \A p \in Promises : Excess(kk, p) = 0
  /\ Orphans(kk) = {} /\ Unfit(kk) = {} /\ Early(kk) = {} /\ Unheard(kk) = {}

Upgrading(kk) == Tally(Queues(kk), UpgradeEvent)
\* What the budget of a behaviour depends on.
SameBudget(kk, tt) ==
  tt.nextKpid = kk.nextKpid /\ tt.sends = kk.sends /\ tt.live = kk.live /\ Upgrading(tt) = Upgrading(kk)

LEMMA QueuesAre ==
  ASSUME NEW kk \in KernelState
  PROVE  /\ DOMAIN Queues(kk) = QueueIds
         /\ \A i \in QueueIds : Queues(kk)[i] \in Seq(Event)
         /\ \A p \in Promises : Queues(kk)[p] = kk.promises[p].queue
                                /\ kk.promises[p].queue \in Seq(Send)
         /\ Queues(kk)[0] = kk.acceptanceQueue /\ Queues(kk)[-1] = kk.runQueue
<1>1. /\ kk.acceptanceQueue \in Seq(Event) /\ kk.runQueue \in Seq(Event)
      /\ \A p \in Promises : kk.promises[p].queue \in Seq(Send)
  BY DEF KernelState, KernelPromise
<1>2. \A q \in Seq(Send) : q \in Seq(Event)
  BY DEF Event
<1>3. \A i \in QueueIds : i = -1 \/ i = 0 \/ i \in Promises
  BY ConstantsAre DEF QueueIds, Promises
<1>4. DOMAIN Queues(kk) = QueueIds
  BY DEF Queues
<1>5. \A p \in Promises : Queues(kk)[p] = kk.promises[p].queue
  BY ConstantsAre DEF Queues
<1>6. Queues(kk)[0] = kk.acceptanceQueue /\ Queues(kk)[-1] = kk.runQueue
  BY ConstantsAre DEF Queues
<1>7. ASSUME NEW i \in QueueIds
      PROVE  Queues(kk)[i] \in Seq(Event)
  <2>1. CASE i \in Promises
    <3>1. Queues(kk)[i] = kk.promises[i].queue /\ kk.promises[i].queue \in Seq(Send)
      BY <1>1, <1>5, <2>1
    <3> QED
      BY <1>2, <3>1
  <2>2. CASE i \notin Promises
    <3>1. i = -1 \/ i = 0
      BY <1>3, <2>2
    <3> QED
      BY <1>1, <1>6, <3>1
  <2> QED
    BY <2>1, <2>2
<1> QED
  BY <1>1, <1>4, <1>5, <1>6, <1>7

LEMMA FamilyIs ==
  ASSUME NEW kk \in KernelState, Unique(Queues(kk))
  PROVE  /\ Family(Queues(kk))
         /\ Sends(kk) \in SUBSET Send /\ Notices(kk) \in SUBSET Notification
         /\ IsFiniteSet(Sends(kk))
<1>1. Family(Queues(kk))
  BY QueuesAre DEF Family
<1> QED
  BY <1>1, SendsAreFinite DEF Sends, Notices

LEMMA CountedIn ==
  ASSUME NEW S, IsFiniteSet(S), NEW T \in SUBSET S
  PROVE  Cardinality(T) \in Nat /\ IsFiniteSet(T) /\ (T # {} => Cardinality(T) >= 1)
<1>1. IsFiniteSet(T)
  BY FS_Subset
<1>2. Cardinality(T) \in Nat
  BY <1>1, FS_CardinalityType
<1>3. Cardinality(T) = 0 <=> T = {}
  BY <1>1, FS_EmptySet
<1> QED
  BY <1>1, <1>2, <1>3

LEMMA RefsType ==
  ASSUME NEW kk \in KernelState, Unique(Queues(kk)), NEW p \in Promises
  PROVE  /\ HeldBy(kk, p) \in Nat /\ QueueRefs(Queues(kk), p) \in Nat /\ kk.external[p] \in Nat
         /\ DataRefs(kk, p) \in Nat /\ Refs(kk, p) \in Nat
         /\ kk.promises[p].refCount \in Nat /\ Excess(kk, p) \in Int
<1>1. Family(Queues(kk))
  BY FamilyIs
<1>2. QueueRefs(Queues(kk), p) \in Nat
  BY <1>1, QueueRefsType
<1>3. HeldBy(kk, p) \in Nat
  BY ConstantsAre, CountedIn DEF HeldBy
<1>4. DataRefs(kk, p) \in Nat
  BY ConstantsAre, CountedIn DEF DataRefs
<1>5. kk.external[p] \in Nat /\ kk.promises[p].refCount \in Nat
  BY DEF KernelState, KernelPromise
<1> QED
  BY <1>2, <1>3, <1>4, <1>5 DEF Refs, Excess

-----------------------------------------------------------------------------
(* Steps that change the counts alone.                                     *)

SameRowsButCounts(kk, tt) ==
  \A q \in Promises :
    /\ tt.promises[q].state = kk.promises[q].state
    /\ tt.promises[q].decider = kk.promises[q].decider
    /\ tt.promises[q].subscribers = kk.promises[q].subscribers
    /\ tt.promises[q].queue = kk.promises[q].queue
    /\ tt.promises[q].data = kk.promises[q].data

SameRest(kk, tt) ==
  /\ tt.acceptanceQueue = kk.acceptanceQueue
  /\ tt.runQueue = kk.runQueue /\ tt.nextKpid = kk.nextKpid /\ tt.live = kk.live
  /\ tt.terminated = kk.terminated /\ tt.sends = kk.sends /\ tt.external = kk.external
  /\ tt.awaiting = kk.awaiting /\ tt.handedOn = kk.handedOn /\ tt.failed = kk.failed

\* Nothing but counts and maybeFree differ.
Recounts(kk, tt) ==
  /\ tt \in KernelState /\ tt.clist = kk.clist
  /\ SameRest(kk, tt) /\ SameRowsButCounts(kk, tt)

LEMMA RecountsTwice ==
  ASSUME NEW k1, NEW k2, NEW k3, Recounts(k1, k2), Recounts(k2, k3)
  PROVE  Recounts(k1, k3)
BY DEF Recounts, SameRest, SameRowsButCounts

LEMMA RecountsNot ==
  ASSUME NEW kk \in KernelState
  PROVE  Recounts(kk, kk)
BY DEF Recounts, SameRest, SameRowsButCounts

LEMMA RecountedIs ==
  ASSUME NEW kk, NEW tt, NEW p \in Promises, NEW n, Recounted(kk, tt, p, n)
  PROVE  Recounts(kk, tt)
BY DEF Recounted, Recounts, SameRest, SameRowsButCounts

LEMMA RecountsRefs ==
  ASSUME NEW kk \in KernelState, NEW tt, Recounts(kk, tt)
  PROVE  /\ Queues(tt) = Queues(kk) /\ Sends(tt) = Sends(kk) /\ Notices(tt) = Notices(kk)
         /\ \A p \in Promises : Refs(tt, p) = Refs(kk, p)
<1>1. Queues(tt) = Queues(kk)
  <2>1. \A i \in QueueIds : i # -1 /\ i # 0 => i \in Promises
    BY ConstantsAre DEF QueueIds, Promises
  <2> QED
    BY <2>1 DEF Queues, Recounts, SameRest, SameRowsButCounts
<1>2. \A p \in Promises : DataRefs(tt, p) = DataRefs(kk, p)
  BY DEF DataRefs, Recounts, SameRowsButCounts
<1>3. tt.clist = kk.clist /\ tt.external = kk.external
  BY DEF Recounts, SameRest
<1> QED
  BY <1>1, <1>2, <1>3 DEF Refs, HeldBy, Sends, Notices

LEMMA RecountsGood ==
  ASSUME NEW kk, Base(kk), NEW tt, Recounts(kk, tt),
         \A p \in Promises : kk.promises[p].state = "absent" => tt.promises[p].refCount = 0,
         \A p \in Promises : Excess(tt, p) >= 0
  PROVE  Base(tt) /\ NoWorse(kk, tt) /\ SameBudget(kk, tt)
<1>1. kk \in KernelState
  BY DEF Base
<1>2. Queues(tt) = Queues(kk) /\ Sends(tt) = Sends(kk) /\ Notices(tt) = Notices(kk)
  BY <1>1, RecountsRefs
<1>3. tt \in KernelState /\ tt.failed = FALSE
  BY DEF Base, Recounts, SameRest
<1>4. TableOK(tt)
  BY DEF Base, TableOK, Recounts, SameRest, SameRowsButCounts
<1>5. Numbered(tt) /\ Ended(tt)
  BY <1>2 DEF Base, Numbered, Ended, Recounts, SameRest
<1>6. \A p \in Promises : /\ Undecided(tt, p) <=> Undecided(kk, p)
                          /\ Settled(tt, p) <=> Settled(kk, p)
                          /\ Unresolved(tt, p) <=> Unresolved(kk, p)
  BY DEF Undecided, Unresolved, Settled, Recounts, SameRowsButCounts
<1>7. Sends(kk) \in SUBSET Send /\ Notices(kk) \in SUBSET Notification
  BY <1>1, FamilyIs DEF Base, Numbered
<1>8. Resolvers(tt)
  <2>1. \A e \in Sends(kk) : e.result # NoPromise => e.result \in Promises
    BY <1>7 DEF Send
  <2> QED
    BY <1>2, <1>6, <2>1 DEF Base, Resolvers
<1>9. Orphans(tt) = Orphans(kk)
  BY <1>2, <1>6 DEF Orphans
<1>10. Unfit(tt) = Unfit(kk)
  BY DEF Unfit, Decided, Recounts, SameRest, SameRowsButCounts
<1>11. Early(tt) = Early(kk)
  <2>1. \A e \in Notices(kk) : e.kpid \in Promises
    BY <1>7 DEF Notification
  <2> QED
    BY <1>2, <1>6, <2>1 DEF Early
<1>12. Unheard(tt) = Unheard(kk)
  <2>1. \A v \in Vats, p \in Promises : Told(tt, v, p) <=> Told(kk, v, p)
    BY <1>2, <1>6 DEF Told, Recounts, SameRowsButCounts
  <2>2. tt.live = kk.live /\ tt.awaiting = kk.awaiting
    BY DEF Recounts, SameRest
  <2> QED
    BY <2>1, <2>2 DEF Unheard
<1>13. SameBudget(kk, tt)
  BY <1>2 DEF SameBudget, Upgrading, Recounts, SameRest
<1> QED
  BY <1>3, <1>4, <1>5, <1>8, <1>9, <1>10, <1>11, <1>12, <1>13 DEF Base, NoWorse

\* A step that changes the counts alone, and the excess of each promise by d.
Counts(kk, tt) == Recounts(kk, tt) /\ Base(tt) /\ NoWorse(kk, tt) /\ SameBudget(kk, tt)

LEMMA CountsTwice ==
  ASSUME NEW k1, NEW k2, NEW k3, Counts(k1, k2), Counts(k2, k3)
  PROVE  Counts(k1, k3)
<1>1. Recounts(k1, k3)
  BY RecountsTwice DEF Counts
<1> QED
  BY <1>1 DEF Counts, NoWorse, SameBudget

LEMMA CountsNot ==
  ASSUME NEW kk, Base(kk)
  PROVE  Counts(kk, kk)
<1>1. Recounts(kk, kk)
  BY RecountsNot DEF Base
<1> QED
  BY <1>1 DEF Counts, NoWorse, SameBudget

LEMMA ExcessType ==
  ASSUME NEW kk, Base(kk), NEW p \in Promises
  PROVE  Excess(kk, p) \in Int /\ Excess(kk, p) >= 0 /\ Refs(kk, p) \in Nat
         /\ kk.promises[p].refCount \in Nat /\ kk.promises[p].refCount = Refs(kk, p) + Excess(kk, p)
<1>1. kk \in KernelState /\ Unique(Queues(kk)) /\ Excess(kk, p) >= 0
  BY DEF Base, Numbered
<1>2. Refs(kk, p) \in Nat /\ kk.promises[p].refCount \in Nat
  BY <1>1, RefsType
<1> QED
  BY <1>1, <1>2 DEF Excess

\* A promise that is referred to, or is about to be, is in the table.
LEMMA ReferredTo ==
  ASSUME NEW kk, Base(kk), NEW p \in Promises, Refs(kk, p) >= 1 \/ Excess(kk, p) >= 1
  PROVE  HasKernelPromise(kk, p) /\ kk.promises[p].refCount >= 1
<1>1. kk.promises[p].refCount >= 1
  BY ExcessType
<1> QED
  BY <1>1 DEF Base, TableOK, HasKernelPromise

LEMMA IncrementGood ==
  ASSUME NEW kk, Base(kk), NEW p \in Promises, HasKernelPromise(kk, p)
  PROVE  LET tt == IncrementRefCount(kk, p)
         IN Counts(kk, tt) /\ \A q \in Promises : Excess(tt, q) = Excess(kk, q) + One(q = p)
<1> DEFINE tt == IncrementRefCount(kk, p)
           n == kk.promises[p].refCount + 1
<1>1. kk \in KernelState /\ Recounted(kk, tt, p, n)
  BY IncrementIs DEF Base
<1> HIDE DEF tt
<1>2. /\ Recounts(kk, tt)
      /\ \A q \in Promises : tt.promises[q].refCount = IF q = p THEN n ELSE kk.promises[q].refCount
  <2>1. Recounts(kk, tt)
    BY <1>1, RecountedIs
  <2> QED
    BY <1>1, <2>1 DEF Recounted
<1>3. \A q \in Promises : Refs(tt, q) = Refs(kk, q)
  BY <1>1, <1>2, RecountsRefs
<1>4. ASSUME NEW q \in Promises
      PROVE  Excess(tt, q) = Excess(kk, q) + One(q = p) /\ Excess(tt, q) >= 0
  <2>1. Refs(kk, q) \in Nat /\ kk.promises[q].refCount \in Nat /\ Excess(kk, q) >= 0
    BY ExcessType
  <2> QED
    BY <1>2, <1>3, <2>1 DEF Excess, One
<1>5. \A q \in Promises : kk.promises[q].state = "absent" => tt.promises[q].refCount = 0
  BY <1>2 DEF HasKernelPromise, Base, TableOK
<1>6. Base(tt) /\ NoWorse(kk, tt) /\ SameBudget(kk, tt)
  BY <1>2, <1>4, <1>5, RecountsGood
<1>7. Counts(kk, tt) /\ \A q \in Promises : Excess(tt, q) = Excess(kk, q) + One(q = p)
  BY <1>2, <1>4, <1>6 DEF Counts
<1> QED
  BY <1>7 DEF tt

LEMMA DecrementGood ==
  ASSUME NEW kk, Base(kk), NEW p \in Promises, Excess(kk, p) >= 1
  PROVE  LET tt == DecrementRefCount(kk, p)
         IN Counts(kk, tt) /\ \A q \in Promises : Excess(kk, q) = Excess(tt, q) + One(q = p)
<1> DEFINE tt == DecrementRefCount(kk, p)
           n == kk.promises[p].refCount - 1
<1>0. HasKernelPromise(kk, p) /\ kk.promises[p].refCount >= 1 /\ kk.promises[p].refCount # 0
  BY ReferredTo
<1>1. kk \in KernelState /\ Recounted(kk, tt, p, n)
  BY <1>0, DecrementIs DEF Base
<1> HIDE DEF tt
<1>2. /\ Recounts(kk, tt)
      /\ \A q \in Promises : tt.promises[q].refCount = IF q = p THEN n ELSE kk.promises[q].refCount
  <2>1. Recounts(kk, tt)
    BY <1>1, RecountedIs
  <2> QED
    BY <1>1, <2>1 DEF Recounted
<1>3. \A q \in Promises : Refs(tt, q) = Refs(kk, q)
  BY <1>1, <1>2, RecountsRefs
<1>4. ASSUME NEW q \in Promises
      PROVE  Excess(kk, q) = Excess(tt, q) + One(q = p) /\ Excess(tt, q) >= 0
  <2>1. Refs(kk, q) \in Nat /\ kk.promises[q].refCount \in Nat /\ Excess(kk, q) >= 0
    BY ExcessType
  <2> QED
    BY <1>2, <1>3, <2>1 DEF Excess, One
<1>5. \A q \in Promises : kk.promises[q].state = "absent" => tt.promises[q].refCount = 0
  BY <1>0, <1>2 DEF HasKernelPromise, Base, TableOK
<1>6. Base(tt) /\ NoWorse(kk, tt) /\ SameBudget(kk, tt)
  BY <1>2, <1>4, <1>5, RecountsGood
<1>7. Counts(kk, tt) /\ \A q \in Promises : Excess(kk, q) = Excess(tt, q) + One(q = p)
  BY <1>2, <1>4, <1>6 DEF Counts
<1> QED
  BY <1>7 DEF tt

-----------------------------------------------------------------------------
(* Counting the slots of messages.                                         *)

LEMMA SlotIs ==
  ASSUME NEW s \in Slot
  PROVE  /\ s.type = "promise" => s.id \in Promises /\ s = Promise(s.id)
         /\ \A q \in Promises : s = Promise(q) <=> s.type = "promise" /\ s.id = q
BY DEF Slot, NoSlot, Root, Promise

LEMMA IncrementSlotGood ==
  ASSUME NEW kk, Base(kk), NEW s \in Slot, s.type = "promise" => HasKernelPromise(kk, s.id)
  PROVE  /\ Counts(kk, IncrementSlot(kk, s))
         /\ \A q \in Promises : Excess(IncrementSlot(kk, s), q) = Excess(kk, q) + One(s = Promise(q))
<1>1. CASE s.type = "promise"
  <2>1. s.id \in Promises /\ IncrementSlot(kk, s) = IncrementRefCount(kk, s.id)
    BY <1>1, SlotIs DEF IncrementSlot
  <2>2. \A q \in Promises : One(s = Promise(q)) = One(q = s.id)
    BY <1>1, SlotIs DEF One
  <2> QED
    BY <1>1, <2>1, <2>2, IncrementGood
<1>2. CASE s.type # "promise"
  <2>1. IncrementSlot(kk, s) = kk
    BY <1>2 DEF IncrementSlot
  <2>2. \A q \in Promises : One(s = Promise(q)) = 0
    BY <1>2, SlotIs DEF One
  <2>3. \A q \in Promises : Excess(kk, q) \in Int
    BY ExcessType
  <2> QED
    BY <2>1, <2>2, <2>3, CountsNot
<1> QED
  BY <1>1, <1>2

LEMMA DecrementSlotGood ==
  ASSUME NEW kk, Base(kk), NEW s \in Slot,
         \A q \in Promises : Excess(kk, q) >= One(s = Promise(q))
  PROVE  /\ Counts(kk, DecrementSlot(kk, s))
         /\ \A q \in Promises : Excess(kk, q) = Excess(DecrementSlot(kk, s), q) + One(s = Promise(q))
<1>1. CASE s.type = "promise"
  <2>1. s.id \in Promises /\ DecrementSlot(kk, s) = DecrementRefCount(kk, s.id)
    BY <1>1, SlotIs DEF DecrementSlot
  <2>2. \A q \in Promises : One(s = Promise(q)) = One(q = s.id)
    BY <1>1, SlotIs DEF One
  <2>3. Excess(kk, s.id) >= 1
    BY <2>1, <2>2 DEF One
  <2> QED
    BY <1>1, <2>1, <2>2, <2>3, DecrementGood
<1>2. CASE s.type # "promise"
  <2>1. DecrementSlot(kk, s) = kk
    BY <1>2 DEF DecrementSlot
  <2>2. \A q \in Promises : One(s = Promise(q)) = 0
    BY <1>2, SlotIs DEF One
  <2>3. \A q \in Promises : Excess(kk, q) \in Int
    BY ExcessType
  <2> QED
    BY <2>1, <2>2, <2>3, CountsNot
<1> QED
  BY <1>1, <1>2

LEMMA IncrementResultGood ==
  ASSUME NEW kk, Base(kk), NEW p \in Promises \cup {NoPromise},
         p # NoPromise => HasKernelPromise(kk, p)
  PROVE  /\ Counts(kk, IncrementResult(kk, p))
         /\ \A q \in Promises : Excess(IncrementResult(kk, p), q) = Excess(kk, q) + One(p = q)
<1>1. CASE p \in Promises
  <2>1. IncrementResult(kk, p) = IncrementRefCount(kk, p) /\ p # NoPromise
    BY <1>1, ConstantsAre DEF IncrementResult
  <2>2. \A q \in Promises : One(p = q) = One(q = p)
    BY DEF One
  <2> QED
    BY <1>1, <2>1, <2>2, IncrementGood
<1>2. CASE p = NoPromise
  <2>1. IncrementResult(kk, p) = kk
    BY <1>2 DEF IncrementResult
  <2>2. \A q \in Promises : One(p = q) = 0
    BY <1>2, ConstantsAre DEF One
  <2>3. \A q \in Promises : Excess(kk, q) \in Int
    BY ExcessType
  <2> QED
    BY <2>1, <2>2, <2>3, CountsNot
<1> QED
  BY <1>1, <1>2

LEMMA DecrementResultGood ==
  ASSUME NEW kk, Base(kk), NEW p \in Promises \cup {NoPromise},
         \A q \in Promises : Excess(kk, q) >= One(p = q)
  PROVE  /\ Counts(kk, DecrementResult(kk, p))
         /\ \A q \in Promises : Excess(kk, q) = Excess(DecrementResult(kk, p), q) + One(p = q)
<1>1. CASE p \in Promises
  <2>1. DecrementResult(kk, p) = DecrementRefCount(kk, p)
    BY <1>1, ConstantsAre DEF DecrementResult
  <2>2. \A q \in Promises : One(p = q) = One(q = p)
    BY DEF One
  <2>3. Excess(kk, p) >= 1
    BY <1>1 DEF One
  <2> QED
    BY <1>1, <2>1, <2>2, <2>3, DecrementGood
<1>2. CASE p = NoPromise
  <2>1. DecrementResult(kk, p) = kk
    BY <1>2 DEF DecrementResult
  <2>2. \A q \in Promises : One(p = q) = 0
    BY <1>2, ConstantsAre DEF One
  <2>3. \A q \in Promises : Excess(kk, q) \in Int
    BY ExcessType
  <2> QED
    BY <2>1, <2>2, <2>3, CountsNot
<1> QED
  BY <1>1, <1>2

LEMMA SendParts ==
  ASSUME NEW e \in Send
  PROVE  /\ e.type = "send" /\ e.target \in Slot \ {NoSlot} /\ e.arg \in Slot /\ e.result \in Promises \cup {NoPromise}
         /\ e.number \in 1..MaxSends /\ e \in Event /\ e.named \in Slot /\ e.sender \in Vats \cup {NoVat}
         /\ \A q \in Promises :
              /\ Owed(e, q) = One(e.target = Promise(q)) + One(e.arg = Promise(q)) + One(e.result = q)
              /\ One(e.target = Promise(q)) \in Nat /\ One(e.arg = Promise(q)) \in Nat
              /\ One(e.result = q) \in Nat /\ Owed(e, q) \in Nat
<1>1. /\ e.type = "send" /\ e.target \in Slot \ {NoSlot} /\ e.arg \in Slot /\ e.result \in Promises \cup {NoPromise}
      /\ e.number \in 1..MaxSends /\ e \in Event /\ e.named \in Slot /\ e.sender \in Vats \cup {NoVat}
  BY DEF Send, Event
<1>2. \A q \in Promises :
              /\ Owed(e, q) = One(e.target = Promise(q)) + One(e.arg = Promise(q)) + One(e.result = q)
              /\ One(e.target = Promise(q)) \in Nat /\ One(e.arg = Promise(q)) \in Nat
              /\ One(e.result = q) \in Nat
  BY <1>1 DEF Owed, One
<1> QED
  BY <1>1, <1>2

LEMMA DecrementSendGood ==
  ASSUME NEW kk, Base(kk), NEW e \in Send, \A q \in Promises : Excess(kk, q) >= Owed(e, q)
  PROVE  /\ Counts(kk, DecrementSendEventRefCount(kk, e))
         /\ \A q \in Promises :
              Excess(kk, q) = Excess(DecrementSendEventRefCount(kk, e), q) + Owed(e, q)
<1> DEFINE k1 == DecrementSlot(kk, e.target)
           k2 == DecrementResult(k1, e.result)
           k3 == DecrementSlot(k2, e.arg)
<1>0. /\ e.target \in Slot /\ e.arg \in Slot /\ e.result \in Promises \cup {NoPromise}
      /\ \A q \in Promises :
              /\ Owed(e, q) = One(e.target = Promise(q)) + One(e.arg = Promise(q)) + One(e.result = q)
              /\ One(e.target = Promise(q)) \in Nat /\ One(e.arg = Promise(q)) \in Nat
              /\ One(e.result = q) \in Nat /\ Excess(kk, q) \in Int
  BY SendParts, ExcessType
<1>1. /\ Counts(kk, k1)
      /\ \A q \in Promises : Excess(kk, q) = Excess(k1, q) + One(e.target = Promise(q))
  <2>1. \A q \in Promises : Excess(kk, q) >= One(e.target = Promise(q))
    BY <1>0
  <2> QED
    BY <1>0, <2>1, DecrementSlotGood
<1> HIDE DEF k1
<1>2. Base(k1) /\ \A q \in Promises : Excess(k1, q) \in Int
  BY <1>1, ExcessType DEF Counts
<1>3. /\ Counts(k1, k2)
      /\ \A q \in Promises : Excess(k1, q) = Excess(k2, q) + One(e.result = q)
  <2>1. \A q \in Promises : Excess(k1, q) >= One(e.result = q)
    BY <1>0, <1>1, <1>2
  <2> QED
    BY <1>0, <1>2, <2>1, DecrementResultGood
<1> HIDE DEF k2
<1>4. Base(k2) /\ \A q \in Promises : Excess(k2, q) \in Int
  BY <1>3, ExcessType DEF Counts
<1>5. /\ Counts(k2, k3)
      /\ \A q \in Promises : Excess(k2, q) = Excess(k3, q) + One(e.arg = Promise(q))
  <2>1. \A q \in Promises : Excess(k2, q) >= One(e.arg = Promise(q))
    BY <1>0, <1>1, <1>2, <1>3, <1>4
  <2> QED
    BY <1>0, <1>4, <2>1, DecrementSlotGood
<1> HIDE DEF k3
<1>6. Base(k3) /\ \A q \in Promises : Excess(k3, q) \in Int
  BY <1>5, ExcessType DEF Counts
<1>7. Counts(kk, k3)
  BY <1>1, <1>3, <1>5, CountsTwice
<1>8. \A q \in Promises : Excess(kk, q) = Excess(k3, q) + Owed(e, q)
  BY <1>0, <1>1, <1>2, <1>3, <1>4, <1>5, <1>6
<1>9. DecrementSendEventRefCount(kk, e) = k3
  BY DEF DecrementSendEventRefCount, k1, k2, k3
<1> QED
  BY <1>7, <1>8, <1>9

-----------------------------------------------------------------------------
(* c-lists.                                                                *)

\* Nothing but counts and c-lists differ.
Listing(kk, tt) == tt \in KernelState /\ SameRest(kk, tt) /\ SameRowsButCounts(kk, tt)
Relists(kk, tt, v, ps) ==
  /\ tt \in KernelState /\ SameRest(kk, tt) /\ tt.promises = kk.promises
  /\ \A w \in Vats : tt.clist[w] = IF w = v THEN ps ELSE kk.clist[w]

LEMMA RelistsGood ==
  ASSUME NEW kk, Base(kk), NEW v, NEW ps, NEW tt, Relists(kk, tt, v, ps)
  PROVE  /\ Queues(tt) = Queues(kk) /\ Sends(tt) = Sends(kk) /\ Notices(tt) = Notices(kk)
         /\ ((\A p \in Promises : Excess(tt, p) >= 0) => Base(tt))
         /\ \A p \in Promises : Refs(tt, p) - HeldBy(tt, p) = Refs(kk, p) - HeldBy(kk, p)
         /\ Orphans(tt) = Orphans(kk) /\ Early(tt) = Early(kk)
         /\ SameBudget(kk, tt) /\ Listing(kk, tt)
<1>1. kk \in KernelState /\ tt \in KernelState /\ tt.failed = kk.failed /\ Unique(Queues(kk))
  BY DEF Base, Numbered, Relists, SameRest
<1>2. Queues(tt) = Queues(kk)
  BY DEF Queues, Relists, SameRest
<1>3. Sends(tt) = Sends(kk) /\ Notices(tt) = Notices(kk)
  BY <1>2 DEF Sends, Notices
<1>4. \A p \in Promises : /\ Undecided(tt, p) <=> Undecided(kk, p)
                          /\ Settled(tt, p) <=> Settled(kk, p)
                          /\ Unresolved(tt, p) <=> Unresolved(kk, p)
  BY DEF Undecided, Settled, Unresolved, Relists
<1>5. Sends(kk) \in SUBSET Send /\ Notices(kk) \in SUBSET Notification
  BY <1>1, FamilyIs
<1>6. Resolvers(tt)
  <2>1. \A e \in Sends(kk) : e.result # NoPromise => e.result \in Promises
    BY <1>5 DEF Send
  <2> QED
    BY <1>3, <1>4, <2>1 DEF Base, Resolvers
<1>7. TableOK(tt) /\ Numbered(tt) /\ Ended(tt)
  <2>1. TableOK(tt)
    BY DEF Base, TableOK, Relists, SameRest
  <2> QED
    BY <1>2, <1>3, <2>1 DEF Base, Numbered, Ended, Relists, SameRest
<1>8. (\A p \in Promises : Excess(tt, p) >= 0) => Base(tt)
  BY <1>1, <1>6, <1>7 DEF Base
<1>9. Orphans(tt) = Orphans(kk)
  BY <1>3, <1>4 DEF Orphans
<1>10. Early(tt) = Early(kk)
  <2>1. \A e \in Notices(kk) : e.kpid \in Promises
    BY <1>5 DEF Notification
  <2> QED
    BY <1>3, <1>4, <2>1 DEF Early
<1>11. ASSUME NEW p \in Promises
       PROVE  Refs(tt, p) - HeldBy(tt, p) = Refs(kk, p) - HeldBy(kk, p)
  <2>1. /\ HeldBy(kk, p) \in Nat /\ QueueRefs(Queues(kk), p) \in Nat /\ kk.external[p] \in Nat
        /\ DataRefs(kk, p) \in Nat
    BY <1>1, RefsType
  <2>2. HeldBy(tt, p) \in Nat
    BY <1>1, <1>2, RefsType
  <2>3. DataRefs(tt, p) = DataRefs(kk, p) /\ tt.external = kk.external
    BY DEF DataRefs, Relists, SameRest
  <2> HIDE DEF Relists
  <2> QED
    BY <1>2, <2>1, <2>2, <2>3 DEF Refs
<1>12. SameBudget(kk, tt)
  BY <1>2 DEF SameBudget, Upgrading, Relists, SameRest
<1>13. Listing(kk, tt)
  BY DEF Listing, Relists, SameRowsButCounts
<1> QED
  BY <1>2, <1>3, <1>8, <1>9, <1>10, <1>11, <1>12, <1>13

LEMMA RelistExcess ==
  ASSUME NEW kk, Base(kk), NEW v, NEW ps, NEW tt, Relists(kk, tt, v, ps), NEW p \in Promises
  PROVE  Excess(tt, p) = Excess(kk, p) + HeldBy(kk, p) - HeldBy(tt, p)
         /\ HeldBy(kk, p) \in Nat /\ HeldBy(tt, p) \in Nat
<1>1. kk \in KernelState /\ tt \in KernelState /\ Unique(Queues(kk))
  BY DEF Base, Numbered, Relists
<1>2. Queues(tt) = Queues(kk) /\ Refs(tt, p) - HeldBy(tt, p) = Refs(kk, p) - HeldBy(kk, p)
  BY RelistsGood
<1>3. /\ HeldBy(kk, p) \in Nat /\ HeldBy(tt, p) \in Nat /\ Refs(kk, p) \in Nat /\ Refs(tt, p) \in Nat
      /\ kk.promises[p].refCount \in Nat
  BY <1>1, <1>2, RefsType
<1>4. tt.promises[p].refCount = kk.promises[p].refCount
  BY DEF Relists
<1> QED
  BY <1>2, <1>3, <1>4 DEF Excess

OneListed(kk, tt, v, p) ==
  /\ p \notin kk.clist[v]
  /\ \A w \in Vats : tt.clist[w] = IF w = v THEN kk.clist[v] \cup {p} ELSE kk.clist[w]

LEMMA HeldByOneMore ==
  ASSUME NEW kk, NEW tt, NEW v \in Vats, NEW p \in Promises, OneListed(kk, tt, v, p)
  PROVE  \A q \in Promises : HeldBy(tt, q) = HeldBy(kk, q) + One(q = p)
<1> TAKE q \in Promises
<1>0. p \notin kk.clist[v] /\ \A w \in Vats : tt.clist[w] = IF w = v THEN kk.clist[v] \cup {p} ELSE kk.clist[w]
  BY DEF OneListed
<1> DEFINE A == {w \in Vats : q \in kk.clist[w]}
           B == {w \in Vats : q \in tt.clist[w]}
           b == q = p
<1>1. IsFiniteSet(Vats)
  BY ConstantsAre
<1>2. IsFiniteSet(A)
  BY <1>1, FS_Subset
<1>3. CASE b
  <2>1. v \notin A /\ B = A \cup {v}
    BY <1>0, <1>3
  <2> HIDE DEF A, B
  <2>2. Cardinality(B) = Cardinality(A) + One(b) /\ Cardinality(A) \in Nat
    BY <1>2, <1>3, <2>1, OneMore
  <2> QED
    BY <2>2 DEF HeldBy, A, B
<1>4. CASE ~b
  <2>1. B = A
    BY <1>0, <1>4
  <2>2. Cardinality(A) \in Nat
    BY <1>2, FS_CardinalityType
  <2>3. HeldBy(tt, q) = Cardinality(B) /\ HeldBy(kk, q) = Cardinality(A)
    BY DEF HeldBy
  <2> HIDE DEF A, B
  <2> QED
    BY <1>4, <2>1, <2>2, <2>3 DEF One
<1> QED
  BY <1>3, <1>4

\* What the entry v, p of a c-list changes; the other entries stay.
EntryStep(kk, tt) ==
  /\ Base(tt) /\ Listing(kk, tt) /\ SameBudget(kk, tt)
  /\ \A q \in Promises : Excess(tt, q) = Excess(kk, q)
  /\ Orphans(tt) \subseteq Orphans(kk) /\ Early(tt) \subseteq Early(kk)

LEMMA AddEntryGood ==
  ASSUME NEW kk, Base(kk), NEW v \in Vats, NEW p \in Promises, HasKernelPromise(kk, p),
         p \notin kk.clist[v]
  PROVE  LET tt == AddCListEntry(kk, v, p)
         IN /\ EntryStep(kk, tt)
            /\ \A w \in Vats : tt.clist[w] = IF w = v THEN kk.clist[v] \cup {p} ELSE kk.clist[w]
            /\ Unheard(tt) \subseteq Unheard(kk)
            /\ Unfit(tt) \subseteq Unfit(kk) \ {d \in {<<v, p>>} : v \in kk.live}
<1> DEFINE k1 == IncrementRefCount(kk, p)
           tt == AddCListEntry(kk, v, p)
           ps == kk.clist[v] \cup {p}
<1>1. Counts(kk, k1) /\ \A q \in Promises : Excess(k1, q) = Excess(kk, q) + One(q = p)
  BY IncrementGood
<1> HIDE DEF k1
<1>2. tt = [k1 EXCEPT !.clist[v] = @ \cup {p}]
  BY DEF AddCListEntry, k1
<1>3. Base(k1) /\ k1 \in KernelState /\ k1.clist = kk.clist /\ kk \in KernelState
  BY <1>1 DEF Counts, Recounts, Base
<1>4. Relists(k1, tt, v, ps)
  <2>1. kk.clist \in [Vats -> SUBSET Promises]
    BY <1>3 DEF KernelState
  <2> DEFINE C == [kk.clist EXCEPT ![v] = @ \cup {p}]
  <2>2. C \in [Vats -> SUBSET Promises] /\ \A w \in Vats : C[w] = IF w = v THEN ps ELSE kk.clist[w]
    BY <2>1
  <2>3. tt = [k1 EXCEPT !.clist = C]
    BY <1>2, <1>3
  <2> HIDE DEF C
  <2>4. tt \in KernelState /\ tt.clist = C /\ tt.promises = k1.promises
    BY <1>3, <2>2, <2>3 DEF KernelState
  <2>5. SameRest(k1, tt)
    BY <1>3, <2>3 DEF SameRest, KernelState
  <2> QED
    BY <1>3, <2>2, <2>4, <2>5 DEF Relists
<1> HIDE DEF tt, ps
<1>5. \A w \in Vats : tt.clist[w] = IF w = v THEN kk.clist[v] \cup {p} ELSE kk.clist[w]
  BY <1>3, <1>4 DEF Relists, ps
<1>6. \A q \in Promises : HeldBy(tt, q) = HeldBy(kk, q) + One(q = p) /\ HeldBy(k1, q) = HeldBy(kk, q)
  <2>1. OneListed(kk, tt, v, p)
    BY <1>5 DEF OneListed
  <2>2. \A q \in Promises : HeldBy(tt, q) = HeldBy(kk, q) + One(q = p)
    BY <2>1, HeldByOneMore
  <2> QED
    BY <1>3, <2>2 DEF HeldBy
<1>7. ASSUME NEW q \in Promises
      PROVE  Excess(tt, q) = Excess(kk, q) /\ Excess(tt, q) >= 0
  <2>1. /\ Excess(tt, q) = Excess(k1, q) + HeldBy(k1, q) - HeldBy(tt, q)
        /\ HeldBy(k1, q) \in Nat /\ HeldBy(tt, q) \in Nat
    BY <1>3, <1>4, RelistExcess
  <2>2. Excess(kk, q) \in Int /\ Excess(kk, q) >= 0 /\ Excess(k1, q) = Excess(kk, q) + One(q = p)
    BY <1>1, ExcessType
  <2>3. HeldBy(tt, q) = HeldBy(k1, q) + One(q = p)
    BY <1>6
  <2> QED
    BY <2>1, <2>2, <2>3 DEF One
<1>8. /\ Sends(tt) = Sends(k1) /\ Notices(tt) = Notices(k1) /\ Base(tt)
      /\ Orphans(tt) = Orphans(k1) /\ Early(tt) = Early(k1)
      /\ SameBudget(k1, tt) /\ Listing(k1, tt)
  BY <1>3, <1>4, <1>7, RelistsGood
<1>9. EntryStep(kk, tt)
  <2>1. Listing(kk, tt)
    BY <1>1, <1>8 DEF Listing, Counts, Recounts, SameRest, SameRowsButCounts
  <2>2. SameBudget(kk, tt) /\ Orphans(tt) \subseteq Orphans(kk) /\ Early(tt) \subseteq Early(kk)
    BY <1>1, <1>8 DEF SameBudget, Counts, NoWorse
  <2> QED
    BY <1>7, <1>8, <2>1, <2>2 DEF EntryStep
<1>10. Unheard(k1) \subseteq Unheard(kk) /\ Unfit(k1) \subseteq Unfit(kk)
  BY <1>1 DEF Counts, NoWorse
<1>11. Unheard(tt) \subseteq Unheard(k1)
  <2>1. \A w \in Vats, q \in Promises : Told(k1, w, q) => Told(tt, w, q)
    BY <1>3, <1>5, <1>8 DEF Told, Unresolved, Listing, SameRowsButCounts
  <2>2. tt.live = k1.live /\ tt.awaiting = k1.awaiting
    BY <1>8 DEF Listing, SameRest
  <2> QED
    BY <2>1, <2>2 DEF Unheard
<1>12. Unfit(tt) \subseteq Unfit(k1) \ {d \in {<<v, p>>} : v \in kk.live}
  <2>1. tt.live = k1.live /\ k1.live = kk.live
    BY <1>1, <1>8 DEF Listing, SameRest, Counts, Recounts
  <2>2. \A w \in Vats, q \in Promises : Decided(tt, w, q) <=> Decided(k1, w, q)
    BY <1>8 DEF Decided, Listing, SameRowsButCounts
  <2>3. p \in tt.clist[v] /\ \A w \in Vats : k1.clist[w] \subseteq tt.clist[w]
    BY <1>3, <1>5
  <2>4. ASSUME NEW d \in Unfit(tt)
        PROVE  d \in Unfit(k1) /\ d \notin {f \in {<<v, p>>} : v \in kk.live}
    BY <2>1, <2>2, <2>3 DEF Unfit
  <2> QED
    BY <2>4
<1>13. Unheard(tt) \subseteq Unheard(kk) /\ Unfit(tt) \subseteq Unfit(kk) \ {d \in {<<v, p>>} : v \in kk.live}
  BY <1>10, <1>11, <1>12
<1> QED
  BY <1>5, <1>9, <1>13 DEF tt

\* An entry goes: the vat must not decide the promise, or wait for it, for long.
LEMMA DeleteEntryGood ==
  ASSUME NEW kk, Base(kk), NEW v \in Vats, NEW p \in Promises, p \in kk.clist[v]
  PROVE  LET tt == DeleteCListEntry(kk, v, p)
         IN /\ EntryStep(kk, tt)
            /\ \A w \in Vats : tt.clist[w] = IF w = v THEN kk.clist[v] \ {p} ELSE kk.clist[w]
            /\ Unheard(tt) \subseteq Unheard(kk) \cup {<<v, p>>}
            /\ Unfit(tt) \subseteq Unfit(kk) \cup {<<v, p>>}
<1> DEFINE k1 == DecrementRefCount(kk, p)
           tt == DeleteCListEntry(kk, v, p)
           ps == kk.clist[v] \ {p}
\* As if the entry went first.
           k0 == [kk EXCEPT !.clist[v] = @ \ {p}]
<1>0. kk \in KernelState /\ kk.clist \in [Vats -> SUBSET Promises]
  BY DEF Base, KernelState
<1>1. Relists(kk, k0, v, ps)
  <2> DEFINE C == [kk.clist EXCEPT ![v] = @ \ {p}]
  <2>2. C \in [Vats -> SUBSET Promises] /\ \A w \in Vats : C[w] = IF w = v THEN ps ELSE kk.clist[w]
    BY <1>0
  <2>3. k0 = [kk EXCEPT !.clist = C]
    OBVIOUS
  <2> HIDE DEF C, k0
  <2>4. k0 \in KernelState /\ k0.clist = C /\ k0.promises = kk.promises
    BY <1>0, <2>2, <2>3 DEF KernelState
  <2>5. SameRest(kk, k0)
    BY <1>0, <2>3 DEF SameRest, KernelState
  <2> QED
    BY <2>2, <2>4, <2>5 DEF Relists
<1>2. k0.promises = kk.promises /\ k0.maybeFree = kk.maybeFree /\ k0.clist = [kk.clist EXCEPT ![v] = @ \ {p}]
  BY <1>0 DEF KernelState
<1>3. tt = DecrementRefCount(k0, p)
  <2>1. kk.promises[p].refCount # 0
    <3>1. Refs(kk, p) >= 1
      <4>1. HeldBy(kk, p) >= 1
        <5>1. {w \in Vats : p \in kk.clist[w]} # {}
          OBVIOUS
        <5> QED
          BY <5>1, ConstantsAre, CountedIn DEF HeldBy
      <4>2. /\ HeldBy(kk, p) \in Nat /\ QueueRefs(Queues(kk), p) \in Nat /\ kk.external[p] \in Nat
            /\ DataRefs(kk, p) \in Nat
        BY RefsType DEF Base, Numbered
      <4> QED
        BY <4>1, <4>2 DEF Refs
    <3> QED
      BY <3>1, ReferredTo
  <2> DEFINE free == IF kk.promises[p].refCount = 1 /\ ~Contains(kk.maybeFree, p)
                     THEN Append(kk.maybeFree, p) ELSE kk.maybeFree
  <2>2. DecrementRefCount(kk, p) = [kk EXCEPT !.promises[p].refCount = @ - 1, !.maybeFree = free]
    BY <1>0, <2>1 DEF DecrementRefCount, KernelState
  <2>3. DecrementRefCount(k0, p) = [k0 EXCEPT !.promises[p].refCount = @ - 1, !.maybeFree = free]
    <3>1. k0 \in KernelState
      BY <1>1 DEF Relists
    <3> HIDE DEF k0
    <3> QED
      BY <1>2, <2>1, <3>1 DEF DecrementRefCount, KernelState
  <2> HIDE DEF free
  <2>4. tt = [[kk EXCEPT !.promises[p].refCount = @ - 1, !.maybeFree = free] EXCEPT !.clist[v] = @ \ {p}]
    BY <2>2 DEF DeleteCListEntry
  <2> QED
    BY <1>0, <2>3, <2>4 DEF KernelState
<1> HIDE DEF k0, tt
<1>4. \A w \in Vats : k0.clist[w] = IF w = v THEN kk.clist[v] \ {p} ELSE kk.clist[w]
  BY <1>1 DEF Relists
<1>5. \A q \in Promises : HeldBy(kk, q) = HeldBy(k0, q) + One(q = p)
  <2>1. OneListed(k0, kk, v, p)
    BY <1>4 DEF OneListed
  <2> QED
    BY <2>1, HeldByOneMore
<1>6. ASSUME NEW q \in Promises
      PROVE  Excess(k0, q) = Excess(kk, q) + One(q = p) /\ Excess(k0, q) >= 0
  <2>1. /\ Excess(k0, q) = Excess(kk, q) + HeldBy(kk, q) - HeldBy(k0, q)
        /\ HeldBy(kk, q) \in Nat /\ HeldBy(k0, q) \in Nat
    BY <1>1, RelistExcess
  <2>2. Excess(kk, q) \in Int /\ Excess(kk, q) >= 0
    BY ExcessType
  <2>3. HeldBy(kk, q) = HeldBy(k0, q) + One(q = p)
    BY <1>5
  <2> QED
    BY <2>1, <2>2, <2>3 DEF One
<1>7. /\ Sends(k0) = Sends(kk) /\ Notices(k0) = Notices(kk) /\ Base(k0)
      /\ Orphans(k0) = Orphans(kk) /\ Early(k0) = Early(kk)
      /\ SameBudget(kk, k0) /\ Listing(kk, k0)
  BY <1>1, <1>6, RelistsGood
<1>8. Excess(k0, p) >= 1
  <2>1. Excess(kk, p) \in Int /\ Excess(kk, p) >= 0
    BY ExcessType
  <2> QED
    BY <1>6, <2>1 DEF One
<1>9. Counts(k0, tt) /\ \A q \in Promises : Excess(k0, q) = Excess(tt, q) + One(q = p)
  BY <1>3, <1>7, <1>8, DecrementGood
<1>10. EntryStep(kk, tt)
  <2>1. Listing(kk, tt)
    BY <1>9, <1>7 DEF Listing, Counts, Recounts, SameRest, SameRowsButCounts
  <2>2. SameBudget(kk, tt) /\ Orphans(tt) \subseteq Orphans(kk) /\ Early(tt) \subseteq Early(kk)
    BY <1>9, <1>7 DEF SameBudget, Counts, NoWorse
  <2>3. \A q \in Promises : Excess(tt, q) = Excess(kk, q)
    <3> TAKE q \in Promises
    <3>1. Excess(kk, q) \in Int /\ Excess(tt, q) \in Int
      BY <1>9, ExcessType DEF Counts
    <3> QED
      BY <1>6, <1>9, <3>1 DEF One
  <2> QED
    BY <1>9, <2>1, <2>2, <2>3 DEF EntryStep, Counts
<1>11. tt.clist = k0.clist /\ Unheard(tt) \subseteq Unheard(k0) /\ Unfit(tt) \subseteq Unfit(k0)
  BY <1>9 DEF Counts, NoWorse, Recounts
<1>12. k0.live = kk.live /\ k0.awaiting = kk.awaiting
  BY <1>7 DEF Listing, SameRest
<1>13. Unheard(k0) \subseteq Unheard(kk) \cup {<<v, p>>}
  <2>1. ASSUME NEW w \in Vats, NEW q \in Promises, ~(w = v /\ q = p), Told(kk, w, q)
        PROVE  Told(k0, w, q)
    <3>1. q \in k0.clist[w]
      BY <1>4, <2>1 DEF Told
    <3> QED
      BY <1>2, <1>7, <2>1, <3>1 DEF Told, Unresolved
  <2> QED
    BY <1>12, <2>1 DEF Unheard
<1>14. Unfit(k0) \subseteq Unfit(kk) \cup {<<v, p>>}
  <2>1. \A w \in Vats, q \in Promises : Decided(k0, w, q) <=> Decided(kk, w, q)
    BY <1>2 DEF Decided
  <2>2. \A w \in Vats, q \in Promises : ~(w = v /\ q = p) /\ q \in kk.clist[w] => q \in k0.clist[w]
    BY <1>4
  <2> QED
    BY <1>12, <2>1, <2>2 DEF Unfit
<1> QED
  BY <1>4, <1>10, <1>11, <1>13, <1>14 DEF tt

-----------------------------------------------------------------------------
(* The queues of a state.                                                  *)

\* Nothing but queues differ, and the number of sends.
SameButQueues(kk, tt) ==
  /\ tt \in KernelState /\ tt.clist = kk.clist /\ tt.nextKpid = kk.nextKpid /\ tt.live = kk.live
  /\ tt.terminated = kk.terminated /\ tt.external = kk.external
  /\ tt.awaiting = kk.awaiting /\ tt.failed = kk.failed
  /\ \A q \in Promises :
       /\ tt.promises[q].state = kk.promises[q].state
       /\ tt.promises[q].decider = kk.promises[q].decider
       /\ tt.promises[q].subscribers = kk.promises[q].subscribers
       /\ tt.promises[q].data = kk.promises[q].data
       /\ tt.promises[q].refCount = kk.promises[q].refCount
\* Only unresolved promises have a queue, of sends to them.
QueuesFit(kk) ==
  \A p \in Promises :
    /\ kk.promises[p].queue # <<>> => Unresolved(kk, p)
    /\ \A a \in DOMAIN kk.promises[p].queue : kk.promises[p].queue[a].target = Promise(p)
\* A send may be put on a queue: there is no other with its number or result.
Ready(kk, e) ==
  e.type = "send" =>
    /\ Fresh(Queues(kk), e)
    /\ e.result # NoPromise => Undecided(kk, e.result) /\ \A f \in Sends(kk) : f.result # e.result

LEMMA SameButQueuesMeans ==
  ASSUME NEW kk, Base(kk), NEW tt, SameButQueues(kk, tt)
  PROVE  /\ kk \in KernelState /\ tt \in KernelState /\ tt.failed = FALSE
         /\ Family(Queues(kk)) /\ Sends(kk) \in SUBSET Send /\ Notices(kk) \in SUBSET Notification
         /\ \A p : p \in Promises =>
                   /\ Undecided(tt, p) <=> Undecided(kk, p)
                   /\ Settled(tt, p) <=> Settled(kk, p)
                   /\ Unresolved(tt, p) <=> Unresolved(kk, p)
         /\ Ended(tt) /\ Unfit(tt) = Unfit(kk)
         /\ QueuesFit(tt) => TableOK(tt)
<1>1. kk \in KernelState /\ tt \in KernelState /\ tt.failed = FALSE /\ Unique(Queues(kk))
  BY DEF Base, Numbered, SameButQueues
<1>2. \A p : p \in Promises =>
                   /\ Undecided(tt, p) <=> Undecided(kk, p)
                   /\ Settled(tt, p) <=> Settled(kk, p)
                   /\ Unresolved(tt, p) <=> Unresolved(kk, p)
  BY DEF Undecided, Settled, Unresolved, SameButQueues
<1>3. Ended(tt) /\ Unfit(tt) = Unfit(kk)
  BY DEF Base, Ended, Unfit, Decided, SameButQueues
<1>4. QueuesFit(tt) => TableOK(tt)
  BY DEF Base, TableOK, QueuesFit, SameButQueues, Unresolved
<1> QED
  BY <1>1, <1>2, <1>3, <1>4, FamilyIs

LEMMA SameButQueuesRefs ==
  ASSUME NEW kk, Base(kk), NEW tt, SameButQueues(kk, tt), Family(Queues(tt)), NEW p \in Promises
  PROVE  /\ Excess(tt, p) = Excess(kk, p) + QueueRefs(Queues(kk), p) - QueueRefs(Queues(tt), p)
         /\ QueueRefs(Queues(kk), p) \in Nat /\ QueueRefs(Queues(tt), p) \in Nat
<1>1. /\ HeldBy(kk, p) \in Nat /\ QueueRefs(Queues(kk), p) \in Nat /\ kk.external[p] \in Nat
      /\ DataRefs(kk, p) \in Nat /\ kk.promises[p].refCount \in Nat
  BY RefsType DEF Base, Numbered
<1>2. QueueRefs(Queues(tt), p) \in Nat
  BY QueueRefsType
<1>3. HeldBy(tt, p) = HeldBy(kk, p) /\ DataRefs(tt, p) = DataRefs(kk, p) /\ tt.external = kk.external
      /\ tt.promises[p].refCount = kk.promises[p].refCount
  BY DEF HeldBy, DataRefs, SameButQueues
<1> QED
  BY <1>1, <1>2, <1>3 DEF Excess, Refs

LEMMA PutGood ==
  ASSUME NEW kk, Base(kk), NEW tt, SameButQueues(kk, tt), NEW e, Put(Queues(kk), Queues(tt), e),
         QueuesFit(tt), Ready(kk, e), e.type = "send" => e.number <= tt.sends,
         kk.sends <= tt.sends, \A p \in Promises : Excess(kk, p) >= Owed(e, p)
  PROVE  /\ Base(tt)
         /\ \A p \in Promises : Excess(kk, p) = Excess(tt, p) + Owed(e, p)
         /\ Orphans(tt) \subseteq {p \in Orphans(kk) : ~(e.type = "send" /\ e.result = p)}
         /\ Unfit(tt) = Unfit(kk) /\ Unheard(tt) \subseteq Unheard(kk)
         /\ Notices(kk) \subseteq Notices(tt)
         /\ e.type = "notify" => e \in Notices(tt) /\ Notices(tt) \subseteq Notices(kk) \cup {e}
         /\ e.type # "notify" => Notices(tt) = Notices(kk)
         /\ Early(tt) \subseteq Early(kk) \cup {f \in {e} : e.type = "notify" /\ ~Settled(kk, e.kpid)}
         /\ Upgrading(tt) = Upgrading(kk) + One(e.type = "upgrade-vat")
<1>1. /\ kk \in KernelState /\ tt \in KernelState /\ tt.failed = FALSE
      /\ Family(Queues(kk)) /\ Sends(kk) \in SUBSET Send /\ Notices(kk) \in SUBSET Notification
      /\ \A p : p \in Promises =>
                   /\ Undecided(tt, p) <=> Undecided(kk, p)
                   /\ Settled(tt, p) <=> Settled(kk, p)
                   /\ Unresolved(tt, p) <=> Unresolved(kk, p)
      /\ Ended(tt) /\ Unfit(tt) = Unfit(kk)
      /\ TableOK(tt)
  BY SameButQueuesMeans
<1>2. /\ Family(Queues(tt)) /\ e \in Event
      /\ e.type = "send" => Sends(tt) = Sends(kk) \cup {e} /\ Fresh(Queues(kk), e)
      /\ e.type # "send" => Sends(tt) = Sends(kk)
      /\ e.type = "notify" => Notices(tt) \subseteq Notices(kk) \cup {e}
      /\ e.type = "notify" => Notices(kk) \subseteq Notices(tt) /\ e \in Notices(tt)
      /\ e.type # "notify" => Notices(tt) = Notices(kk)
      /\ \A p \in Promises : QueueRefs(Queues(tt), p) = QueueRefs(Queues(kk), p) + Owed(e, p)
      /\ Upgrading(tt) = Upgrading(kk) + One(e.type = "upgrade-vat")
  BY DEF Put, Sends, Notices, Upgrading
<1>3. ASSUME NEW p \in Promises
      PROVE  Excess(kk, p) = Excess(tt, p) + Owed(e, p) /\ Excess(tt, p) >= 0
  <2>1. /\ Excess(tt, p) = Excess(kk, p) + QueueRefs(Queues(kk), p) - QueueRefs(Queues(tt), p)
        /\ QueueRefs(Queues(kk), p) \in Nat /\ QueueRefs(Queues(tt), p) \in Nat
    BY <1>2, SameButQueuesRefs
  <2>2. Excess(kk, p) \in Int /\ Owed(e, p) \in Nat
    BY <1>2, ExcessType, OwedIs
  <2>3. QueueRefs(Queues(tt), p) = QueueRefs(Queues(kk), p) + Owed(e, p) /\ Excess(kk, p) >= Owed(e, p)
    BY <1>2
  <2> QED
    BY <2>1, <2>2, <2>3
<1>4. Numbered(tt)
  <2>1. Unique(Queues(tt))
    BY <1>2 DEF Family
  <2>2. \A f \in Sends(kk) : f.number <= tt.sends
    <3>1. \A f \in Sends(kk) : f.number <= kk.sends /\ f.number \in Nat
      BY <1>1 DEF Base, Numbered, Send
    <3>2. kk.sends \in Nat /\ tt.sends \in Nat
      BY <1>1 DEF KernelState
    <3> QED
      BY <3>1, <3>2
  <2> QED
    BY <1>2, <2>1, <2>2 DEF Numbered
<1>5. \A f \in Sends(kk) : f.result # NoPromise => f.result \in Promises /\ Undecided(kk, f.result)
  BY <1>1 DEF Base, Resolvers, Send
<1>6. Resolvers(tt)
  <2>1. CASE e.type = "send"
    <3>1. e.result # NoPromise => e.result \in Promises
      BY <1>2, <2>1, EventTypes DEF Send
    <3>2. \A f \in Sends(tt) : f.result # NoPromise => Undecided(tt, f.result)
      BY <1>1, <1>2, <1>5, <2>1, <3>1 DEF Ready
    <3>3. \A f, g \in Sends(kk) : f.result # NoPromise /\ f.result = g.result => f = g
      BY DEF Base, Resolvers
    <3>4. \A f, g \in Sends(tt) : f.result # NoPromise /\ f.result = g.result => f = g
      BY <1>2, <2>1, <3>3 DEF Ready
    <3> QED
      BY <3>2, <3>4 DEF Resolvers
  <2>2. CASE e.type # "send"
    BY <1>1, <1>2, <1>5, <2>2 DEF Base, Resolvers
  <2> QED
    BY <2>1, <2>2
<1>7. Base(tt)
  BY <1>1, <1>3, <1>4, <1>6 DEF Base
<1>8. Orphans(tt) \subseteq {p \in Orphans(kk) : ~(e.type = "send" /\ e.result = p)}
  BY <1>1, <1>2 DEF Orphans
<1>9. Notices(kk) \subseteq Notices(tt)
  BY <1>2
<1>10. Unheard(tt) \subseteq Unheard(kk)
  <2>1. \A v \in Vats, p \in Promises : Told(kk, v, p) => Told(tt, v, p)
    BY <1>1, <1>9 DEF Told, SameButQueues
  <2> QED
    BY <2>1 DEF Unheard, SameButQueues
<1>11. Early(tt) \subseteq Early(kk) \cup {f \in {e} : e.type = "notify" /\ ~Settled(kk, e.kpid)}
  <2>1. ASSUME NEW f \in Early(tt)
        PROVE  f \in Early(kk) \/ (f = e /\ e.type = "notify" /\ ~Settled(kk, e.kpid))
    <3>1. f \in Notices(tt) /\ ~Settled(tt, f.kpid)
      BY <2>1 DEF Early
    <3>2. f.kpid \in Promises
      <4>1. Notices(tt) \in SUBSET Notification
        BY <1>2, SendsAreFinite DEF Notices
      <4> QED
        BY <3>1, <4>1 DEF Notification
    <3>3. ~Settled(kk, f.kpid)
      BY <1>1, <3>1, <3>2
    <3> QED
      BY <1>2, <3>1, <3>3 DEF Early
  <2> QED
    BY <2>1
<1> QED
  BY <1>1, <1>2, <1>3, <1>7, <1>8, <1>9, <1>10, <1>11

LEMMA TakeGood ==
  ASSUME NEW kk, Base(kk), NEW tt, SameButQueues(kk, tt), NEW e, Put(Queues(tt), Queues(kk), e),
         QueuesFit(tt), tt.sends = kk.sends
  PROVE  /\ Base(tt) /\ Ready(tt, e) /\ (e.type = "send" => e.number <= tt.sends)
         /\ \A p \in Promises : Excess(tt, p) = Excess(kk, p) + Owed(e, p)
         /\ Orphans(tt) \subseteq Orphans(kk) \cup {p \in Promises : e.type = "send" /\ e.result = p}
         /\ Unfit(tt) = Unfit(kk) /\ Early(tt) \subseteq Early(kk)
         /\ e.type = "notify" => e \in Notices(kk) /\ Notices(kk) \subseteq Notices(tt) \cup {e}
         /\ Notices(tt) \subseteq Notices(kk)
         /\ e.type # "notify" => Notices(tt) = Notices(kk) /\ Unheard(tt) \subseteq Unheard(kk)
         /\ e.type = "notify" => Unheard(tt) \subseteq Unheard(kk) \cup {<<e.vat, e.kpid>>}
         /\ Upgrading(kk) = Upgrading(tt) + One(e.type = "upgrade-vat")
<1>1. /\ kk \in KernelState /\ tt \in KernelState /\ tt.failed = FALSE
      /\ Family(Queues(kk)) /\ Sends(kk) \in SUBSET Send /\ Notices(kk) \in SUBSET Notification
      /\ \A p : p \in Promises =>
                   /\ Undecided(tt, p) <=> Undecided(kk, p)
                   /\ Settled(tt, p) <=> Settled(kk, p)
                   /\ Unresolved(tt, p) <=> Unresolved(kk, p)
      /\ Ended(tt) /\ Unfit(tt) = Unfit(kk)
      /\ TableOK(tt)
  BY SameButQueuesMeans
<1>2. /\ Family(Queues(tt)) /\ e \in Event
      /\ e.type = "send" => Sends(kk) = Sends(tt) \cup {e} /\ Fresh(Queues(tt), e)
      /\ e.type # "send" => Sends(kk) = Sends(tt)
      /\ e.type = "notify" => Notices(kk) \subseteq Notices(tt) \cup {e}
      /\ e.type = "notify" => Notices(tt) \subseteq Notices(kk) /\ e \in Notices(kk)
      /\ e.type # "notify" => Notices(kk) = Notices(tt)
      /\ \A p \in Promises : QueueRefs(Queues(kk), p) = QueueRefs(Queues(tt), p) + Owed(e, p)
      /\ Upgrading(kk) = Upgrading(tt) + One(e.type = "upgrade-vat")
  BY DEF Put, Sends, Notices, Upgrading
<1>3. ASSUME NEW p \in Promises
      PROVE  Excess(tt, p) = Excess(kk, p) + Owed(e, p) /\ Excess(tt, p) >= 0
  <2>1. /\ Excess(tt, p) = Excess(kk, p) + QueueRefs(Queues(kk), p) - QueueRefs(Queues(tt), p)
        /\ QueueRefs(Queues(kk), p) \in Nat /\ QueueRefs(Queues(tt), p) \in Nat
    BY <1>2, SameButQueuesRefs
  <2>2. Excess(kk, p) \in Int /\ Excess(kk, p) >= 0 /\ Owed(e, p) \in Nat
    BY <1>2, ExcessType, OwedIs
  <2>3. QueueRefs(Queues(kk), p) = QueueRefs(Queues(tt), p) + Owed(e, p)
    BY <1>2
  <2> QED
    BY <2>1, <2>2, <2>3
<1>4. Numbered(tt) /\ (e.type = "send" => e.number <= tt.sends)
  <2>1. Unique(Queues(tt))
    BY <1>2 DEF Family
  <2>2. \A f \in Sends(kk) : f.number <= tt.sends
    BY DEF Base, Numbered
  <2> QED
    BY <1>2, <2>1, <2>2 DEF Numbered
<1>5. \A f \in Sends(kk) : f.result # NoPromise => f.result \in Promises /\ Undecided(kk, f.result)
  BY <1>1 DEF Base, Resolvers, Send
<1>6. \A f, g \in Sends(kk) : f.result # NoPromise /\ f.result = g.result => f = g
  BY DEF Base, Resolvers
<1>7. Sends(tt) \subseteq Sends(kk)
  BY <1>2
<1>8. Resolvers(tt)
  BY <1>1, <1>5, <1>6, <1>7 DEF Resolvers
<1>9. Base(tt)
  BY <1>1, <1>3, <1>4, <1>8 DEF Base
<1>10. Ready(tt, e)
  <2>1. ASSUME e.type = "send", e.result # NoPromise
        PROVE  Undecided(tt, e.result) /\ \A f \in Sends(tt) : f.result # e.result
    <3>1. e \in Sends(kk) /\ e \notin Sends(tt)
      BY <1>2, <2>1 DEF Fresh, Sends
    <3>2. e.result \in Promises /\ Undecided(kk, e.result)
      BY <1>5, <2>1, <3>1
    <3> QED
      BY <1>1, <1>6, <1>7, <2>1, <3>1, <3>2
  <2> QED
    BY <1>2, <2>1 DEF Ready
<1>11. Orphans(tt) \subseteq Orphans(kk) \cup {p \in Promises : e.type = "send" /\ e.result = p}
  BY <1>1, <1>2 DEF Orphans
<1>12. Notices(tt) \subseteq Notices(kk)
  BY <1>2
<1>13. Early(tt) \subseteq Early(kk)
  <2>1. \A f \in Notices(kk) : f.kpid \in Promises
    BY <1>1 DEF Notification
  <2> QED
    BY <1>1, <1>12, <2>1 DEF Early
<1>14. tt.live = kk.live /\ tt.awaiting = kk.awaiting
  BY DEF SameButQueues
<1>15. e.type # "notify" => Unheard(tt) \subseteq Unheard(kk)
  <2>1. e.type # "notify" => \A v \in Vats, p \in Promises : Told(kk, v, p) => Told(tt, v, p)
    BY <1>1, <1>2 DEF Told, SameButQueues
  <2> QED
    BY <1>14, <2>1 DEF Unheard
<1>16. e.type = "notify" => Unheard(tt) \subseteq Unheard(kk) \cup {<<e.vat, e.kpid>>}
  <2>1. e.type = "notify" => \A v \in Vats, p \in Promises :
                             Told(kk, v, p) => Told(tt, v, p) \/ (v = e.vat /\ p = e.kpid)
    BY <1>1, <1>2 DEF Told, SameButQueues
  <2> QED
    BY <1>14, <2>1 DEF Unheard
<1> QED
  BY <1>1, <1>2, <1>3, <1>4, <1>9, <1>10, <1>11, <1>12, <1>13, <1>15, <1>16

-----------------------------------------------------------------------------
(* The operations on the queues.                                           *)

LEMMA OutsideFits ==
  ASSUME NEW kk, Base(kk), NEW tt, SameButQueues(kk, tt),
         \A p \in Promises : tt.promises[p].queue = kk.promises[p].queue
  PROVE  QueuesFit(tt)
BY DEF Base, TableOK, QueuesFit, SameButQueues, Unresolved

\* On the acceptance queue.
Accepted(kk, tt, e) ==
  /\ tt \in KernelState /\ tt.acceptanceQueue = Append(kk.acceptanceQueue, e)
  /\ tt.promises = kk.promises /\ tt.clist = kk.clist /\ tt.runQueue = kk.runQueue
  /\ tt.nextKpid = kk.nextKpid /\ tt.live = kk.live /\ tt.terminated = kk.terminated
  /\ tt.external = kk.external /\ tt.awaiting = kk.awaiting /\ tt.failed = kk.failed

LEMMA AcceptedGood ==
  ASSUME NEW kk, Base(kk), NEW e \in Event, NEW tt, Accepted(kk, tt, e), Ready(kk, e),
         e.type = "send" => e.number <= tt.sends,
         kk.sends <= tt.sends, \A p \in Promises : Excess(kk, p) >= Owed(e, p)
  PROVE  /\ Base(tt)
         /\ \A p \in Promises : Excess(kk, p) = Excess(tt, p) + Owed(e, p)
         /\ Orphans(tt) \subseteq {p \in Orphans(kk) : ~(e.type = "send" /\ e.result = p)}
         /\ Unfit(tt) = Unfit(kk) /\ Unheard(tt) \subseteq Unheard(kk)
         /\ Notices(kk) \subseteq Notices(tt)
         /\ e.type = "notify" => e \in Notices(tt) /\ Notices(tt) \subseteq Notices(kk) \cup {e}
         /\ e.type # "notify" => Notices(tt) = Notices(kk)
         /\ Early(tt) \subseteq Early(kk) \cup {f \in {e} : e.type = "notify" /\ ~Settled(kk, e.kpid)}
         /\ Upgrading(tt) = Upgrading(kk) + One(e.type = "upgrade-vat")
         /\ SameButQueues(kk, tt)
<1>1. SameButQueues(kk, tt) /\ \A p \in Promises : tt.promises[p].queue = kk.promises[p].queue
  BY DEF Accepted, SameButQueues
<1>2. QueuesFit(tt)
  BY <1>1, OutsideFits
<1>3. Family(Queues(kk)) /\ kk \in KernelState /\ tt \in KernelState
  BY <1>1, SameButQueuesMeans
<1>4. Changed(Queues(kk), Queues(tt), 0, Append(Queues(kk)[0], e))
  <2>1. Queues(kk)[0] = kk.acceptanceQueue /\ Queues(tt)[0] = tt.acceptanceQueue
        /\ DOMAIN Queues(kk) = QueueIds /\ DOMAIN Queues(tt) = QueueIds
    BY <1>3, QueuesAre
  <2>2. \A j \in QueueIds : j # 0 => Queues(tt)[j] = Queues(kk)[j]
    BY DEF Queues, Accepted
  <2> QED
    BY <2>1, <2>2 DEF Changed, Accepted
<1>5. Fresh(Queues(kk), e)
  BY DEF Ready, Fresh
<1>6. 0 \in QueueIds /\ ~(0 \in Promises)
  BY ConstantsAre
<1>7. Put(Queues(kk), Queues(tt), e)
  BY <1>3, <1>4, <1>5, <1>6, PutIs
<1> QED
  BY <1>1, <1>2, <1>7, PutGood

\* The head of the acceptance queue (i is 0) or of the run queue is taken.
TakenFrom(kk, tt, i) ==
  /\ tt \in KernelState
  /\ tt.acceptanceQueue = (IF i = 0 THEN Tail(kk.acceptanceQueue) ELSE kk.acceptanceQueue)
  /\ tt.runQueue = (IF i = -1 THEN Tail(kk.runQueue) ELSE kk.runQueue)
  /\ tt.promises = kk.promises /\ tt.clist = kk.clist
  /\ tt.nextKpid = kk.nextKpid /\ tt.live = kk.live /\ tt.terminated = kk.terminated
  /\ tt.external = kk.external /\ tt.awaiting = kk.awaiting /\ tt.failed = kk.failed
  /\ tt.sends = kk.sends

TakeResult(kk, tt, e) ==
  /\ Base(tt) /\ Ready(tt, e) /\ (e.type = "send" => e.number <= tt.sends) /\ e \in Event
  /\ \A p \in Promises : Excess(tt, p) = Excess(kk, p) + Owed(e, p)
  /\ Orphans(tt) \subseteq Orphans(kk) \cup {p \in Promises : e.type = "send" /\ e.result = p}
  /\ Unfit(tt) = Unfit(kk) /\ Early(tt) \subseteq Early(kk)
  /\ e.type = "notify" => e \in Notices(kk) /\ Notices(kk) \subseteq Notices(tt) \cup {e}
  /\ Notices(tt) \subseteq Notices(kk)
  /\ e.type # "notify" => Notices(tt) = Notices(kk) /\ Unheard(tt) \subseteq Unheard(kk)
  /\ e.type = "notify" => Unheard(tt) \subseteq Unheard(kk) \cup {<<e.vat, e.kpid>>}
  /\ Upgrading(kk) = Upgrading(tt) + One(e.type = "upgrade-vat")
  /\ SameButQueues(kk, tt)

LEMMA TakenGood ==
  ASSUME NEW kk, Base(kk), NEW i \in {0, -1}, Queues(kk)[i] # <<>>, NEW tt, TakenFrom(kk, tt, i)
  PROVE  TakeResult(kk, tt, Head(Queues(kk)[i]))
<1> DEFINE e == Head(Queues(kk)[i])
<1>1. SameButQueues(kk, tt) /\ \A p \in Promises : tt.promises[p].queue = kk.promises[p].queue
  BY DEF TakenFrom, SameButQueues
<1>2. QueuesFit(tt)
  BY <1>1, OutsideFits
<1>3. Family(Queues(kk)) /\ kk \in KernelState /\ tt \in KernelState
  BY <1>1, SameButQueuesMeans
<1>4. Changed(Queues(kk), Queues(tt), i, Tail(Queues(kk)[i]))
  <2>1. /\ Queues(kk)[0] = kk.acceptanceQueue /\ Queues(tt)[0] = tt.acceptanceQueue
        /\ Queues(kk)[-1] = kk.runQueue /\ Queues(tt)[-1] = tt.runQueue
        /\ DOMAIN Queues(kk) = QueueIds /\ DOMAIN Queues(tt) = QueueIds
    BY <1>3, QueuesAre
  <2>2. \A j \in QueueIds : j # i => Queues(tt)[j] = Queues(kk)[j]
    BY DEF Queues, TakenFrom
  <2>3. Queues(tt)[i] = Tail(Queues(kk)[i])
    <3>1. CASE i = 0
      BY <2>1, <3>1 DEF TakenFrom
    <3>2. CASE i = -1
      BY <2>1, <3>2 DEF TakenFrom
    <3> QED
      BY <3>1, <3>2
  <2> QED
    BY <2>1, <2>2, <2>3 DEF Changed
<1>5. Put(Queues(tt), Queues(kk), e)
  BY <1>3, <1>4, TakeIs
<1>6. tt.sends = kk.sends /\ e \in Event
  BY <1>5 DEF TakenFrom, Put
<1> HIDE DEF e
<1>7. TakeResult(kk, tt, e)
  BY <1>1, <1>2, <1>5, <1>6, TakeGood DEF TakeResult
<1> QED
  BY <1>7 DEF e

\* A step that leaves the same events on the queues.
Shuffles(kk, tt) ==
  /\ Base(tt) /\ SameButQueues(kk, tt) /\ Sends(tt) = Sends(kk) /\ Notices(tt) = Notices(kk)
  /\ \A p \in Promises : Excess(tt, p) = Excess(kk, p)
  /\ NoWorse(kk, tt) /\ SameBudget(kk, tt)

LEMMA ShufflesGood ==
  ASSUME NEW kk, Base(kk), NEW tt, SameButQueues(kk, tt), Alike(Queues(kk), Queues(tt)),
         QueuesFit(tt), tt.sends = kk.sends
  PROVE  Shuffles(kk, tt)
<1>1. /\ kk \in KernelState /\ tt \in KernelState /\ tt.failed = FALSE
      /\ Family(Queues(kk)) /\ Sends(kk) \in SUBSET Send /\ Notices(kk) \in SUBSET Notification
      /\ \A p : p \in Promises =>
                   /\ Undecided(tt, p) <=> Undecided(kk, p)
                   /\ Settled(tt, p) <=> Settled(kk, p)
                   /\ Unresolved(tt, p) <=> Unresolved(kk, p)
      /\ Ended(tt) /\ Unfit(tt) = Unfit(kk)
      /\ TableOK(tt)
  BY SameButQueuesMeans
<1>2. /\ Family(Queues(tt)) /\ Sends(tt) = Sends(kk) /\ Notices(tt) = Notices(kk)
      /\ \A p \in Promises : QueueRefs(Queues(tt), p) = QueueRefs(Queues(kk), p)
      /\ Upgrading(tt) = Upgrading(kk)
  BY DEF Alike, Sends, Notices, Upgrading
<1>3. ASSUME NEW p \in Promises
      PROVE  Excess(tt, p) = Excess(kk, p) /\ Excess(tt, p) >= 0
  <2>1. /\ Excess(tt, p) = Excess(kk, p) + QueueRefs(Queues(kk), p) - QueueRefs(Queues(tt), p)
        /\ QueueRefs(Queues(kk), p) \in Nat /\ QueueRefs(Queues(tt), p) \in Nat
    BY <1>2, SameButQueuesRefs
  <2>2. Excess(kk, p) \in Int /\ Excess(kk, p) >= 0
    BY ExcessType
  <2> QED
    BY <1>2, <2>1, <2>2
<1>4. Numbered(tt)
  BY <1>2 DEF Base, Numbered, Family
<1>5. Resolvers(tt)
  <2>1. \A f \in Sends(kk) : f.result # NoPromise => f.result \in Promises /\ Undecided(kk, f.result)
    BY <1>1 DEF Base, Resolvers, Send
  <2> QED
    BY <1>1, <1>2, <2>1 DEF Base, Resolvers
<1>6. Base(tt)
  BY <1>1, <1>3, <1>4, <1>5 DEF Base
<1>7. Orphans(tt) = Orphans(kk)
  BY <1>1, <1>2 DEF Orphans
<1>8. Early(tt) = Early(kk)
  <2>1. \A f \in Notices(kk) : f.kpid \in Promises
    BY <1>1 DEF Notification
  <2> QED
    BY <1>1, <1>2, <2>1 DEF Early
<1>9. Unheard(tt) = Unheard(kk)
  <2>1. \A v \in Vats, p \in Promises : Told(kk, v, p) <=> Told(tt, v, p)
    BY <1>1, <1>2 DEF Told, SameButQueues
  <2> QED
    BY <2>1 DEF Unheard, SameButQueues
<1>10. SameBudget(kk, tt)
  BY <1>2 DEF SameBudget, SameButQueues
<1> QED
  BY <1>1, <1>2, <1>3, <1>6, <1>7, <1>8, <1>9, <1>10 DEF Shuffles, NoWorse

LEMMA RequeueGood ==
  ASSUME NEW kk, Base(kk), NEW p \in Promises
  PROVE  LET tt == RequeueKernelPromise(kk, p)
         IN Shuffles(kk, tt) /\ tt.promises[p].queue = <<>>
<1> DEFINE tt == RequeueKernelPromise(kk, p)
           r == kk.promises[p]
           s == [r EXCEPT !.queue = <<>>]
           P == [kk.promises EXCEPT ![p] = s]
           a == kk.acceptanceQueue \o r.queue
<1>1. kk \in KernelState /\ kk.promises \in [Promises -> KernelPromise] /\ r \in KernelPromise
  BY DEF Base, KernelState
<1>2. s \in KernelPromise /\ s.state = r.state /\ s.decider = r.decider
      /\ s.subscribers = r.subscribers /\ s.queue = <<>> /\ s.data = r.data /\ s.refCount = r.refCount
  <2>1. << >> \in Seq(Send)
    OBVIOUS
  <2> QED
    BY <1>1, <2>1 DEF KernelPromise
<1>3. a \in Seq(Event)
  <2>1. r.queue \in Seq(Event) /\ kk.acceptanceQueue \in Seq(Event)
    BY <1>1 DEF KernelPromise, Event, KernelState
  <2> QED
    BY <2>1
<1>4. tt = [kk EXCEPT !.promises = P, !.acceptanceQueue = a]
  BY <1>1 DEF RequeueKernelPromise, KernelState
<1> HIDE DEF s, a
<1>5. P \in [Promises -> KernelPromise] /\ P[p] = s /\ \A q \in Promises : q # p => P[q] = kk.promises[q]
  BY <1>1, <1>2
<1> HIDE DEF P, tt
<1>6. tt.promises = P /\ tt.acceptanceQueue = a /\ tt \in KernelState
  BY <1>1, <1>3, <1>4, <1>5 DEF KernelState
<1>7. /\ tt.clist = kk.clist /\ tt.runQueue = kk.runQueue /\ tt.nextKpid = kk.nextKpid /\ tt.live = kk.live
      /\ tt.terminated = kk.terminated /\ tt.external = kk.external /\ tt.sends = kk.sends
      /\ tt.awaiting = kk.awaiting /\ tt.failed = kk.failed
  BY <1>1, <1>4 DEF KernelState
<1>8. SameButQueues(kk, tt)
  BY <1>2, <1>5, <1>6, <1>7 DEF SameButQueues
<1>9. QueuesFit(tt)
  <2>1. tt.promises[p].queue = <<>>
    BY <1>2, <1>5, <1>6
  <2>2. \A q \in Promises : q # p => tt.promises[q] = kk.promises[q]
    BY <1>5, <1>6
  <2> QED
    BY <2>1, <2>2 DEF Base, TableOK, Unresolved, QueuesFit
<1>10. Moved(Queues(kk), Queues(tt), 0, p)
  <2>1. /\ Queues(kk)[0] = kk.acceptanceQueue /\ Queues(tt)[0] = tt.acceptanceQueue
        /\ Queues(kk)[-1] = kk.runQueue /\ Queues(tt)[-1] = tt.runQueue
        /\ DOMAIN Queues(kk) = QueueIds /\ DOMAIN Queues(tt) = QueueIds
        /\ \A q \in Promises : Queues(kk)[q] = kk.promises[q].queue /\ Queues(tt)[q] = tt.promises[q].queue
    BY <1>1, <1>6, QueuesAre
  <2>2. \A j \in QueueIds : j # 0 /\ j # -1 => j \in Promises
    BY ConstantsAre DEF QueueIds, Promises
  <2>3. \A j \in QueueIds : j # 0 /\ j # p => Queues(tt)[j] = Queues(kk)[j]
    BY <1>5, <1>6, <1>7, <2>1, <2>2
  <2> QED
    BY <1>2, <1>5, <1>6, <2>1, <2>3 DEF Moved, a
<1>11. Alike(Queues(kk), Queues(tt))
  <2>1. Family(Queues(kk))
    BY <1>8, SameButQueuesMeans
  <2> QED
    BY <1>10, <2>1, MoveIs
<1>12. Shuffles(kk, tt) /\ tt.promises[p].queue = <<>>
  BY <1>2, <1>5, <1>6, <1>7, <1>8, <1>9, <1>11, ShufflesGood
<1> QED
  BY <1>12 DEF tt

-----------------------------------------------------------------------------
(* The row of one promise.                                                 *)

\* Nothing but the row of p differs, and not its queue or its count.
RowStep(kk, tt, p) ==
  /\ tt \in KernelState
  /\ tt.clist = kk.clist /\ tt.acceptanceQueue = kk.acceptanceQueue
  /\ tt.runQueue = kk.runQueue /\ tt.live = kk.live
  /\ tt.terminated = kk.terminated /\ tt.sends = kk.sends /\ tt.external = kk.external
  /\ tt.awaiting = kk.awaiting /\ tt.failed = kk.failed
  /\ \A q \in Promises : q # p => tt.promises[q] = kk.promises[q]
  /\ tt.promises[p].queue = kk.promises[p].queue
  /\ tt.promises[p].refCount = kk.promises[p].refCount

RowSet(kk, tt, p, s, n) == tt = [kk EXCEPT !.promises[p] = s, !.nextKpid = n]

LEMMA RowStepIs ==
  ASSUME NEW kk \in KernelState, NEW p \in Promises, NEW s \in KernelPromise, NEW n \in Nat,
         s.queue = kk.promises[p].queue, s.refCount = kk.promises[p].refCount,
         NEW tt, RowSet(kk, tt, p, s, n)
  PROVE  RowStep(kk, tt, p) /\ tt.promises[p] = s /\ tt.nextKpid = n
<1> DEFINE P == [kk.promises EXCEPT ![p] = s]
<1>1. P \in [Promises -> KernelPromise] /\ P[p] = s /\ \A q \in Promises : q # p => P[q] = kk.promises[q]
  BY DEF KernelState
<1>2. tt = [kk EXCEPT !.promises = P, !.nextKpid = n]
  BY DEF RowSet
<1> HIDE DEF P
<1>3. tt.promises = P /\ tt \in KernelState /\ tt.nextKpid = n
  BY <1>1, <1>2 DEF KernelState
<1>4. /\ tt.clist = kk.clist /\ tt.acceptanceQueue = kk.acceptanceQueue
      /\ tt.runQueue = kk.runQueue /\ tt.live = kk.live
      /\ tt.terminated = kk.terminated /\ tt.sends = kk.sends /\ tt.external = kk.external
      /\ tt.awaiting = kk.awaiting /\ tt.failed = kk.failed
  BY <1>2 DEF KernelState
<1> QED
  BY <1>1, <1>3, <1>4 DEF RowStep

LEMMA RowData ==
  ASSUME NEW kk \in KernelState, NEW p \in Promises, NEW tt, RowStep(kk, tt, p), NEW q
  PROVE  DataRefs(kk, q) + One(tt.promises[p].data = Promise(q))
           = DataRefs(tt, q) + One(kk.promises[p].data = Promise(q))
<1> DEFINE A == {m \in Promises : kk.promises[m].data = Promise(q)}
           B == {m \in Promises : tt.promises[m].data = Promise(q)}
           C == {m \in Promises : kk.promises[m].data = Promise(q) /\ m # p}
           a == kk.promises[p].data = Promise(q)
           b == tt.promises[p].data = Promise(q)
<1>1. IsFiniteSet(C)
  BY ConstantsAre, FS_Subset
<1>2. A = (IF a THEN C \cup {p} ELSE C) /\ B = (IF b THEN C \cup {p} ELSE C) /\ p \notin C
  BY DEF RowStep
<1>3. DataRefs(kk, q) = Cardinality(A) /\ DataRefs(tt, q) = Cardinality(B)
  BY DEF DataRefs
<1>4. a \in BOOLEAN /\ b \in BOOLEAN
  OBVIOUS
<1>5. One(a) = One(kk.promises[p].data = Promise(q)) /\ One(b) = One(tt.promises[p].data = Promise(q))
  OBVIOUS
<1> HIDE DEF A, B, C, a, b
<1>6. Cardinality(A) = Cardinality(C) + One(a) /\ Cardinality(C) \in Nat
  BY <1>1, <1>2, <1>4, OneMore
<1>7. Cardinality(B) = Cardinality(C) + One(b)
  BY <1>1, <1>2, <1>4, OneMore
<1>8. One(a) \in Nat /\ One(b) \in Nat
  BY DEF One
<1> QED
  BY <1>3, <1>5, <1>6, <1>7, <1>8

LEMMA RowExcess ==
  ASSUME NEW kk, Base(kk), NEW p \in Promises, NEW tt, RowStep(kk, tt, p), NEW q \in Promises
  PROVE  /\ Queues(tt) = Queues(kk) /\ Sends(tt) = Sends(kk) /\ Notices(tt) = Notices(kk)
         /\ Excess(tt, q) + One(tt.promises[p].data = Promise(q))
              = Excess(kk, q) + One(kk.promises[p].data = Promise(q))
         /\ Excess(tt, q) \in Int
<1>1. kk \in KernelState /\ tt \in KernelState /\ Unique(Queues(kk))
  BY DEF Base, Numbered, RowStep
<1>2. \A i \in QueueIds : i # -1 /\ i # 0 => i \in Promises
  BY ConstantsAre DEF QueueIds, Promises
<1>3. \A m \in Promises : tt.promises[m].queue = kk.promises[m].queue
  BY DEF RowStep
<1>4. Queues(tt) = Queues(kk)
  BY <1>2, <1>3 DEF Queues, RowStep
<1>5. Sends(tt) = Sends(kk) /\ Notices(tt) = Notices(kk)
  BY <1>4 DEF Sends, Notices
<1>6. /\ HeldBy(kk, q) \in Nat /\ QueueRefs(Queues(kk), q) \in Nat /\ kk.external[q] \in Nat
      /\ DataRefs(kk, q) \in Nat /\ kk.promises[q].refCount \in Nat
  BY <1>1, RefsType
<1>7. /\ HeldBy(tt, q) \in Nat /\ DataRefs(tt, q) \in Nat /\ tt.promises[q].refCount \in Nat
  BY <1>1, <1>4, RefsType
<1>8. HeldBy(tt, q) = HeldBy(kk, q) /\ tt.external = kk.external
      /\ tt.promises[q].refCount = kk.promises[q].refCount
  BY DEF HeldBy, RowStep
<1>9. DataRefs(kk, q) + One(tt.promises[p].data = Promise(q))
           = DataRefs(tt, q) + One(kk.promises[p].data = Promise(q))
  BY <1>1, RowData
<1>10. One(tt.promises[p].data = Promise(q)) \in Nat /\ One(kk.promises[p].data = Promise(q)) \in Nat
  BY DEF One
<1>11. Excess(kk, q) = kk.promises[q].refCount
                         - (HeldBy(kk, q) + QueueRefs(Queues(kk), q) + kk.external[q] + DataRefs(kk, q))
  BY DEF Excess, Refs
<1>12. Excess(tt, q) = kk.promises[q].refCount
                         - (HeldBy(kk, q) + QueueRefs(Queues(kk), q) + kk.external[q] + DataRefs(tt, q))
  BY <1>4, <1>8 DEF Excess, Refs
<1>13. Excess(tt, q) + One(tt.promises[p].data = Promise(q))
              = Excess(kk, q) + One(kk.promises[p].data = Promise(q)) /\ Excess(tt, q) \in Int
  BY <1>6, <1>7, <1>9, <1>10, <1>11, <1>12
<1> QED
  BY <1>4, <1>5, <1>13

RowFits(tt, p) ==
  LET r == tt.promises[p]
  IN /\ p >= tt.nextKpid => r.state = "absent"
     /\ r.state = "absent" => r.refCount = 0 /\ r.data = NoSlot
     /\ r.state # "unresolved" => r.decider = NoVat /\ r.subscribers = {} /\ r.queue = <<>>
     /\ r.state = "unresolved" => r.data = NoSlot

\* What holds of the other promises still does.
OthersAsBefore(kk, tt, p) ==
  /\ \A q \in Orphans(tt) : q # p => q \in Orphans(kk)
  /\ \A d \in Unfit(tt) : d[2] # p => d \in Unfit(kk)
  /\ \A e \in Early(tt) : e.kpid # p => e \in Early(kk)
  /\ \A d \in Unheard(tt) : d[2] # p => d \in Unheard(kk)
  /\ Sends(tt) = Sends(kk) /\ Notices(tt) = Notices(kk) /\ Upgrading(tt) = Upgrading(kk)

LEMMA RowGood ==
  ASSUME NEW kk, Base(kk), NEW p \in Promises, NEW tt, RowStep(kk, tt, p), RowFits(tt, p),
         kk.nextKpid <= tt.nextKpid,
         ~Undecided(tt, p) => \A e \in Sends(kk) : e.result # p,
         \A q \in Promises : Excess(tt, q) >= 0
  PROVE  Base(tt) /\ OthersAsBefore(kk, tt, p)
<1>1. kk \in KernelState /\ tt \in KernelState /\ tt.failed = FALSE /\ Unique(Queues(kk))
  BY DEF Base, Numbered, RowStep
<1>2. Queues(tt) = Queues(kk) /\ Sends(tt) = Sends(kk) /\ Notices(tt) = Notices(kk)
  BY RowExcess
<1>3. Sends(kk) \in SUBSET Send /\ Notices(kk) \in SUBSET Notification
  BY <1>1, FamilyIs
<1>4. \A q \in Promises : q # p =>
        /\ Undecided(tt, q) <=> Undecided(kk, q)
        /\ Settled(tt, q) <=> Settled(kk, q)
        /\ Unresolved(tt, q) <=> Unresolved(kk, q)
  BY DEF Undecided, Settled, Unresolved, RowStep
<1>5. TableOK(tt)
  <2> DEFINE Fit(q) ==
        LET r == tt.promises[q]
        IN /\ q >= tt.nextKpid => r.state = "absent"
           /\ r.state = "absent" => r.refCount = 0 /\ r.data = NoSlot
           /\ r.state # "unresolved" => r.decider = NoVat /\ r.subscribers = {} /\ r.queue = <<>>
           /\ r.state = "unresolved" => r.data = NoSlot
           /\ \A a \in DOMAIN r.queue : r.queue[a].target = Promise(q)
  <2>1. ASSUME NEW q \in Promises, q # p
        PROVE  Fit(q)
    <3>1. tt.promises[q] = kk.promises[q]
      BY <2>1 DEF RowStep
    <3>2. q >= tt.nextKpid => q >= kk.nextKpid
      BY <1>1 DEF KernelState, Promises
    <3> QED
      BY <3>1, <3>2 DEF Base, TableOK
  <2>2. Fit(p)
    <3>1. \A a \in DOMAIN kk.promises[p].queue : kk.promises[p].queue[a].target = Promise(p)
      BY DEF Base, TableOK
    <3>2. tt.promises[p].queue = kk.promises[p].queue
      BY DEF RowStep
    <3> QED
      BY <3>1, <3>2 DEF RowFits
  <2> QED
    BY <2>1, <2>2 DEF TableOK
<1>6. Numbered(tt) /\ Ended(tt)
  BY <1>2 DEF Base, Numbered, Ended, RowStep
<1>7. Resolvers(tt)
  <2>1. \A e \in Sends(kk) : e.result # NoPromise => e.result \in Promises /\ Undecided(kk, e.result)
    BY <1>3 DEF Send, Base, Resolvers
  <2>2. \A e \in Sends(kk) : e.result # NoPromise => Undecided(tt, e.result)
    BY <1>4, <2>1
  <2> QED
    BY <1>2, <2>2 DEF Base, Resolvers
<1>8. Base(tt)
  BY <1>1, <1>5, <1>6, <1>7 DEF Base
<1>9. \A q \in Orphans(tt) : q # p => q \in Orphans(kk)
  BY <1>2, <1>4 DEF Orphans
<1>10. \A d \in Unfit(tt) : d[2] # p => d \in Unfit(kk)
  BY DEF Unfit, Decided, RowStep
<1>11. \A e \in Early(tt) : e.kpid # p => e \in Early(kk)
  <2>1. \A e \in Notices(kk) : e.kpid \in Promises
    BY <1>3 DEF Notification
  <2> QED
    BY <1>2, <1>4, <2>1 DEF Early
<1>12. \A d \in Unheard(tt) : d[2] # p => d \in Unheard(kk)
  <2>1. \A v \in Vats, q \in Promises : q # p /\ Told(kk, v, q) => Told(tt, v, q)
    BY <1>2, <1>4 DEF Told, RowStep
  <2> QED
    BY <2>1 DEF Unheard, RowStep
<1>13. Upgrading(tt) = Upgrading(kk)
  BY <1>2 DEF Upgrading
<1> QED
  BY <1>2, <1>8, <1>9, <1>10, <1>11, <1>12, <1>13 DEF OthersAsBefore

-----------------------------------------------------------------------------
(* New promises, their deciders and subscribers.                           *)

LEMMA ReferredFrom ==
  ASSUME NEW kk, Base(kk), NEW p \in Promises, Refs(kk, p) = 0
  PROVE  /\ \A v \in Vats : p \notin kk.clist[v]
         /\ \A e \in Sends(kk) : e.target # Promise(p) /\ e.arg # Promise(p) /\ e.result # p
         /\ \A e \in Notices(kk) : e.kpid # p
         /\ \A q \in Promises : kk.promises[q].data # Promise(p)
         /\ kk.external[p] = 0
<1> DEFINE q == Queues(kk)
           S == Sends(kk)
<1>1. kk \in KernelState /\ Unique(q) /\ Family(q) /\ IsFiniteSet(S) /\ S = Of(q, "send")
  BY FamilyIs DEF Base, Numbered, Sends
<1>2. /\ HeldBy(kk, p) \in Nat /\ QueueRefs(q, p) \in Nat /\ kk.external[p] \in Nat
      /\ DataRefs(kk, p) \in Nat
  BY <1>1, RefsType
<1>3. HeldBy(kk, p) = 0 /\ QueueRefs(q, p) = 0 /\ kk.external[p] = 0 /\ DataRefs(kk, p) = 0
  BY <1>2 DEF Refs
<1>4. /\ TargetRefs(S, p) \in Nat /\ ArgRefs(S, p) \in Nat /\ ResultRefs(S, p) \in Nat
      /\ CountIn(q[0], NoticesOf(p)) \in Nat /\ CountIn(q[-1], NoticesOf(p)) \in Nat
  BY <1>1, QueueRefsType
<1>5. QueueRefs(q, p) = TargetRefs(S, p) + ArgRefs(S, p) + ResultRefs(S, p)
                          + (CountIn(q[0], NoticesOf(p)) + CountIn(q[-1], NoticesOf(p)))
  BY <1>1 DEF QueueRefs, Tally
<1>6. /\ TargetRefs(S, p) = 0 /\ ArgRefs(S, p) = 0 /\ ResultRefs(S, p) = 0
      /\ CountIn(q[0], NoticesOf(p)) = 0 /\ CountIn(q[-1], NoticesOf(p)) = 0
  BY <1>3, <1>4, <1>5
<1> HIDE DEF S, q
<1>7. \A v \in Vats : p \notin kk.clist[v]
  <2>1. Cardinality({v \in Vats : p \in kk.clist[v]}) = 0
    BY <1>3 DEF HeldBy
  <2>2. {v \in Vats : p \in kk.clist[v]} = {}
    BY <2>1, CountedIn, ConstantsAre
  <2> QED
    BY <2>2
<1>8. \A m \in Promises : kk.promises[m].data # Promise(p)
  <2>1. Cardinality({m \in Promises : kk.promises[m].data = Promise(p)}) = 0
    BY <1>3 DEF DataRefs
  <2>2. {m \in Promises : kk.promises[m].data = Promise(p)} = {}
    BY <2>1, CountedIn, ConstantsAre
  <2> QED
    BY <2>2
<1>9. \A e \in S : e.target # Promise(p) /\ e.arg # Promise(p) /\ e.result # p
  <2>1. {e \in S : e.target = Promise(p)} = {}
    BY <1>1, <1>6, CountedIn DEF TargetRefs
  <2>2. {e \in S : e.arg = Promise(p)} = {}
    BY <1>1, <1>6, CountedIn DEF ArgRefs
  <2>3. {e \in S : e.result = p} = {}
    BY <1>1, <1>6, CountedIn DEF ResultRefs
  <2> QED
    BY <2>1, <2>2, <2>3
<1>10. \A e \in Notices(kk) : e.kpid # p
  <2>1. SUFFICES ASSUME NEW e \in Notices(kk), e.kpid = p
                 PROVE  FALSE
    OBVIOUS
  <2>2. e \in Notification /\ At(q, e)
    <3>1. e \in Of(q, "notify")
      BY DEF Notices, q
    <3>2. e.type = "notify" /\ At(q, e)
      BY <3>1, OfIs
    <3> QED
      BY <1>1, <3>1, <3>2, SendsAreFinite
  <2>3. e \in NoticesOf(p)
    BY <2>1, <2>2 DEF Notification, NoticesOf
  <2>4. PICK i \in QueueIds : \E b \in DOMAIN q[i] : q[i][b] = e
    BY <1>1, <2>2 DEF At, Family
  <2> PICK a \in DOMAIN q[i] : q[i][a] = e
    BY <2>4
  <2>5. i = 0 \/ i = -1
    <3>1. i \in Promises => e \in Send
      BY <1>1 DEF Family
    <3>2. ~(e \in Send)
      BY <2>2 DEF Send, Notification
    <3> QED
      BY <3>1, <3>2, ConstantsAre DEF QueueIds, Promises
  <2>6. CountIn(q[i], NoticesOf(p)) = 0 /\ q[i] \in Seq(Event)
    BY <1>1, <1>6, <2>5, ConstantsAre DEF Family
  <2> DEFINE T == {b \in DOMAIN q[i] : q[i][b] \in NoticesOf(p)}
  <2>7. IsFiniteSet(T) /\ Cardinality(T) = 0
    BY <2>6, CountSet DEF CountIn
  <2>8. a \in T
    BY <2>3
  <2> HIDE DEF T
  <2> QED
    BY <2>7, <2>8, FS_EmptySet
<1> QED
  BY <1>3, <1>7, <1>8, <1>9, <1>10 DEF S

\* A promise of which nothing is left in the table has no references.
LEMMA AbsentIs ==
  ASSUME NEW kk, Base(kk), NEW p \in Promises, ~HasKernelPromise(kk, p)
  PROVE  /\ kk.promises[p].refCount = 0 /\ Refs(kk, p) = 0 /\ kk.promises[p].data = NoSlot
         /\ kk.promises[p].queue = <<>>
<1>1. kk.promises[p].refCount = 0 /\ kk.promises[p].data = NoSlot /\ kk.promises[p].queue = <<>>
  BY DEF Base, TableOK, HasKernelPromise
<1>2. Refs(kk, p) \in Nat /\ kk.promises[p].refCount \in Nat /\ Excess(kk, p) >= 0
      /\ kk.promises[p].refCount = Refs(kk, p) + Excess(kk, p) /\ Excess(kk, p) \in Int
  BY ExcessType
<1> QED
  BY <1>1, <1>2

AddResult(kk, tt, p, d) ==
  /\ Base(tt) /\ RowStep(kk, tt, p) /\ tt.nextKpid = p + 1
  /\ tt.promises[p].state = "unresolved" /\ tt.promises[p].decider = d
  /\ ~HasKernelPromise(kk, p)
  /\ \A q \in Promises : Excess(tt, q) = Excess(kk, q)
  /\ Orphans(tt) \subseteq Orphans(kk) \cup {q \in {p} : d = NoVat}
  /\ Unfit(tt) \subseteq Unfit(kk) \cup {f \in {<<d, p>>} : d # NoVat}
  /\ Early(tt) \subseteq Early(kk) /\ Unheard(tt) \subseteq Unheard(kk)
  /\ Sends(tt) = Sends(kk) /\ Notices(tt) = Notices(kk)
  /\ Upgrading(tt) = Upgrading(kk)
  /\ \A e \in Sends(kk) : e.result # p /\ e.target # Promise(p)
  /\ \A v \in Vats : p \notin kk.clist[v]

LEMMA NoSlotIs == NoSlot \in Slot /\ \A p : NoSlot # Promise(p)
BY DEF NoSlot, Slot, Promise

LEMMA AddPromiseGood ==
  ASSUME NEW kk, Base(kk), kk.nextKpid \in Promises, NEW d \in Vats \cup {NoVat}
  PROVE  AddResult(kk, AddKernelPromise(kk, d), kk.nextKpid, d)
<1> DEFINE p == kk.nextKpid
           s == [Absent EXCEPT !.state = "unresolved", !.decider = d]
           n == kk.nextKpid + 1
           tt == AddKernelPromise(kk, d)
<1>1. kk \in KernelState /\ p \in Promises /\ p \in Nat /\ n \in Nat
  <2>1. kk \in KernelState /\ p \in Promises
    BY DEF Base
  <2>2. p \in Nat
    BY <2>1 DEF KernelState
  <2> QED
    BY <2>1, <2>2
<1>2. ~HasKernelPromise(kk, p)
  BY <1>1 DEF Base, TableOK, HasKernelPromise
<1>3. /\ kk.promises[p].refCount = 0 /\ Refs(kk, p) = 0 /\ kk.promises[p].data = NoSlot
      /\ kk.promises[p].queue = <<>>
  BY <1>1, <1>2, AbsentIs
<1>4. /\ s \in KernelPromise /\ s.state = "unresolved" /\ s.decider = d /\ s.subscribers = {}
      /\ s.queue = <<>> /\ s.refCount = 0 /\ s.data = NoSlot
  <2>1. << >> \in Seq(Send) /\ NoSlot \in Slot
    BY NoSlotIs
  <2> QED
    BY <2>1 DEF Absent, KernelPromise, PromiseStates
<1>5. RowSet(kk, tt, p, s, n)
  BY DEF AddKernelPromise, RowSet
<1> HIDE DEF s, tt, n
<1>6. RowStep(kk, tt, p) /\ tt.promises[p] = s /\ tt.nextKpid = n
  BY <1>1, <1>3, <1>4, <1>5, RowStepIs
<1>7. \A q \in Promises : Excess(tt, q) = Excess(kk, q) /\ Excess(tt, q) >= 0
  <2> TAKE q \in Promises
  <2>1. Excess(tt, q) + One(tt.promises[p].data = Promise(q))
              = Excess(kk, q) + One(kk.promises[p].data = Promise(q)) /\ Excess(tt, q) \in Int
    BY <1>1, <1>6, RowExcess
  <2>2. One(tt.promises[p].data = Promise(q)) = 0 /\ One(kk.promises[p].data = Promise(q)) = 0
    BY <1>3, <1>4, <1>6, NoSlotIs DEF One
  <2>3. Excess(kk, q) \in Int /\ Excess(kk, q) >= 0
    BY ExcessType
  <2> QED
    BY <2>1, <2>2, <2>3
<1>8. /\ \A v \in Vats : p \notin kk.clist[v]
      /\ \A e \in Sends(kk) : e.target # Promise(p) /\ e.arg # Promise(p) /\ e.result # p
      /\ \A e \in Notices(kk) : e.kpid # p
  BY <1>1, <1>3, ReferredFrom
<1>9. RowFits(tt, p)
  BY <1>1, <1>4, <1>6 DEF RowFits, n
<1>10. kk.nextKpid <= tt.nextKpid
  BY <1>1, <1>6 DEF n
<1>11. Base(tt) /\ OthersAsBefore(kk, tt, p)
  BY <1>1, <1>6, <1>7, <1>8, <1>9, <1>10, RowGood
<1>12. Orphans(tt) \subseteq Orphans(kk) \cup {q \in {p} : d = NoVat}
  BY <1>4, <1>6, <1>11 DEF OthersAsBefore, Orphans, Undecided
<1>13. Unfit(tt) \subseteq Unfit(kk) \cup {f \in {<<d, p>>} : d # NoVat}
  BY <1>4, <1>6, <1>11 DEF OthersAsBefore, Unfit, Decided
<1>14. Early(tt) \subseteq Early(kk)
  BY <1>8, <1>11 DEF OthersAsBefore, Early
<1>15. Unheard(tt) \subseteq Unheard(kk)
  <2>1. ASSUME NEW f \in Unheard(tt)
        PROVE  f \in Unheard(kk)
    <3>1. CASE f[2] = p
      <4>1. f \in Vats \X Promises /\ p \notin kk.clist[f[1]]
        BY <2>1, <1>8 DEF Unheard
      <4> QED
        BY <2>1, <3>1, <4>1, <1>6 DEF Unheard, Told, RowStep
    <3>2. CASE f[2] # p
      BY <2>1, <1>11, <3>2 DEF OthersAsBefore
    <3> QED
      BY <3>1, <3>2
  <2> QED
    BY <2>1
<1> QED
  BY <1>2, <1>4, <1>6, <1>7, <1>8, <1>11, <1>12, <1>13, <1>14, <1>15 DEF AddResult, OthersAsBefore, tt, n

\* What changes the decider or the subscribers of an unresolved promise.
Redecides(kk, tt, p, d, subs) ==
  /\ RowStep(kk, tt, p) /\ tt.nextKpid = kk.nextKpid
  /\ tt.promises[p].state = "unresolved" /\ tt.promises[p].data = kk.promises[p].data
  /\ tt.promises[p].decider = d /\ tt.promises[p].subscribers = subs

RowRedecided(kk, p, d, subs) ==
  [kk EXCEPT !.promises[p] = [kk.promises[p] EXCEPT !.decider = d, !.subscribers = subs]]

LEMMA RedecidesIs ==
  ASSUME NEW kk \in KernelState, NEW p \in Promises, Unresolved(kk, p),
         NEW d \in Vats \cup {NoVat}, NEW subs \in SUBSET Vats
  PROVE  Redecides(kk, RowRedecided(kk, p, d, subs), p, d, subs)
<1> DEFINE n == kk.nextKpid
           s == [kk.promises[p] EXCEPT !.decider = d, !.subscribers = subs]
           tt == RowRedecided(kk, p, d, subs)
           r == kk.promises[p]
<1>1. r \in KernelPromise /\ n \in Nat
  BY DEF KernelState
<1>2. /\ s \in KernelPromise /\ s.state = "unresolved" /\ s.decider = d /\ s.subscribers = subs
      /\ s.queue = r.queue /\ s.refCount = r.refCount /\ s.data = r.data
  BY <1>1 DEF KernelPromise, Unresolved
<1>3. RowSet(kk, tt, p, s, n)
  BY DEF KernelState, RowSet, RowRedecided
<1> HIDE DEF n, r, s, tt
<1>4. RowStep(kk, tt, p) /\ tt.promises[p] = s /\ tt.nextKpid = n
  <2>1. s.queue = kk.promises[p].queue /\ s.refCount = kk.promises[p].refCount
    BY <1>2 DEF r
  <2>2. s \in KernelPromise /\ n \in Nat
    BY <1>1, <1>2
  <2> QED
    BY <1>3, <2>1, <2>2, RowStepIs
<1> QED
  BY <1>2, <1>4 DEF Redecides, n, r, tt

RedecideResult(kk, tt, p) ==
  /\ Base(tt) /\ OthersAsBefore(kk, tt, p)
  /\ \A q \in Promises : Excess(tt, q) = Excess(kk, q)
  /\ Early(tt) \subseteq Early(kk) /\ SameBudget(kk, tt)

LEMMA RedecideGood ==
  ASSUME NEW kk, Base(kk), NEW p \in Promises, Unresolved(kk, p), NEW tt, NEW d, NEW subs,
         Redecides(kk, tt, p, d, subs),
         d # NoVat => \A e \in Sends(kk) : e.result # p
  PROVE  RedecideResult(kk, tt, p)
<1>1. kk \in KernelState /\ RowStep(kk, tt, p) /\ tt.nextKpid = kk.nextKpid /\ kk.nextKpid \in Nat
  BY DEF Redecides, Base, KernelState
<1>2. \A q \in Promises : Excess(tt, q) = Excess(kk, q) /\ Excess(tt, q) >= 0
  <2> TAKE q \in Promises
  <2>1. Excess(tt, q) + One(tt.promises[p].data = Promise(q))
              = Excess(kk, q) + One(kk.promises[p].data = Promise(q)) /\ Excess(tt, q) \in Int
    BY <1>1, RowExcess
  <2>2. One(tt.promises[p].data = Promise(q)) = One(kk.promises[p].data = Promise(q))
        /\ One(kk.promises[p].data = Promise(q)) \in Nat
    BY DEF One, Redecides
  <2>3. Excess(kk, q) \in Int /\ Excess(kk, q) >= 0
    BY ExcessType
  <2> QED
    BY <2>1, <2>2, <2>3
<1>3. RowFits(tt, p)
  BY <1>1 DEF RowFits, Redecides, Base, TableOK, Unresolved
<1>4. ~Undecided(tt, p) => \A e \in Sends(kk) : e.result # p
  BY DEF Undecided, Unresolved, Redecides
<1>5. Base(tt) /\ OthersAsBefore(kk, tt, p)
  BY <1>1, <1>2, <1>3, <1>4, RowGood
<1>6. Early(tt) \subseteq Early(kk)
  <2>1. ~Settled(kk, p)
    BY DEF Settled, Unresolved
  <2> QED
    BY <1>5, <2>1 DEF OthersAsBefore, Early
<1>7. SameBudget(kk, tt)
  BY <1>1, <1>5 DEF SameBudget, OthersAsBefore, RowStep
<1> QED
  BY <1>2, <1>5, <1>6, <1>7 DEF RedecideResult

-----------------------------------------------------------------------------
(* Settling a promise, and deleting it.                                    *)

\* What differs is the promise p, and where the sends are.
PromiseStep(kk, tt, p) ==
  /\ tt \in KernelState
  /\ tt.clist = kk.clist /\ tt.live = kk.live
  /\ tt.terminated = kk.terminated /\ tt.external = kk.external
  /\ tt.awaiting = kk.awaiting
  /\ \A q \in Promises : q # p =>
       /\ tt.promises[q].state = kk.promises[q].state
       /\ tt.promises[q].decider = kk.promises[q].decider
       /\ tt.promises[q].subscribers = kk.promises[q].subscribers
       /\ tt.promises[q].data = kk.promises[q].data

SettleResult(kk, tt, p, data) ==
  /\ Base(tt) /\ PromiseStep(kk, tt, p) /\ SameBudget(kk, tt)
  /\ Settled(tt, p) /\ tt.promises[p].data = data
  /\ Sends(tt) = Sends(kk) /\ Notices(tt) = Notices(kk)
  /\ \A q \in Promises : Excess(tt, q) = Excess(kk, q)
  /\ Orphans(tt) \subseteq Orphans(kk) \ {p}
  /\ \A d \in Unfit(tt) : d \in Unfit(kk) /\ d[2] # p
  /\ \A e \in Early(tt) : e \in Early(kk) /\ e.kpid # p
  /\ Unheard(tt) \subseteq Unheard(kk)

AllTold(kk, p) ==
  \A v \in kk.promises[p].subscribers : \E e \in Notices(kk) : e.vat = v /\ e.kpid = p

LEMMA SettleGood ==
  ASSUME NEW kk, Base(kk), NEW p \in Promises, Unresolved(kk, p),
         \A e \in Sends(kk) : e.result # p, AllTold(kk, p),
         NEW state \in {"fulfilled", "rejected"},
         NEW data \in Slot, data.type = "promise" => HasKernelPromise(kk, data.id)
  PROVE  SettleResult(kk, ResolveKernelPromise(kk, p, state, data), p, data)
<1> DEFINE k1 == IncrementSlot(kk, data)
           k2 == RequeueKernelPromise(k1, p)
           s == [Absent EXCEPT !.state = state, !.data = data, !.refCount = k2.promises[p].refCount]
           n == k2.nextKpid
           tt == ResolveKernelPromise(kk, p, state, data)
<1>1. /\ Counts(kk, k1)
      /\ \A q \in Promises : Excess(k1, q) = Excess(kk, q) + One(data = Promise(q))
  BY IncrementSlotGood
<1> HIDE DEF k1
<1>2. Base(k1)
  BY <1>1 DEF Counts
<1>3. Shuffles(k1, k2) /\ k2.promises[p].queue = <<>>
  BY <1>2, RequeueGood
<1>4. Base(k2)
  BY <1>3 DEF Shuffles
<1> HIDE DEF k2
<1>5. /\ k2 \in KernelState /\ k2.promises[p].refCount \in Nat /\ n \in Nat
      /\ k2.promises[p].state = "unresolved" /\ k2.promises[p].data = NoSlot
  <2>1. k2 \in KernelState
    BY <1>4 DEF Base
  <2>2. k2.promises[p] \in KernelPromise /\ n \in Nat
    BY <2>1 DEF KernelState
  <2>3. k1.promises[p].state = "unresolved"
    BY <1>1 DEF Counts, Recounts, SameRowsButCounts, Unresolved
  <2>4. k2.promises[p].state = "unresolved"
    BY <1>3, <2>3 DEF Shuffles, SameButQueues
  <2>5. k2.promises[p].data = NoSlot
    BY <1>4, <2>4 DEF Base, TableOK
  <2> QED
    BY <2>1, <2>2, <2>4, <2>5 DEF KernelPromise
<1>6. /\ s \in KernelPromise /\ s.state = state /\ s.decider = NoVat /\ s.subscribers = {}
      /\ s.queue = <<>> /\ s.refCount = k2.promises[p].refCount /\ s.data = data
  <2>1. << >> \in Seq(Send)
    OBVIOUS
  <2> QED
    BY <1>5, <2>1 DEF Absent, KernelPromise, PromiseStates
<1>7. RowSet(k2, tt, p, s, n)
  BY <1>5 DEF ResolveKernelPromise, RowSet, k2, k1, KernelState
<1> HIDE DEF s, n, tt
<1>8. RowStep(k2, tt, p) /\ tt.promises[p] = s /\ tt.nextKpid = n
  BY <1>3, <1>5, <1>6, <1>7, RowStepIs
<1>9. \A q \in Promises : Excess(tt, q) = Excess(kk, q) /\ Excess(tt, q) >= 0
  <2> TAKE q \in Promises
  <2>1. Excess(tt, q) + One(tt.promises[p].data = Promise(q))
              = Excess(k2, q) + One(k2.promises[p].data = Promise(q)) /\ Excess(tt, q) \in Int
    BY <1>4, <1>8, RowExcess
  <2>2. One(k2.promises[p].data = Promise(q)) = 0
    BY <1>5, NoSlotIs DEF One
  <2>3. tt.promises[p].data = data /\ One(data = Promise(q)) \in Nat
    BY <1>6, <1>8 DEF One
  <2>4. Excess(kk, q) \in Int /\ Excess(kk, q) >= 0
    BY ExcessType
  <2>5. Excess(k2, q) = Excess(kk, q) + One(data = Promise(q))
    BY <1>1, <1>3 DEF Shuffles
  <2> QED
    BY <2>1, <2>2, <2>3, <2>4, <2>5
<1>10. Sends(k2) = Sends(kk) /\ Notices(k2) = Notices(kk)
  <2>1. Sends(k1) = Sends(kk) /\ Notices(k1) = Notices(kk)
    BY <1>1, RecountsRefs DEF Counts, Base
  <2> QED
    BY <1>3, <2>1 DEF Shuffles
<1>11. RowFits(tt, p)
  <2>1. ~(p >= n)
    BY <1>4, <1>5 DEF Base, TableOK, n
  <2>2. state # "absent" /\ state # "unresolved"
    OBVIOUS
  <2> QED
    BY <1>6, <1>8, <2>1, <2>2 DEF RowFits
<1>12. k2.nextKpid <= tt.nextKpid
  BY <1>5, <1>8 DEF n
<1>13. Base(tt) /\ OthersAsBefore(k2, tt, p)
  BY <1>4, <1>8, <1>9, <1>10, <1>11, <1>12, RowGood
<1>14. /\ Orphans(k2) \subseteq Orphans(kk) /\ Unfit(k2) \subseteq Unfit(kk)
       /\ Early(k2) \subseteq Early(kk) /\ Unheard(k2) \subseteq Unheard(kk)
       /\ SameBudget(kk, k2)
  BY <1>1, <1>3 DEF Counts, Shuffles, NoWorse, SameBudget
<1>15. Settled(tt, p) /\ tt.promises[p].data = data /\ ~Unresolved(tt, p) /\ tt.promises[p].decider = NoVat
  BY <1>6, <1>8 DEF Settled, Unresolved
<1>16. Sends(tt) = Sends(kk) /\ Notices(tt) = Notices(kk) /\ SameBudget(kk, tt)
  BY <1>8, <1>10, <1>13, <1>14 DEF OthersAsBefore, SameBudget, RowStep, n
<1>17. PromiseStep(kk, tt, p)
  <2>1. /\ tt \in KernelState /\ tt.clist = k2.clist /\ tt.live = k2.live
        /\ tt.terminated = k2.terminated /\ tt.external = k2.external /\ tt.awaiting = k2.awaiting
        /\ \A q \in Promises : q # p => tt.promises[q] = k2.promises[q]
    BY <1>8 DEF RowStep
  <2>2. /\ k2.clist = k1.clist /\ k2.live = k1.live
        /\ k2.terminated = k1.terminated /\ k2.external = k1.external /\ k2.awaiting = k1.awaiting
        /\ \A q \in Promises : /\ k2.promises[q].state = k1.promises[q].state
                               /\ k2.promises[q].decider = k1.promises[q].decider
                               /\ k2.promises[q].subscribers = k1.promises[q].subscribers
                               /\ k2.promises[q].data = k1.promises[q].data
    BY <1>3 DEF Shuffles, SameButQueues
  <2>3. /\ k1.clist = kk.clist /\ k1.live = kk.live
        /\ k1.terminated = kk.terminated /\ k1.external = kk.external /\ k1.awaiting = kk.awaiting
        /\ SameRowsButCounts(kk, k1)
    BY <1>1 DEF Counts, Recounts, SameRest
  <2> QED
    BY <2>1, <2>2, <2>3 DEF PromiseStep, SameRowsButCounts
<1>18. Orphans(tt) \subseteq Orphans(kk) \ {p}
  BY <1>13, <1>14, <1>15 DEF OthersAsBefore, Orphans, Undecided
<1>19. \A d \in Unfit(tt) : d \in Unfit(kk) /\ d[2] # p
  <2>1. \A d \in Unfit(tt) : d[2] # p
    BY <1>15 DEF Unfit, Decided
  <2> QED
    BY <1>13, <1>14, <2>1 DEF OthersAsBefore
<1>20. \A e \in Early(tt) : e \in Early(kk) /\ e.kpid # p
  <2>1. \A e \in Early(tt) : e.kpid # p
    BY <1>15 DEF Early
  <2> QED
    BY <1>13, <1>14, <2>1 DEF OthersAsBefore
<1>21. Unheard(tt) \subseteq Unheard(kk)
  <2>1. ASSUME NEW d \in Unheard(tt), d[2] = p
        PROVE  d \in Unheard(kk)
    <3>1. /\ d \in Vats \X Promises /\ d[1] \in kk.live /\ p \in kk.awaiting[d[1]] /\ ~Told(tt, d[1], p)
      BY <1>17, <2>1 DEF Unheard, PromiseStep
    <3>2. ~Told(kk, d[1], p)
      BY <1>15, <1>16, <1>17, <3>1 DEF Told, PromiseStep, AllTold
    <3> QED
      BY <2>1, <3>1, <3>2 DEF Unheard
  <2> QED
    BY <1>13, <1>14, <2>1 DEF OthersAsBefore
<1>22. SettleResult(kk, tt, p, data)
  BY <1>9, <1>13, <1>15, <1>16, <1>17, <1>18, <1>19, <1>20, <1>21 DEF SettleResult
<1> QED
  BY <1>22 DEF tt

\* A promise that nothing refers to goes, and what it refers to may go next.
FreeResult(kk, tt, p) ==
  /\ Base(tt) /\ PromiseStep(kk, tt, p) /\ SameBudget(kk, tt) /\ NoWorse(kk, tt)
  /\ \A q \in Promises : Excess(tt, q) = Excess(kk, q)

LEMMA Unused ==
  ASSUME NEW kk, Base(kk), Orphans(kk) = {}, Unfit(kk) = {},
         NEW p \in Promises, HasKernelPromise(kk, p), kk.promises[p].refCount = 0
  PROVE  Refs(kk, p) = 0 /\ Settled(kk, p)
<1>1. Refs(kk, p) = 0
  BY ExcessType
<1>2. /\ \A v \in Vats : p \notin kk.clist[v]
      /\ \A e \in Sends(kk) : e.result # p
  BY <1>1, ReferredFrom
<1>3. kk.promises[p] \in KernelPromise
  BY DEF Base, KernelState
<1>4. ~Unresolved(kk, p)
  <2>1. SUFFICES ASSUME Unresolved(kk, p)
                 PROVE  FALSE
    OBVIOUS
  <2>2. CASE kk.promises[p].decider = NoVat
    BY <1>2, <2>1, <2>2 DEF Orphans, Undecided
  <2>3. CASE kk.promises[p].decider # NoVat
    <3>1. kk.promises[p].decider \in Vats
      BY <1>3, <2>3 DEF KernelPromise
    <3>2. <<kk.promises[p].decider, p>> \in Unfit(kk)
      BY <1>2, <2>3, <3>1 DEF Unfit, Decided
    <3> QED
      BY <3>2
  <2> QED
    BY <2>2, <2>3
<1> QED
  BY <1>1, <1>3, <1>4 DEF KernelPromise, PromiseStates, Settled, Unresolved, HasKernelPromise

LEMMA FreeGood ==
  ASSUME NEW kk, Base(kk), Orphans(kk) = {}, Unfit(kk) = {}, NEW p \in Promises
  PROVE  FreeResult(kk, ProcessMaybeFree(kk, p), p)
<1> DEFINE tt == ProcessMaybeFree(kk, p)
           data == kk.promises[p].data
           n == kk.nextKpid
           s == Absent
           k0 == [kk EXCEPT !.promises[p] = Absent]
<1>0. kk \in KernelState /\ kk.promises[p] \in KernelPromise /\ n \in Nat /\ data \in Slot
  BY DEF Base, KernelState, KernelPromise
<1>1. CASE ~HasKernelPromise(kk, p) \/ kk.promises[p].refCount > 0
  <2>1. tt = kk
    BY <1>1 DEF ProcessMaybeFree
  <2> QED
    BY <1>0, <2>1 DEF FreeResult, PromiseStep, SameBudget, NoWorse
<1>2. CASE HasKernelPromise(kk, p) /\ ~(kk.promises[p].refCount > 0)
  <2>1. kk.promises[p].refCount = 0
    BY <1>0, <1>2 DEF KernelPromise
  <2>2. Refs(kk, p) = 0 /\ Settled(kk, p)
    BY <1>2, <2>1, Unused
  <2>3. /\ \A v \in Vats : p \notin kk.clist[v]
        /\ \A e \in Sends(kk) : e.result # p
        /\ \A e \in Notices(kk) : e.kpid # p
        /\ \A q \in Promises : kk.promises[q].data # Promise(p)
    BY <2>2, ReferredFrom
  <2>4. kk.promises[p].queue = <<>> /\ kk.promises[p].decider = NoVat
    BY <2>2 DEF Base, TableOK, Settled
  <2>5. /\ s \in KernelPromise /\ s.state = "absent" /\ s.decider = NoVat /\ s.subscribers = {}
        /\ s.queue = <<>> /\ s.refCount = 0 /\ s.data = NoSlot
    <3>1. << >> \in Seq(Send) /\ NoSlot \in Slot
      BY NoSlotIs
    <3> QED
      BY <3>1 DEF Absent, KernelPromise, PromiseStates
  <2>6. RowSet(kk, k0, p, s, n)
    BY <1>0 DEF RowSet, KernelState
  <2>6a. k0.maybeFree = kk.maybeFree
    BY <1>0 DEF KernelState
  <2>7. tt = DecrementSlot(k0, data)
    <3>1. tt = [DecrementSlot(kk, data) EXCEPT !.promises[p] = Absent]
      BY <1>2 DEF ProcessMaybeFree
    <3>2. CASE data.type # "promise"
      BY <3>1, <3>2 DEF DecrementSlot
    <3>3. CASE data.type = "promise"
      <4> DEFINE d == data.id
      <4>1. d \in Promises /\ data = Promise(d) /\ d # p
        BY <1>0, <2>3, <3>3, SlotIs
      <4>2. kk.promises[d].refCount # 0
        <5>1. Refs(kk, d) >= 1
          <6>1. DataRefs(kk, d) >= 1
            <7>1. {q \in Promises : kk.promises[q].data = Promise(d)} # {}
              BY <4>1
            <7> QED
              BY <4>1, <7>1, ConstantsAre, CountedIn DEF DataRefs
          <6>2. /\ HeldBy(kk, d) \in Nat /\ QueueRefs(Queues(kk), d) \in Nat /\ kk.external[d] \in Nat
                /\ DataRefs(kk, d) \in Nat
            BY <4>1, RefsType DEF Base, Numbered
          <6> QED
            BY <6>1, <6>2 DEF Refs
        <5> QED
          BY <4>1, <5>1, ReferredTo
      <4> DEFINE free == IF kk.promises[d].refCount = 1 /\ ~Contains(kk.maybeFree, d)
                         THEN Append(kk.maybeFree, d) ELSE kk.maybeFree
      <4>3. DecrementSlot(kk, data) = [kk EXCEPT !.promises[d].refCount = @ - 1, !.maybeFree = free]
        BY <1>0, <3>3, <4>2 DEF DecrementSlot, DecrementRefCount, KernelState
      <4>4. k0.promises = [kk.promises EXCEPT ![p] = Absent] /\ k0 = [kk EXCEPT !.promises = k0.promises]
        BY <1>0 DEF KernelState
      <4>5. k0.promises[d] = kk.promises[d]
        BY <1>0, <4>1, <4>4 DEF KernelState
      <4> HIDE DEF d, k0
      <4>6. DecrementSlot(k0, data) = [k0 EXCEPT !.promises[d].refCount = @ - 1, !.maybeFree = free]
        <5>1. k0 \in KernelState
          <6>1. kk.promises \in [Promises -> KernelPromise]
            BY <1>0 DEF KernelState
          <6>2. k0.promises \in [Promises -> KernelPromise]
            BY <2>5, <4>4, <6>1
          <6> HIDE DEF s, data
          <6> QED
            BY <1>0, <4>4, <6>2 DEF KernelState
        <5>2. DecrementSlot(k0, data) = DecrementRefCount(k0, d)
          BY <3>3 DEF DecrementSlot, d
        <5> QED
          BY <2>6a, <4>2, <4>5, <5>1, <5>2 DEF DecrementRefCount, KernelState
      <4> HIDE DEF free
      <4> DEFINE r == [kk.promises[d] EXCEPT !.refCount = @ - 1]
      <4>7. DecrementSlot(kk, data) = [kk EXCEPT !.promises = [kk.promises EXCEPT ![d] = r], !.maybeFree = free]
        BY <4>3
      <4>8. DecrementSlot(k0, data)
              = [kk EXCEPT !.promises = [k0.promises EXCEPT ![d] = r], !.maybeFree = free]
        BY <1>0, <4>4, <4>5, <4>6 DEF KernelState
      <4> HIDE DEF r
      <4>9. [[kk.promises EXCEPT ![d] = r] EXCEPT ![p] = Absent] = [k0.promises EXCEPT ![d] = r]
        BY <1>0, <4>1, <4>4 DEF KernelState
      <4>10. tt = [kk EXCEPT !.promises = [[kk.promises EXCEPT ![d] = r] EXCEPT ![p] = Absent], !.maybeFree = free]
        BY <1>0, <3>1, <4>7 DEF KernelState
      <4> QED
        BY <4>8, <4>9, <4>10
    <3> QED
      BY <3>2, <3>3
  <2> HIDE DEF s, n, tt, k0, data
  <2>8. RowStep(kk, k0, p) /\ k0.promises[p] = s /\ k0.nextKpid = n
    BY <1>0, <2>1, <2>4, <2>5, <2>6, RowStepIs
  <2>9. \A q \in Promises : Excess(k0, q) = Excess(kk, q) + One(data = Promise(q)) /\ Excess(k0, q) >= 0
    <3> TAKE q \in Promises
    <3>1. Excess(k0, q) + One(k0.promises[p].data = Promise(q))
                = Excess(kk, q) + One(kk.promises[p].data = Promise(q)) /\ Excess(k0, q) \in Int
      BY <2>8, RowExcess
    <3>2. One(k0.promises[p].data = Promise(q)) = 0 /\ One(data = Promise(q)) \in Nat
      BY <2>5, <2>8, NoSlotIs DEF One
    <3>3. Excess(kk, q) \in Int /\ Excess(kk, q) >= 0
      BY ExcessType
    <3> QED
      BY <3>1, <3>2, <3>3 DEF data
  <2>10. RowFits(k0, p)
    BY <2>5, <2>8 DEF RowFits
  <2>11. kk.nextKpid <= k0.nextKpid
    BY <1>0, <2>8 DEF n
  <2>12. Base(k0) /\ OthersAsBefore(kk, k0, p)
    BY <2>3, <2>8, <2>9, <2>10, <2>11, RowGood
  <2>13. ~Unresolved(k0, p) /\ k0.promises[p].decider = NoVat
    BY <2>5, <2>8 DEF Unresolved
  <2>14. Orphans(k0) \subseteq Orphans(kk)
    BY <2>12, <2>13 DEF OthersAsBefore, Orphans, Undecided
  <2>15. Unfit(k0) \subseteq Unfit(kk)
    <3>1. \A d \in Unfit(k0) : d[2] # p
      BY <2>13 DEF Unfit, Decided
    <3> QED
      BY <2>12, <3>1 DEF OthersAsBefore
  <2>16. Early(k0) \subseteq Early(kk)
    BY <2>3, <2>12 DEF OthersAsBefore, Early
  <2>17. Unheard(k0) \subseteq Unheard(kk)
    <3>1. ASSUME NEW d \in Unheard(k0), d[2] = p
          PROVE  d \in Unheard(kk)
      <4>1. d \in Vats \X Promises /\ d[1] \in kk.live /\ p \in kk.awaiting[d[1]]
        BY <2>8, <3>1 DEF Unheard, RowStep
      <4> QED
        BY <2>3, <3>1, <4>1 DEF Unheard, Told
    <3> QED
      BY <2>12, <3>1 DEF OthersAsBefore
  <2>18. SameBudget(kk, k0)
    BY <2>8, <2>12 DEF OthersAsBefore, SameBudget, RowStep, n
  <2>19. \A q \in Promises : Excess(k0, q) >= One(data = Promise(q))
    <3> TAKE q \in Promises
    <3>1. Excess(kk, q) \in Int /\ Excess(kk, q) >= 0 /\ One(data = Promise(q)) \in Nat
      BY ExcessType DEF One
    <3> QED
      BY <2>9, <3>1
  <2>20. /\ Counts(k0, tt)
         /\ \A q \in Promises : Excess(k0, q) = Excess(tt, q) + One(data = Promise(q))
    BY <1>0, <2>7, <2>12, <2>19, DecrementSlotGood
  <2>21. \A q \in Promises : Excess(tt, q) = Excess(kk, q)
    <3> TAKE q \in Promises
    <3>1. Excess(kk, q) \in Int /\ Excess(tt, q) \in Int /\ One(data = Promise(q)) \in Nat
      BY <2>20, ExcessType DEF One, Counts
    <3> QED
      BY <2>9, <2>20, <3>1
  <2>22. PromiseStep(kk, tt, p)
    <3>1. SameRowsButCounts(k0, tt) /\ SameRest(k0, tt) /\ tt.clist = k0.clist /\ tt \in KernelState
      BY <2>20 DEF Counts, Recounts
    <3> QED
      BY <2>8, <3>1 DEF PromiseStep, RowStep, SameRest, SameRowsButCounts
  <2>23. SameBudget(kk, tt) /\ NoWorse(kk, tt) /\ Base(tt)
    BY <2>14, <2>15, <2>16, <2>17, <2>18, <2>20 DEF Counts, SameBudget, NoWorse
  <2>24. FreeResult(kk, tt, p)
    BY <2>21, <2>22, <2>23 DEF FreeResult
  <2> QED
    BY <2>24 DEF tt
<1> QED
  BY <1>1, <1>2

-----------------------------------------------------------------------------
(* The sweep at the end of a crank.                                        *)

Swept(kk, tt) ==
  /\ Base(tt) /\ Orphans(tt) = {} /\ Unfit(tt) = {}
  /\ SameBudget(kk, tt) /\ NoWorse(kk, tt)
  /\ \A q \in Promises : Excess(tt, q) = Excess(kk, q)

Visit(h, n) == IF n > Len(h.maybeFree) THEN h ELSE ProcessMaybeFree(h, h.maybeFree[n])

LEMMA VisitGood ==
  ASSUME NEW kk, NEW h, Swept(kk, h), NEW n \in Nat \ {0}
  PROVE  Swept(kk, Visit(h, n)) /\ Visit(h, n) \in KernelState
<1>1. CASE n > Len(h.maybeFree)
  BY <1>1 DEF Swept, Base, Visit
<1>2. CASE ~(n > Len(h.maybeFree))
  <2> DEFINE p == h.maybeFree[n]
             tt == ProcessMaybeFree(h, p)
  <2>1. h.maybeFree \in Seq(Promises)
    BY DEF Swept, Base, KernelState
  <2>2. p \in Promises
    BY <1>2, <2>1
  <2> HIDE DEF p
  <2>3. FreeResult(h, tt, p)
    BY <2>2, FreeGood DEF Swept
  <2> HIDE DEF tt
  <2>4. Swept(kk, tt) /\ tt \in KernelState
    BY <2>3 DEF FreeResult, Swept, NoWorse, SameBudget, Base
  <2> QED
    BY <1>2, <2>4 DEF tt, p, Visit
<1> QED
  BY <1>1, <1>2

LEMMA SweepRuns ==
  ASSUME NEW kk, Swept(kk, kk)
  PROVE  \E h : Swept(kk, h) /\ ProcessRefcounts(kk) = [h EXCEPT !.maybeFree = <<>>]
<1> DEFINE n == NPromises
           Body(f) == [m \in 0..n |->
                        IF m = 0 THEN kk
                        ELSE IF m > Len(f[m - 1].maybeFree) THEN f[m - 1]
                        ELSE ProcessMaybeFree(f[m - 1], f[m - 1].maybeFree[m])]
           h == CHOOSE f : f = Body(f)
           I == {s \in KernelState : Swept(kk, s)}
           Inv == [m \in 0..n |-> I]
           next == [d \in (Nat \X KernelState) |-> Visit(d[2], d[1])]
<1>1. n \in Nat /\ kk \in Inv[0]
  BY ConstantsAre DEF Swept, Base
<1>2. ASSUME NEW m \in 1..n, NEW a \in Inv[m - 1]
      PROVE  next[<<m, a>>] \in Inv[m]
  <2>1. Swept(kk, a) /\ a \in KernelState /\ m \in Nat \ {0} /\ m \in 0..n /\ m - 1 \in 0..n
    BY <1>1, <1>2
  <2>2. next[<<m, a>>] = Visit(a, m)
    BY <2>1
  <2> HIDE DEF next
  <2>3. Swept(kk, next[<<m, a>>]) /\ next[<<m, a>>] \in KernelState
    BY <2>1, <2>2, VisitGood
  <2> QED
    BY <2>1, <2>3
<1>3. RunExists(Inv, n, kk, next)
  <2> HIDE DEF Inv, next, n
  <2> QED
    BY <1>1, <1>2, LoopRuns
<1>4. PICK f : f = [m \in 0..n |-> f[m]] /\ Runs(f, n, kk, next) /\ \A m \in 0..n : f[m] \in Inv[m]
  BY <1>3 DEF RunExists
<1>5. f = Body(f)
  <2>1. ASSUME NEW m \in 1..n
        PROVE  f[m] = Visit(f[m - 1], m)
    <3>1. m - 1 \in 0..n /\ m \in Nat
      BY <1>1
    <3>2. f[m - 1] \in KernelState
      BY <1>4, <3>1
    <3>3. f[m] = next[<<m, f[m - 1]>>]
      BY <1>4 DEF Runs
    <3> QED
      BY <3>1, <3>2, <3>3
  <2>2. f[0] = kk
    BY <1>4 DEF Runs
  <2>3. \A m \in 0..n : f[m] = Body(f)[m]
    BY <1>1, <2>1, <2>2 DEF Visit
  <2> QED
    BY <1>4, <2>3
<1>6. h = Body(h)
  BY <1>5
<1>7. h[0] = kk /\ \A m \in 1..n : h[m] = Visit(h[m - 1], m)
  <2> HIDE DEF h
  <2> QED
    BY <1>1, <1>6 DEF Visit
<1>8. ProcessRefcounts(kk) = [h[n] EXCEPT !.maybeFree = <<>>]
  BY DEF ProcessRefcounts
<1> HIDE DEF h
<1>9. ASSUME NEW m \in 1..n, h[m - 1] \in Inv[m - 1]
      PROVE  h[m] \in Inv[m]
  <2>1. Swept(kk, h[m - 1]) /\ m \in Nat \ {0} /\ m \in 0..n
    BY <1>1, <1>9
  <2>2. Swept(kk, h[m]) /\ h[m] \in KernelState
    BY <1>7, <2>1, VisitGood
  <2> QED
    BY <2>1, <2>2
<1>10. h[n] \in Inv[n]
  <2>1. h[0] \in Inv[0]
    BY <1>1, <1>7
  <2> HIDE DEF Inv
  <2>2. \A m \in 0..n : h[m] \in Inv[m]
    BY <1>1, <1>9, <2>1, LoopEnds
  <2> QED
    BY <1>1, <2>2
<1>11. Swept(kk, h[n])
  BY <1>1, <1>10
<1> QED
  BY <1>8, <1>11

LEMMA SweepGood ==
  ASSUME NEW kk, Good(kk)
  PROVE  Good(ProcessRefcounts(kk)) /\ SameBudget(kk, ProcessRefcounts(kk))
<1> DEFINE tt == ProcessRefcounts(kk)
<1>1. Swept(kk, kk)
  BY DEF Good, Swept, SameBudget, NoWorse
<1>2. PICK h : Swept(kk, h) /\ tt = [h EXCEPT !.maybeFree = <<>>]
  BY <1>1, SweepRuns
<1> HIDE DEF tt
<1>3. Base(h) /\ h \in KernelState
  BY <1>2 DEF Swept, Base
<1>4. Recounts(h, tt) /\ tt.promises = h.promises
  <2>1. << >> \in Seq(Promises)
    OBVIOUS
  <2>2. tt \in KernelState
    BY <1>2, <1>3, <2>1 DEF KernelState
  <2>3. tt.promises = h.promises /\ tt.clist = h.clist
    BY <1>2, <1>3 DEF KernelState
  <2>4. SameRest(h, tt)
    BY <1>2, <1>3 DEF KernelState, SameRest
  <2> QED
    BY <2>2, <2>3, <2>4 DEF Recounts, SameRowsButCounts
<1>5. \A q \in Promises : Excess(tt, q) = Excess(h, q)
  BY <1>3, <1>4, RecountsRefs DEF Excess
<1>6. Base(tt) /\ NoWorse(h, tt) /\ SameBudget(h, tt)
  <2>1. \A q \in Promises : h.promises[q].state = "absent" => tt.promises[q].refCount = 0
    BY <1>3, <1>4 DEF Base, TableOK
  <2>2. \A q \in Promises : Excess(tt, q) >= 0
    BY <1>3, <1>5, ExcessType
  <2> QED
    BY <1>3, <1>4, <2>1, <2>2, RecountsGood
<1>7. Good(tt) /\ SameBudget(kk, tt)
  BY <1>2, <1>5, <1>6 DEF Good, Swept, NoWorse, SameBudget
<1> QED
  BY <1>7 DEF tt

-----------------------------------------------------------------------------
(* Notifying, and resolving.                                               *)

Notice(v, p) == [type |-> "notify", vat |-> v, kpid |-> p]

LEMMA NoticeIs ==
  ASSUME NEW v \in Vats, NEW p \in Promises
  PROVE  /\ Notice(v, p) \in Event /\ Notice(v, p) \in Notification /\ Notice(v, p).type = "notify"
         /\ Notice(v, p).vat = v /\ Notice(v, p).kpid = p
         /\ \A q \in Promises : Owed(Notice(v, p), q) = One(q = p)
BY DEF Notice, Event, Notification, Owed, One

\* What differs is counts and notifications.
Notes(kk, tt) ==
  /\ tt \in KernelState /\ tt.clist = kk.clist /\ tt.live = kk.live /\ tt.terminated = kk.terminated
  /\ tt.external = kk.external /\ tt.awaiting = kk.awaiting
  /\ SameRowsButCounts(kk, tt) /\ Sends(tt) = Sends(kk) /\ Notices(kk) \subseteq Notices(tt)
  /\ SameBudget(kk, tt)
NoteResult(kk, tt, p) ==
  /\ Base(tt) /\ Notes(kk, tt)
  /\ \A q \in Promises : Excess(tt, q) = Excess(kk, q)
  /\ Orphans(tt) \subseteq Orphans(kk) /\ Unfit(tt) \subseteq Unfit(kk) /\ Unheard(tt) \subseteq Unheard(kk)
  /\ \A e \in Early(tt) : e \in Early(kk) \/ (e.kpid = p /\ ~Settled(kk, p))

LEMMA NotifyGood ==
  ASSUME NEW kk, Base(kk), NEW v \in Vats, NEW p \in Promises, HasKernelPromise(kk, p)
  PROVE  NoteResult(kk, Notify(kk, v, p), p) /\ Notice(v, p) \in Notices(Notify(kk, v, p))
<1> DEFINE e == Notice(v, p)
           k1 == IncrementRefCount(kk, p)
           tt == Notify(kk, v, p)
<1>1. Counts(kk, k1) /\ \A q \in Promises : Excess(k1, q) = Excess(kk, q) + One(q = p)
  BY IncrementGood
<1>2. tt = [k1 EXCEPT !.acceptanceQueue = Append(@, e)]
  BY DEF Notify, Notice
<1>3. e \in Event /\ e.type = "notify" /\ e.vat = v /\ e.kpid = p /\ \A q \in Promises : Owed(e, q) = One(q = p)
  BY NoticeIs
<1> HIDE DEF k1, e, tt
<1>4. Base(k1) /\ k1 \in KernelState
  BY <1>1 DEF Counts, Base
<1>5. Accepted(k1, tt, e) /\ tt.sends = k1.sends
  <2>1. k1.acceptanceQueue \in Seq(Event)
    BY <1>4 DEF KernelState
  <2>2. Append(k1.acceptanceQueue, e) \in Seq(Event)
    BY <1>3, <2>1
  <2> QED
    BY <1>2, <1>4, <2>2 DEF Accepted, KernelState
<1>6. Ready(k1, e)
  BY <1>3 DEF Ready
<1>7. k1.sends <= tt.sends
  BY <1>4, <1>5 DEF KernelState
<1>8. \A q \in Promises : Excess(k1, q) >= Owed(e, q)
  <2> TAKE q \in Promises
  <2>1. Excess(kk, q) \in Int /\ Excess(kk, q) >= 0 /\ One(q = p) \in Nat
    BY ExcessType DEF One
  <2> QED
    BY <1>1, <1>3, <2>1
<1>9. /\ Base(tt)
      /\ \A q \in Promises : Excess(k1, q) = Excess(tt, q) + Owed(e, q)
      /\ Orphans(tt) \subseteq Orphans(k1)
      /\ Unfit(tt) = Unfit(k1) /\ Unheard(tt) \subseteq Unheard(k1)
      /\ e \in Notices(tt) /\ Notices(k1) \subseteq Notices(tt)
      /\ Early(tt) \subseteq Early(k1) \cup {f \in {e} : e.type = "notify" /\ ~Settled(k1, e.kpid)}
      /\ Upgrading(tt) = Upgrading(k1) + One(e.type = "upgrade-vat")
      /\ SameButQueues(k1, tt)
  BY <1>3, <1>4, <1>5, <1>6, <1>7, <1>8, AcceptedGood
<1>10. \A q \in Promises : Excess(tt, q) = Excess(kk, q)
  <2> TAKE q \in Promises
  <2>1. Excess(kk, q) \in Int /\ Excess(tt, q) \in Int /\ One(q = p) \in Nat
    BY <1>9, ExcessType DEF One
  <2> QED
    BY <1>1, <1>3, <1>9, <2>1
<1>11. Sends(tt) = Sends(kk) /\ Notices(kk) = Notices(k1) /\ Queues(k1) = Queues(kk)
  <2>1. Queues(k1) = Queues(kk) /\ Sends(k1) = Sends(kk) /\ Notices(k1) = Notices(kk)
    BY <1>1, RecountsRefs DEF Counts, Base
  <2>2. Sends(tt) = Sends(k1)
    <3>1. Changed(Queues(k1), Queues(tt), 0, Append(Queues(k1)[0], e))
      <4>1. Queues(k1)[0] = k1.acceptanceQueue /\ Queues(tt)[0] = tt.acceptanceQueue
            /\ DOMAIN Queues(k1) = QueueIds /\ DOMAIN Queues(tt) = QueueIds
        BY <1>4, <1>5, QueuesAre DEF Accepted
      <4>2. \A j \in QueueIds : j # 0 => Queues(tt)[j] = Queues(k1)[j]
        BY <1>5 DEF Queues, Accepted
      <4> QED
        BY <1>5, <4>1, <4>2 DEF Changed, Accepted
    <3>2. Family(Queues(k1)) /\ Fresh(Queues(k1), e) /\ 0 \in QueueIds /\ ~(0 \in Promises)
      BY <1>3, <1>4, FamilyIs, ConstantsAre DEF Base, Numbered, Fresh
    <3>3. Put(Queues(k1), Queues(tt), e)
      BY <1>3, <3>1, <3>2, PutIs
    <3> QED
      BY <1>3, <3>3 DEF Put, Sends
  <2> QED
    BY <2>1, <2>2
<1>12. Notes(kk, tt)
  <2>1. SameRowsButCounts(kk, tt)
    <3>1. tt.promises = k1.promises
      BY <1>5 DEF Accepted
    <3> QED
      BY <1>1, <3>1 DEF Counts, Recounts, SameRowsButCounts
  <2>2. /\ tt \in KernelState /\ tt.clist = kk.clist /\ tt.live = kk.live /\ tt.terminated = kk.terminated
        /\ tt.external = kk.external /\ tt.awaiting = kk.awaiting
    BY <1>1, <1>5 DEF Accepted, Counts, Recounts, SameRest
  <2>3. SameBudget(kk, tt)
    <3>1. One(e.type = "upgrade-vat") = 0
      BY <1>3 DEF One
    <3>2. Upgrading(k1) \in Nat
      BY <1>4, FamilyIs, QueueRefsType DEF Base, Numbered, Upgrading
    <3> QED
      BY <1>1, <1>5, <1>9, <3>1, <3>2 DEF SameBudget, Counts, Accepted
  <2> QED
    BY <1>9, <1>11, <2>1, <2>2, <2>3 DEF Notes
<1>13. \A f \in Early(tt) : f \in Early(kk) \/ (f.kpid = p /\ ~Settled(kk, p))
  <2>1. Settled(k1, p) <=> Settled(kk, p)
    BY <1>1 DEF Settled, Counts, Recounts, SameRowsButCounts
  <2> QED
    BY <1>1, <1>3, <1>9, <2>1 DEF Counts, NoWorse
<1>14. NoteResult(kk, tt, p)
  BY <1>1, <1>9, <1>10, <1>12, <1>13 DEF NoteResult, Counts, NoWorse
<1> QED
  BY <1>9, <1>14 DEF tt, e

LEMMA NoteTwice ==
  ASSUME NEW k1, NEW k2, NEW k3, NEW p, NoteResult(k1, k2, p), NoteResult(k2, k3, p), p \in Promises
  PROVE  NoteResult(k1, k3, p)
<1>1. Settled(k2, p) <=> Settled(k1, p)
  BY DEF NoteResult, Notes, SameRowsButCounts, Settled
<1>2. Notes(k1, k3)
  BY DEF NoteResult, Notes, SameRowsButCounts, SameBudget
<1> QED
  BY <1>1, <1>2 DEF NoteResult

LEMMA NoteNot ==
  ASSUME NEW kk, Base(kk), NEW p
  PROVE  NoteResult(kk, kk, p)
BY DEF NoteResult, Notes, SameRowsButCounts, SameBudget, Base

NotifyAll(kk, p, ws) == ForEach(LAMBDA acc, w : Notify(acc, w, p), kk, ws)

LEMMA NotifyAllGood ==
  ASSUME NEW kk, Base(kk), NEW p \in Promises, HasKernelPromise(kk, p), NEW ws \in Seq(Vats)
  PROVE  /\ NoteResult(kk, NotifyAll(kk, p, ws), p)
         /\ \A i \in 1..Len(ws) : Notice(ws[i], p) \in Notices(NotifyAll(kk, p, ws))
<1> DEFINE n == Len(ws)
           Body(f) == [m \in 0..n |-> IF m = 0 THEN kk ELSE Notify(f[m - 1], ws[m], p)]
           h == CHOOSE f : f = Body(f)
           Holds(s, m) == NoteResult(kk, s, p) /\ \A i \in 1..m : Notice(ws[i], p) \in Notices(s)
           Inv == [m \in 0..n |-> {s \in KernelState : Holds(s, m)}]
           next == [d \in (Nat \X KernelState) |-> Notify(d[2], ws[d[1]], p)]
<1>1. n \in Nat
  OBVIOUS
<1>2. \A m \in 0..n : \A s : s \in Inv[m] <=> s \in KernelState /\ Holds(s, m)
  OBVIOUS
<1>3. kk \in Inv[0]
  <2>1. kk \in KernelState /\ NoteResult(kk, kk, p)
    BY NoteNot DEF Base
  <2>2. 1..0 = {}
    OBVIOUS
  <2> QED
    BY <1>1, <1>2, <2>1, <2>2
<1>4. ASSUME NEW m \in 1..n, NEW a \in Inv[m - 1]
      PROVE  Notify(a, ws[m], p) \in Inv[m]
  <2>1. m \in 0..n /\ m - 1 \in 0..n /\ m \in Nat /\ ws[m] \in Vats
    BY <1>1
  <2>2. a \in KernelState /\ NoteResult(kk, a, p) /\ \A i \in 1..m - 1 : Notice(ws[i], p) \in Notices(a)
    BY <1>2, <1>4, <2>1
  <2> DEFINE b == Notify(a, ws[m], p)
  <2>3. Base(a) /\ HasKernelPromise(a, p)
    BY <2>2 DEF NoteResult, Notes, SameRowsButCounts, HasKernelPromise
  <2>4. NoteResult(a, b, p) /\ Notice(ws[m], p) \in Notices(b)
    BY <2>1, <2>3, NotifyGood
  <2> HIDE DEF b
  <2>5. NoteResult(kk, b, p) /\ b \in KernelState /\ Notices(a) \subseteq Notices(b)
    <3>1. NoteResult(kk, b, p)
      BY <2>2, <2>4, NoteTwice
    <3> QED
      BY <2>4, <3>1 DEF NoteResult, Notes
  <2>6. ASSUME NEW i \in 1..m
        PROVE  Notice(ws[i], p) \in Notices(b)
    <3>1. i \in 1..m - 1 \/ i = m
      BY <2>1
    <3> QED
      BY <2>2, <2>4, <2>5, <3>1
  <2>7. b \in Inv[m]
    BY <1>2, <2>1, <2>5, <2>6
  <2> QED
    BY <2>7 DEF b
<1>5. ASSUME NEW m \in 1..n, NEW a \in Inv[m - 1]
      PROVE  next[<<m, a>>] = Notify(a, ws[m], p)
  <2>1. a \in KernelState /\ m \in Nat
    BY <1>1, <1>2, <1>5
  <2> QED
    BY <2>1
<1> HIDE DEF Inv, next
<1>6. RunExists(Inv, n, kk, next)
  BY <1>1, <1>3, <1>4, <1>5, LoopRuns
<1>7. PICK f : f = [m \in 0..n |-> f[m]] /\ Runs(f, n, kk, next) /\ \A m \in 0..n : f[m] \in Inv[m]
  BY <1>6 DEF RunExists
<1>8. f = Body(f)
  <2>1. ASSUME NEW m \in 1..n
        PROVE  f[m] = Notify(f[m - 1], ws[m], p)
    <3>1. m - 1 \in 0..n
      BY <1>1
    <3> QED
      BY <1>5, <1>7, <3>1 DEF Runs
  <2>2. f[0] = kk
    BY <1>7 DEF Runs
  <2>3. \A m \in 0..n : f[m] = Body(f)[m]
    BY <1>1, <2>1, <2>2
  <2> QED
    BY <1>7, <2>3
<1>9. h = Body(h)
  BY <1>8
<1>10. NotifyAll(kk, p, ws) = h[n]
  BY DEF NotifyAll, ForEach
<1>11. h[0] = kk /\ \A m \in 1..n : h[m] = Notify(h[m - 1], ws[m], p)
  <2> HIDE DEF h
  <2> QED
    BY <1>1, <1>9
<1> HIDE DEF h
<1>12. \A m \in 0..n : h[m] \in Inv[m]
  BY <1>1, <1>3, <1>4, <1>11, LoopEnds
<1>13. Holds(h[n], n)
  BY <1>1, <1>2, <1>12
<1> QED
  BY <1>10, <1>13

-----------------------------------------------------------------------------
\* A resolution: the subscribers are notified, and the promise is settled.
ResolveResult(kk, tt, p, data) ==
  /\ Base(tt) /\ PromiseStep(kk, tt, p) /\ SameBudget(kk, tt)
  /\ Settled(tt, p) /\ tt.promises[p].data = data
  /\ Sends(tt) = Sends(kk) /\ Notices(kk) \subseteq Notices(tt)
  /\ \A q \in Promises : Excess(tt, q) = Excess(kk, q)
  /\ Orphans(tt) \subseteq Orphans(kk) \ {p}
  /\ \A d \in Unfit(tt) : d \in Unfit(kk) /\ d[2] # p
  /\ Early(tt) \subseteq Early(kk)
  /\ Unheard(tt) \subseteq Unheard(kk)

LEMMA DoResolveGood ==
  ASSUME NEW kk, Base(kk), NEW p \in Promises, Unresolved(kk, p), NEW v,
         kk.promises[p].decider = v, \A e \in Sends(kk) : e.result # p,
         NEW state \in {"fulfilled", "rejected"},
         NEW data \in Slot, data.type = "promise" => HasKernelPromise(kk, data.id)
  PROVE  ResolveResult(kk, DoResolve(kk, v, p, state, data), p, data)
<1> DEFINE subs == kk.promises[p].subscribers
           ws == Ascending(subs)
           noted == NotifyAll(kk, p, ws)
           tt == ResolveKernelPromise(noted, p, state, data)
<1>1. HasKernelPromise(kk, p)
  BY DEF HasKernelPromise, Unresolved
<1>2. subs \in SUBSET Vats
  BY DEF Base, KernelState, KernelPromise
<1>3. subs \in SUBSET Nat /\ IsFiniteSet(subs)
  BY <1>2, ConstantsAre, CountedIn
<1>4. /\ Cardinality(subs) \in Nat
      /\ \A w \in subs : \E i \in 1..Cardinality(subs) : ws[i] = w
      /\ ws \in Seq(subs) /\ Len(ws) = Cardinality(subs)
  BY <1>3, AscendingIs
<1>5. ws \in Seq(Vats)
  BY <1>2, <1>4
<1>6. DoResolve(kk, v, p, state, data) = tt
  BY DEF DoResolve, NotifyAll
<1> HIDE DEF ws, noted, tt, subs
<1>7. /\ NoteResult(kk, noted, p)
      /\ \A i \in 1..Len(ws) : Notice(ws[i], p) \in Notices(noted)
  BY <1>1, <1>5, NotifyAllGood DEF noted
<1>8. Base(noted) /\ Unresolved(noted, p) /\ Sends(noted) = Sends(kk)
  BY <1>7 DEF NoteResult, Notes, SameRowsButCounts, Unresolved
<1>9. AllTold(noted, p)
  <2>1. noted.promises[p].subscribers = subs
    BY <1>7 DEF NoteResult, Notes, SameRowsButCounts, subs
  <2>2. ASSUME NEW w \in subs
        PROVE  \E e \in Notices(noted) : e.vat = w /\ e.kpid = p
    <3>1. PICK i \in 1..Cardinality(subs) : ws[i] = w
      BY <1>4
    <3>2. Notice(w, p) \in Notices(noted)
      BY <1>4, <1>7, <3>1
    <3> QED
      BY <3>2 DEF Notice
  <2> QED
    BY <2>1, <2>2 DEF AllTold
<1>10. data.type = "promise" => HasKernelPromise(noted, data.id)
  <2>1. data.type = "promise" => data.id \in Promises
    BY SlotIs
  <2> QED
    BY <1>7, <2>1 DEF NoteResult, Notes, SameRowsButCounts, HasKernelPromise
<1>11. \A e \in Sends(noted) : e.result # p
  BY <1>8
<1>12. SettleResult(noted, tt, p, data)
  BY <1>8, <1>9, <1>10, <1>11, SettleGood DEF tt
<1>13. PromiseStep(kk, tt, p)
  BY <1>7, <1>12 DEF NoteResult, Notes, SameRowsButCounts, SettleResult, PromiseStep
<1>14. SameBudget(kk, tt)
  BY <1>7, <1>12 DEF NoteResult, Notes, SettleResult, SameBudget
<1>15. \A q \in Promises : Excess(tt, q) = Excess(kk, q)
  BY <1>7, <1>12 DEF NoteResult, SettleResult
<1>16. Early(tt) \subseteq Early(kk)
  BY <1>7, <1>12 DEF NoteResult, SettleResult
<1>17. /\ Orphans(tt) \subseteq Orphans(kk) \ {p}
       /\ \A d \in Unfit(tt) : d \in Unfit(kk) /\ d[2] # p
       /\ Unheard(tt) \subseteq Unheard(kk)
       /\ Sends(tt) = Sends(kk) /\ Notices(kk) \subseteq Notices(tt)
  BY <1>7, <1>12 DEF NoteResult, SettleResult, Notes
<1>18. ResolveResult(kk, tt, p, data)
  BY <1>12, <1>13, <1>14, <1>15, <1>16, <1>17 DEF ResolveResult, SettleResult
<1> QED
  BY <1>6, <1>18

-----------------------------------------------------------------------------
(* Who decides a promise, and who subscribes to it.                        *)

LEMMA SubscribeGood ==
  ASSUME NEW kk, Base(kk), NEW p \in Promises, Unresolved(kk, p), NEW v \in Vats
  PROVE  LET tt == DoSubscribe(kk, v, p)
         IN /\ RedecideResult(kk, tt, p) /\ RowStep(kk, tt, p)
            /\ tt.promises[p].state = "unresolved" /\ v \in tt.promises[p].subscribers
            /\ Orphans(tt) \subseteq Orphans(kk) /\ Unfit(tt) \subseteq Unfit(kk)
            /\ Unheard(tt) \subseteq Unheard(kk)
<1> DEFINE d == kk.promises[p].decider
           subs == kk.promises[p].subscribers \cup {v}
           tt == DoSubscribe(kk, v, p)
<1>1. kk \in KernelState /\ kk.promises[p] \in KernelPromise /\ kk.promises \in [Promises -> KernelPromise]
  BY DEF Base, KernelState
<1>2. d \in Vats \cup {NoVat} /\ subs \in SUBSET Vats
  BY <1>1 DEF KernelPromise
<1>3. tt = RowRedecided(kk, p, d, subs)
  <2>1. [kk.promises[p] EXCEPT !.subscribers = subs] = [kk.promises[p] EXCEPT !.decider = d, !.subscribers = subs]
    BY <1>1 DEF KernelPromise
  <2>2. tt = [kk EXCEPT !.promises[p].subscribers = subs]
    BY DEF DoSubscribe
  <2>3. tt = [kk EXCEPT !.promises[p] = [kk.promises[p] EXCEPT !.subscribers = subs]]
    BY <1>1, <2>2 DEF KernelState
  <2> QED
    BY <2>1, <2>3 DEF RowRedecided
<1> HIDE DEF tt, d, subs
<1>4. Redecides(kk, tt, p, d, subs)
  BY <1>1, <1>2, <1>3, RedecidesIs
<1>5. d # NoVat => \A e \in Sends(kk) : e.result # p
  BY ConstantsAre DEF Base, Resolvers, Undecided, d
<1>6. RedecideResult(kk, tt, p)
  BY <1>4, <1>5, RedecideGood
<1>7. tt.promises[p].state = "unresolved" /\ tt.promises[p].decider = kk.promises[p].decider
      /\ tt.promises[p].subscribers = kk.promises[p].subscribers \cup {v} /\ RowStep(kk, tt, p)
  BY <1>4 DEF Redecides, d, subs
<1>8. Orphans(tt) \subseteq Orphans(kk)
  BY <1>6, <1>7 DEF RedecideResult, OthersAsBefore, Orphans, Undecided, Unresolved
<1>9. Unfit(tt) \subseteq Unfit(kk)
  BY <1>6, <1>7 DEF RedecideResult, OthersAsBefore, Unfit, Decided, RowStep
<1>10. Unheard(tt) \subseteq Unheard(kk)
  BY <1>6, <1>7 DEF RedecideResult, OthersAsBefore, Unheard, Told, RowStep, Unresolved
<1> QED
  BY <1>6, <1>7, <1>8, <1>9, <1>10 DEF tt

LEMMA SetDeciderGood ==
  ASSUME NEW kk, Base(kk), NEW p \in Promises, Undecided(kk, p), NEW v \in Vats,
         \A e \in Sends(kk) : e.result # p
  PROVE  LET tt == SetDecider(kk, p, v)
         IN /\ RedecideResult(kk, tt, p) /\ RowStep(kk, tt, p)
            /\ Orphans(tt) \subseteq Orphans(kk) \ {p}
            /\ Unfit(tt) \subseteq Unfit(kk) \cup {<<v, p>>}
            /\ v \in kk.live /\ p \in kk.clist[v] => Unfit(tt) \subseteq Unfit(kk)
            /\ Unheard(tt) \subseteq Unheard(kk)
<1> DEFINE subs == kk.promises[p].subscribers
           tt == SetDecider(kk, p, v)
<1>1. kk \in KernelState /\ kk.promises[p] \in KernelPromise /\ kk.promises \in [Promises -> KernelPromise]
  BY DEF Base, KernelState
<1>2. subs \in SUBSET Vats /\ v \in Vats \cup {NoVat} /\ Unresolved(kk, p)
      /\ kk.promises[p].decider = NoVat /\ v # NoVat
  BY <1>1, ConstantsAre DEF KernelPromise, Undecided
<1>3. tt = RowRedecided(kk, p, v, subs)
  <2>1. [kk.promises[p] EXCEPT !.decider = v] = [kk.promises[p] EXCEPT !.decider = v, !.subscribers = subs]
    BY <1>1 DEF KernelPromise
  <2>2. tt = [kk EXCEPT !.promises[p].decider = v]
    BY <1>2 DEF SetDecider
  <2>3. tt = [kk EXCEPT !.promises[p] = [kk.promises[p] EXCEPT !.decider = v]]
    BY <1>1, <2>2 DEF KernelState
  <2> QED
    BY <2>1, <2>3 DEF RowRedecided
<1> HIDE DEF tt, subs
<1>4. Redecides(kk, tt, p, v, subs)
  BY <1>1, <1>2, <1>3, RedecidesIs
<1>6. RedecideResult(kk, tt, p)
  BY <1>2, <1>4, RedecideGood
<1>7. tt.promises[p].state = "unresolved" /\ tt.promises[p].decider = v
      /\ tt.promises[p].subscribers = kk.promises[p].subscribers /\ RowStep(kk, tt, p)
  BY <1>4 DEF Redecides, subs
<1>8. Orphans(tt) \subseteq Orphans(kk) \ {p}
  BY <1>2, <1>6, <1>7 DEF RedecideResult, OthersAsBefore, Orphans, Undecided
<1>9. Unfit(tt) \subseteq Unfit(kk) \cup {<<v, p>>}
  BY <1>6, <1>7 DEF RedecideResult, OthersAsBefore, Unfit, Decided, RowStep
<1>10. ASSUME v \in kk.live, p \in kk.clist[v]
       PROVE  Unfit(tt) \subseteq Unfit(kk)
  BY <1>6, <1>7, <1>10 DEF RedecideResult, OthersAsBefore, Unfit, Decided, RowStep
<1>11. Unheard(tt) \subseteq Unheard(kk)
  BY <1>2, <1>6, <1>7 DEF RedecideResult, OthersAsBefore, Unheard, Told, RowStep, Unresolved
<1> QED
  BY <1>6, <1>7, <1>8, <1>9, <1>10, <1>11 DEF tt

\* Until the promise is the result of a send, nobody will resolve it.
LEMMA ClearDeciderGood ==
  ASSUME NEW kk, Base(kk), NEW p \in Promises, Unresolved(kk, p)
  PROVE  LET tt == ClearDecider(kk, p)
         IN /\ RedecideResult(kk, tt, p) /\ RowStep(kk, tt, p) /\ Undecided(tt, p)
            /\ Orphans(tt) \subseteq Orphans(kk) \cup {p}
            /\ Unfit(tt) \subseteq Unfit(kk) /\ Unheard(tt) \subseteq Unheard(kk)
<1> DEFINE subs == kk.promises[p].subscribers
           tt == ClearDecider(kk, p)
<1>1. kk \in KernelState /\ kk.promises[p] \in KernelPromise /\ kk.promises \in [Promises -> KernelPromise]
  BY DEF Base, KernelState
<1>2. subs \in SUBSET Vats /\ NoVat \in Vats \cup {NoVat}
  BY <1>1 DEF KernelPromise
<1>3. tt = RowRedecided(kk, p, NoVat, subs)
  <2>1. [kk.promises[p] EXCEPT !.decider = NoVat]
          = [kk.promises[p] EXCEPT !.decider = NoVat, !.subscribers = subs]
    BY <1>1 DEF KernelPromise
  <2>2. tt = [kk EXCEPT !.promises[p].decider = NoVat]
    BY DEF ClearDecider
  <2>3. tt = [kk EXCEPT !.promises[p] = [kk.promises[p] EXCEPT !.decider = NoVat]]
    BY <1>1, <2>2 DEF KernelState
  <2> QED
    BY <2>1, <2>3 DEF RowRedecided
<1> HIDE DEF tt, subs
<1>4. Redecides(kk, tt, p, NoVat, subs)
  BY <1>1, <1>2, <1>3, RedecidesIs
<1>5. RedecideResult(kk, tt, p)
  BY <1>4, RedecideGood
<1>6. tt.promises[p].state = "unresolved" /\ tt.promises[p].decider = NoVat
      /\ tt.promises[p].subscribers = kk.promises[p].subscribers /\ RowStep(kk, tt, p)
  BY <1>4 DEF Redecides, subs
<1>7. Orphans(tt) \subseteq Orphans(kk) \cup {p}
  BY <1>5 DEF RedecideResult, OthersAsBefore
<1>8. Unfit(tt) \subseteq Unfit(kk)
  BY <1>5, <1>6 DEF RedecideResult, OthersAsBefore, Unfit, Decided
<1>9. Unheard(tt) \subseteq Unheard(kk)
  BY <1>5, <1>6 DEF RedecideResult, OthersAsBefore, Unheard, Told, RowStep, Unresolved
<1> QED
  BY <1>5, <1>6, <1>7, <1>8, <1>9 DEF tt, Undecided, Unresolved

-----------------------------------------------------------------------------
(* Sending.                                                                *)

\* What differs is counts, and the send with the given result.
SendResult(kk, tt, result) ==
  /\ Base(tt) /\ SameRowsButCounts(kk, tt)
  /\ tt.clist = kk.clist /\ tt.live = kk.live /\ tt.terminated = kk.terminated
  /\ tt.external = kk.external /\ tt.awaiting = kk.awaiting
  /\ tt.nextKpid = kk.nextKpid /\ tt.sends = kk.sends + 1 /\ Upgrading(tt) = Upgrading(kk)
  /\ \A q \in Promises : Excess(tt, q) = Excess(kk, q)
  /\ Orphans(tt) \subseteq Orphans(kk) \ {result}
  /\ Unfit(tt) \subseteq Unfit(kk) /\ Early(tt) \subseteq Early(kk)
  /\ Unheard(tt) \subseteq Unheard(kk)

SendEvent(kk, sender, target, arg, result) ==
  [type |-> "send", target |-> target, arg |-> arg, result |-> result,
   sender |-> sender, number |-> kk.sends + 1, named |-> target]

LEMMA SendEventIs ==
  ASSUME NEW kk \in KernelState, kk.sends + 1 <= MaxSends, NEW sender \in Vats \cup {NoVat},
         NEW target \in Slot \ {NoSlot}, NEW arg \in Slot, NEW result \in Promises \cup {NoPromise}
  PROVE  LET e == SendEvent(kk, sender, target, arg, result)
         IN /\ e \in Send /\ e.type = "send" /\ e.target = target /\ e.arg = arg /\ e.result = result
            /\ e.number = kk.sends + 1
<1>1. kk.sends \in Nat
  BY DEF KernelState
<1>2. kk.sends + 1 \in 1..MaxSends
  BY <1>1, ConstantsAre
<1> QED
  BY <1>2 DEF SendEvent, Send

\* References to a send, counted before it is queued.
CountSend(kk, target, arg, result) ==
  IncrementSlot(IncrementResult(IncrementSlot(kk, target), result), arg)

LEMMA CountSendGood ==
  ASSUME NEW kk, Base(kk), NEW target \in Slot, NEW arg \in Slot,
         NEW result \in Promises \cup {NoPromise},
         target.type = "promise" => HasKernelPromise(kk, target.id),
         arg.type = "promise" => HasKernelPromise(kk, arg.id),
         result # NoPromise => HasKernelPromise(kk, result)
  PROVE  LET tt == CountSend(kk, target, arg, result)
         IN /\ Counts(kk, tt)
            /\ \A q \in Promises :
                 Excess(tt, q) = Excess(kk, q) + One(target = Promise(q)) + One(result = q)
                                 + One(arg = Promise(q))
<1> DEFINE c1 == IncrementSlot(kk, target)
           c2 == IncrementResult(c1, result)
           c3 == IncrementSlot(c2, arg)
<1>1. /\ Counts(kk, c1)
      /\ \A q \in Promises : Excess(c1, q) = Excess(kk, q) + One(target = Promise(q))
  BY IncrementSlotGood
<1> HIDE DEF c1
<1>2. Base(c1) /\ (result # NoPromise => HasKernelPromise(c1, result))
  BY <1>1 DEF Counts, Recounts, SameRowsButCounts, HasKernelPromise
<1>3. /\ Counts(c1, c2)
      /\ \A q \in Promises : Excess(c2, q) = Excess(c1, q) + One(result = q)
  BY <1>2, IncrementResultGood
<1> HIDE DEF c2
<1>4. Counts(kk, c2)
  BY <1>1, <1>3, CountsTwice
<1>5. Base(c2) /\ (arg.type = "promise" => HasKernelPromise(c2, arg.id))
  <2>1. arg.type = "promise" => arg.id \in Promises
    BY SlotIs
  <2> QED
    BY <1>4, <2>1 DEF Counts, Recounts, SameRowsButCounts, HasKernelPromise
<1>6. /\ Counts(c2, c3)
      /\ \A q \in Promises : Excess(c3, q) = Excess(c2, q) + One(arg = Promise(q))
  BY <1>5, IncrementSlotGood
<1> HIDE DEF c3
<1>7. Counts(kk, c3)
  BY <1>4, <1>6, CountsTwice
<1>8. \A q \in Promises :
        Excess(c3, q) = Excess(kk, q) + One(target = Promise(q)) + One(result = q)
                        + One(arg = Promise(q))
  <2> TAKE q \in Promises
  <2>1. Excess(kk, q) \in Int
    BY ExcessType
  <2>2. One(target = Promise(q)) \in Int /\ One(result = q) \in Int /\ One(arg = Promise(q)) \in Int
    BY DEF One
  <2>3. Excess(c1, q) = Excess(kk, q) + One(target = Promise(q))
        /\ Excess(c2, q) = Excess(c1, q) + One(result = q)
        /\ Excess(c3, q) = Excess(c2, q) + One(arg = Promise(q))
    BY <1>1, <1>3, <1>6
  <2> QED
    BY <2>1, <2>2, <2>3
<1> QED
  BY <1>7, <1>8 DEF CountSend, c1, c2, c3

LEMMA DoSendGood ==
  ASSUME NEW kk, Base(kk), kk.sends + 1 <= MaxSends, NEW sender \in Vats \cup {NoVat},
         NEW target \in Slot \ {NoSlot}, NEW arg \in Slot, NEW result \in Promises \cup {NoPromise},
         target.type = "promise" => HasKernelPromise(kk, target.id),
         arg.type = "promise" => HasKernelPromise(kk, arg.id),
         result # NoPromise => Undecided(kk, result) /\ \A e \in Sends(kk) : e.result # result
  PROVE  SendResult(kk, DoSend(kk, sender, target, arg, result), result)
<1> DEFINE e == SendEvent(kk, sender, target, arg, result)
           c == CountSend(kk, target, arg, result)
           tt == DoSend(kk, sender, target, arg, result)
<1>1. kk \in KernelState /\ kk.sends \in Nat
  BY DEF Base, KernelState
<1>2. /\ e \in Send /\ e.type = "send" /\ e.target = target /\ e.arg = arg /\ e.result = result
      /\ e.number = kk.sends + 1
  BY <1>1, SendEventIs
<1>3. result # NoPromise => HasKernelPromise(kk, result)
  BY DEF HasKernelPromise, Undecided, Unresolved
<1>4. /\ Counts(kk, c)
      /\ \A q \in Promises :
           Excess(c, q) = Excess(kk, q) + One(target = Promise(q)) + One(result = q)
                                 + One(arg = Promise(q))
  BY <1>3, CountSendGood
<1>5. tt = [c EXCEPT !.sends = @ + 1, !.acceptanceQueue = Append(@, e)]
  BY DEF DoSend, CountSend, SendEvent
<1> HIDE DEF e, c, tt
<1>6. Base(c) /\ c \in KernelState /\ c.sends = kk.sends /\ SameRest(kk, c) /\ c.clist = kk.clist
      /\ SameRowsButCounts(kk, c)
  BY <1>4 DEF Counts, Base, Recounts, SameRest
<1>7. e \in Event
  BY <1>2, SendParts
<1>8. Accepted(c, tt, e) /\ tt.sends = kk.sends + 1
  <2>1. c.acceptanceQueue \in Seq(Event) /\ c.sends \in Nat
    BY <1>6 DEF KernelState
  <2>2. Append(c.acceptanceQueue, e) \in Seq(Event)
    BY <1>7, <2>1
  <2>3. tt \in KernelState
    <3> DEFINE a == Append(c.acceptanceQueue, e)
               n == c.sends + 1
    <3>1. tt = [c EXCEPT !.sends = n, !.acceptanceQueue = a]
      BY <1>5
    <3>2. a \in Seq(Event) /\ n \in Nat /\ c \in KernelState
      BY <1>6, <2>1, <2>2
    <3> HIDE DEF a, n
    <3> QED
      BY <3>1, <3>2 DEF KernelState
  <2> QED
    BY <1>5, <1>6, <2>1, <2>3 DEF Accepted, KernelState
<1>9. Sends(c) = Sends(kk)
  BY <1>1, <1>4, RecountsRefs DEF Counts
<1>10. Ready(c, e)
  <2>1. Fresh(Queues(c), e)
    <3>1. \A f \in Sends(c) : f.number <= kk.sends /\ f \in Send
      <4>1. Unique(Queues(c))
        BY <1>6 DEF Base, Numbered
      <4> QED
        BY <1>6, <4>1, FamilyIs DEF Base, Numbered
    <3>2. \A f \in Sends(c) : f.number \in Nat
      BY <3>1, SendParts
    <3> QED
      BY <1>1, <1>2, <3>1, <3>2 DEF Fresh, Sends
  <2>2. result # NoPromise => Undecided(c, result)
    BY <1>6 DEF SameRowsButCounts, Undecided, Unresolved
  <2> QED
    BY <1>2, <1>9, <2>1, <2>2 DEF Ready
<1>11. \A q \in Promises :
          Excess(c, q) = Excess(kk, q) + Owed(e, q) /\ Excess(c, q) >= Owed(e, q)
          /\ Owed(e, q) \in Nat /\ Excess(kk, q) \in Int
  <2> TAKE q \in Promises
  <2>1. Owed(e, q) = One(target = Promise(q)) + One(arg = Promise(q)) + One(result = q)
        /\ One(target = Promise(q)) \in Nat /\ One(arg = Promise(q)) \in Nat /\ One(result = q) \in Nat
    BY <1>2, SendParts
  <2>2. Excess(kk, q) \in Int /\ Excess(kk, q) >= 0
    BY ExcessType
  <2>3. Excess(c, q) = Excess(kk, q) + One(target = Promise(q)) + One(result = q) + One(arg = Promise(q))
    BY <1>4
  <2> QED
    BY <2>1, <2>2, <2>3
<1>12. e.number <= tt.sends /\ c.sends <= tt.sends
  BY <1>1, <1>2, <1>6, <1>8
<1>13. /\ Base(tt)
       /\ \A p \in Promises : Excess(c, p) = Excess(tt, p) + Owed(e, p)
       /\ Orphans(tt) \subseteq {p \in Orphans(c) : ~(e.type = "send" /\ e.result = p)}
       /\ Unfit(tt) = Unfit(c) /\ Unheard(tt) \subseteq Unheard(c)
       /\ Early(tt) \subseteq Early(c) \cup {f \in {e} : e.type = "notify" /\ ~Settled(c, e.kpid)}
       /\ Upgrading(tt) = Upgrading(c) + One(e.type = "upgrade-vat")
       /\ SameButQueues(c, tt)
  BY <1>6, <1>7, <1>8, <1>10, <1>11, <1>12, AcceptedGood
<1>14. \A q \in Promises : Excess(tt, q) = Excess(kk, q)
  <2> TAKE q \in Promises
  <2>1. Excess(tt, q) \in Int
    BY <1>13, ExcessType
  <2> QED
    BY <1>11, <1>13, <2>1
<1>15. NoWorse(kk, c) /\ SameBudget(kk, c)
  BY <1>4 DEF Counts
<1>16. Upgrading(tt) = Upgrading(kk)
  <2>1. Upgrading(c) \in Nat
    <3>1. Family(Queues(c))
      BY <1>6, FamilyIs DEF Base, Numbered
    <3> QED
      BY <3>1, QueueRefsType DEF Upgrading
  <2> QED
    BY <1>2, <1>13, <1>15, <2>1 DEF One, SameBudget
<1>17. /\ Orphans(tt) \subseteq Orphans(kk) \ {result}
       /\ Unfit(tt) \subseteq Unfit(kk) /\ Early(tt) \subseteq Early(kk)
       /\ Unheard(tt) \subseteq Unheard(kk)
  BY <1>2, <1>13, <1>15 DEF NoWorse
<1>18. SameRowsButCounts(kk, tt) /\ tt.clist = kk.clist /\ tt.live = kk.live
       /\ tt.terminated = kk.terminated
       /\ tt.external = kk.external /\ tt.awaiting = kk.awaiting /\ tt.nextKpid = kk.nextKpid
  BY <1>6, <1>8 DEF SameRowsButCounts, SameRest, Accepted
<1> QED
  BY <1>8, <1>13, <1>14, <1>16, <1>17, <1>18 DEF SendResult, tt

-----------------------------------------------------------------------------
(* Steps beside the table and the queues.                                  *)
SameTable(kk, tt) ==
  /\ tt \in KernelState /\ tt.promises = kk.promises /\ tt.clist = kk.clist
  /\ tt.acceptanceQueue = kk.acceptanceQueue /\ tt.runQueue = kk.runQueue
  /\ tt.nextKpid = kk.nextKpid /\ tt.sends = kk.sends /\ tt.failed = kk.failed

LEMMA SameTableGood ==
  ASSUME NEW kk, Base(kk), NEW tt, SameTable(kk, tt)
  PROVE  /\ Ended(tt) /\ (\A p \in Promises : Excess(tt, p) >= 0) => Base(tt)
         /\ Sends(tt) = Sends(kk) /\ Notices(tt) = Notices(kk) /\ Upgrading(tt) = Upgrading(kk)
         /\ Orphans(tt) = Orphans(kk) /\ Early(tt) = Early(kk)
         /\ \A w \in Vats, p \in Promises :
              (Told(tt, w, p) <=> Told(kk, w, p)) /\ (Decided(tt, w, p) <=> Decided(kk, w, p))
         /\ \A p \in Promises :
              /\ Excess(tt, p) = Excess(kk, p) + kk.external[p] - tt.external[p]
              /\ Excess(kk, p) \in Int /\ kk.external[p] \in Nat /\ tt.external[p] \in Nat
<1>1. kk \in KernelState /\ tt \in KernelState /\ Unique(Queues(kk))
  BY DEF Base, Numbered, SameTable
<1>2. Queues(tt) = Queues(kk)
  BY DEF Queues, SameTable
<1>3. Sends(tt) = Sends(kk) /\ Notices(tt) = Notices(kk) /\ Upgrading(tt) = Upgrading(kk)
  BY <1>2 DEF Sends, Notices, Upgrading
<1>4. \A p : /\ Undecided(tt, p) <=> Undecided(kk, p)
             /\ Settled(tt, p) <=> Settled(kk, p)
             /\ Unresolved(tt, p) <=> Unresolved(kk, p)
  BY DEF Undecided, Settled, Unresolved, SameTable
<1>5. Ended(tt) /\ (\A p \in Promises : Excess(tt, p) >= 0) => Base(tt)
  <2>1. Resolvers(tt)
    BY <1>3, <1>4 DEF Base, Resolvers
  <2>2. TableOK(tt)
    BY DEF Base, TableOK, SameTable
  <2>3. Numbered(tt)
    BY <1>2, <1>3 DEF Base, Numbered, SameTable
  <2> QED
    BY <1>1, <2>1, <2>2, <2>3 DEF Base, SameTable
<1>6. Orphans(tt) = Orphans(kk) /\ Early(tt) = Early(kk)
  BY <1>3, <1>4 DEF Orphans, Early
<1>7. \A w \in Vats, p \in Promises :
              (Told(tt, w, p) <=> Told(kk, w, p)) /\ (Decided(tt, w, p) <=> Decided(kk, w, p))
  BY <1>3, <1>4 DEF Told, Decided, SameTable
<1>8. ASSUME NEW p \in Promises
      PROVE  /\ Excess(tt, p) = Excess(kk, p) + kk.external[p] - tt.external[p]
             /\ Excess(kk, p) \in Int /\ kk.external[p] \in Nat /\ tt.external[p] \in Nat
  <2>1. /\ HeldBy(kk, p) \in Nat /\ QueueRefs(Queues(kk), p) \in Nat /\ kk.external[p] \in Nat
        /\ DataRefs(kk, p) \in Nat /\ kk.promises[p].refCount \in Nat /\ Excess(kk, p) \in Int
    BY <1>1, RefsType
  <2>2. tt.external[p] \in Nat
    BY <1>1, <1>2, RefsType
  <2>3. DataRefs(tt, p) = DataRefs(kk, p) /\ HeldBy(tt, p) = HeldBy(kk, p)
        /\ tt.promises = kk.promises
    BY DEF DataRefs, HeldBy, SameTable
  <2> HIDE DEF SameTable
  <2> QED
    BY <1>2, <2>1, <2>2, <2>3 DEF Refs, Excess
<1> QED
  BY <1>3, <1>5, <1>6, <1>7, <1>8

\* What vats wait for, or what is only recorded, changes.
Watches(kk, tt) ==
  SameTable(kk, tt) /\ tt.external = kk.external /\ tt.live = kk.live /\ tt.terminated = kk.terminated

LEMMA WatchesGood ==
  ASSUME NEW kk, Base(kk), NEW tt, Watches(kk, tt)
  PROVE  /\ Base(tt) /\ SameBudget(kk, tt)
         /\ \A p \in Promises : Excess(tt, p) = Excess(kk, p)
         /\ Orphans(tt) = Orphans(kk) /\ Early(tt) = Early(kk) /\ Unfit(tt) = Unfit(kk)
         /\ \A w \in Vats, p \in Promises : Told(tt, w, p) <=> Told(kk, w, p)
         /\ tt.awaiting = kk.awaiting => Unheard(tt) = Unheard(kk)
<1>1. SameTable(kk, tt) /\ Ended(tt)
  BY DEF Watches, Base, Ended
<1>2. /\ Ended(tt) /\ (\A p \in Promises : Excess(tt, p) >= 0) => Base(tt)
      /\ Upgrading(tt) = Upgrading(kk)
      /\ Orphans(tt) = Orphans(kk) /\ Early(tt) = Early(kk)
      /\ \A w \in Vats, p \in Promises :
              (Told(tt, w, p) <=> Told(kk, w, p)) /\ (Decided(tt, w, p) <=> Decided(kk, w, p))
      /\ \A p \in Promises :
              /\ Excess(tt, p) = Excess(kk, p) + kk.external[p] - tt.external[p]
              /\ Excess(kk, p) \in Int /\ kk.external[p] \in Nat /\ tt.external[p] \in Nat
  BY <1>1, SameTableGood
<1>3. \A p \in Promises : Excess(tt, p) = Excess(kk, p) /\ Excess(kk, p) >= 0
  <2> TAKE p \in Promises
  <2>1. Excess(kk, p) >= 0 /\ tt.external[p] = kk.external[p]
    BY DEF Base, Watches
  <2> QED
    BY <1>2, <2>1
<1>4. Base(tt)
  BY <1>1, <1>2, <1>3
<1>5. Unfit(tt) = Unfit(kk)
  BY <1>2 DEF Unfit, Watches, SameTable
<1>6. tt.awaiting = kk.awaiting => Unheard(tt) = Unheard(kk)
  BY <1>2 DEF Unheard, Watches
<1>7. SameBudget(kk, tt)
  BY <1>2 DEF SameBudget, Watches, SameTable
<1> QED
  BY <1>2, <1>3, <1>4, <1>5, <1>6, <1>7

LEMMA WatchesStaysGood ==
  ASSUME NEW kk, Good(kk), NEW tt, Watches(kk, tt), tt.awaiting = kk.awaiting
  PROVE  Good(tt) /\ SameBudget(kk, tt)
<1>1. Base(kk)
  BY DEF Good
<1>2. /\ Base(tt) /\ SameBudget(kk, tt)
      /\ \A p \in Promises : Excess(tt, p) = Excess(kk, p)
      /\ Orphans(tt) = Orphans(kk) /\ Early(tt) = Early(kk) /\ Unfit(tt) = Unfit(kk)
      /\ Unheard(tt) = Unheard(kk)
  BY <1>1, WatchesGood
<1> QED
  BY <1>2 DEF Good

\* A vat ends: what it decides is left to be rejected.
Ends(kk, tt, v) ==
  /\ SameTable(kk, tt) /\ tt.external = kk.external /\ tt.awaiting = kk.awaiting
  /\ tt.live = kk.live \ {v} /\ tt.terminated = Append(kk.terminated, v)

LEMMA EndsGood ==
  ASSUME NEW kk, Good(kk), NEW v \in Vats, NEW tt, Ends(kk, tt, v)
  PROVE  /\ Base(tt) /\ \A p \in Promises : Excess(tt, p) = 0
         /\ Orphans(tt) = {} /\ Early(tt) = {} /\ Unheard(tt) = {} /\ Upgrading(tt) = Upgrading(kk)
         /\ \A d \in Unfit(tt) : d[1] = v /\ d[2] \in kk.clist[v] /\ Decided(kk, v, d[2])
<1>1. SameTable(kk, tt) /\ Base(kk)
  BY DEF Ends, Good
<1>2. Ended(tt)
  <2>1. kk.terminated \in Seq(Vats)
    BY <1>1 DEF Base, KernelState
  <2>2. ASSUME NEW i \in DOMAIN tt.terminated
        PROVE  tt.terminated[i] \notin tt.live
    <3>1. i \in 1..Len(kk.terminated) + 1 /\ (i \in 1..Len(kk.terminated) \/ i = Len(kk.terminated) + 1)
      BY <2>1, <2>2 DEF Ends
    <3>2. CASE i \in 1..Len(kk.terminated)
      <4>1. tt.terminated[i] = kk.terminated[i] /\ i \in DOMAIN kk.terminated
        BY <2>1, <3>2 DEF Ends
      <4> QED
        BY <1>1, <4>1 DEF Base, Ended, Ends
    <3>3. CASE i = Len(kk.terminated) + 1
      BY <2>1, <3>3 DEF Ends
    <3> QED
      BY <3>1, <3>2, <3>3
  <2> QED
    BY <2>2 DEF Ended
<1>3. /\ Ended(tt) /\ (\A p \in Promises : Excess(tt, p) >= 0) => Base(tt)
      /\ Upgrading(tt) = Upgrading(kk)
      /\ Orphans(tt) = Orphans(kk) /\ Early(tt) = Early(kk)
      /\ \A w \in Vats, p \in Promises :
              (Told(tt, w, p) <=> Told(kk, w, p)) /\ (Decided(tt, w, p) <=> Decided(kk, w, p))
      /\ \A p \in Promises :
              /\ Excess(tt, p) = Excess(kk, p) + kk.external[p] - tt.external[p]
              /\ Excess(kk, p) \in Int /\ kk.external[p] \in Nat /\ tt.external[p] \in Nat
  BY <1>1, SameTableGood
<1>4. \A p \in Promises : Excess(tt, p) = 0
  <2> TAKE p \in Promises
  <2>1. Excess(kk, p) = 0 /\ tt.external[p] = kk.external[p]
    BY DEF Good, Ends
  <2> QED
    BY <1>3, <2>1
<1>5. Base(tt)
  BY <1>2, <1>3, <1>4
<1>6. Unheard(tt) = {}
  BY <1>3 DEF Unheard, Ends, Good
<1>7. ASSUME NEW d \in Unfit(tt)
      PROVE  d[1] = v /\ d[2] \in kk.clist[v] /\ Decided(kk, v, d[2])
  <2>1. d \in Vats \X Promises /\ Decided(kk, d[1], d[2]) /\ tt.clist = kk.clist
        /\ tt.live = kk.live \ {v} /\ ~(d[1] \in tt.live /\ d[2] \in tt.clist[d[1]])
    BY <1>1, <1>3, <1>7 DEF Unfit, Ends, SameTable
  <2>2. d[1] \in kk.live /\ d[2] \in kk.clist[d[1]]
    BY <2>1 DEF Good, Unfit
  <2> QED
    BY <2>1, <2>2
<1> QED
  BY <1>3, <1>4, <1>5, <1>6, <1>7 DEF Good

-----------------------------------------------------------------------------
(* The interest of the host in a promise.                                  *)
InterestStep(kk, tt) ==
  /\ Base(tt) /\ SameRowsButCounts(kk, tt) /\ SameBudget(kk, tt) /\ NoWorse(kk, tt)
  /\ \A q \in Promises : Excess(tt, q) = Excess(kk, q)

LEMMA InterestStaysGood ==
  ASSUME NEW kk, Good(kk), NEW tt, InterestStep(kk, tt)
  PROVE  Good(tt)
BY DEF Good, InterestStep, NoWorse

LEMMA ExternalGood ==
  ASSUME NEW kk, Base(kk), NEW tt, SameTable(kk, tt), tt.live = kk.live,
         tt.terminated = kk.terminated, tt.awaiting = kk.awaiting,
         \A q \in Promises : Excess(kk, q) + kk.external[q] >= tt.external[q]
  PROVE  /\ Base(tt) /\ SameRowsButCounts(kk, tt) /\ SameBudget(kk, tt) /\ NoWorse(kk, tt)
         /\ \A q \in Promises : Excess(tt, q) = Excess(kk, q) + kk.external[q] - tt.external[q]
<1>1. Ended(tt)
  BY DEF Base, Ended
<1>2. /\ Ended(tt) /\ (\A p \in Promises : Excess(tt, p) >= 0) => Base(tt)
      /\ Upgrading(tt) = Upgrading(kk)
      /\ Orphans(tt) = Orphans(kk) /\ Early(tt) = Early(kk)
      /\ \A w \in Vats, p \in Promises :
              (Told(tt, w, p) <=> Told(kk, w, p)) /\ (Decided(tt, w, p) <=> Decided(kk, w, p))
      /\ \A p \in Promises :
              /\ Excess(tt, p) = Excess(kk, p) + kk.external[p] - tt.external[p]
              /\ Excess(kk, p) \in Int /\ kk.external[p] \in Nat /\ tt.external[p] \in Nat
  BY SameTableGood
<1>3. \A p \in Promises : Excess(tt, p) >= 0
  BY <1>2
<1>4. Unfit(tt) = Unfit(kk) /\ Unheard(tt) = Unheard(kk)
  BY <1>2 DEF Unfit, Unheard, SameTable
<1>5. SameRowsButCounts(kk, tt) /\ SameBudget(kk, tt)
  BY <1>2 DEF SameRowsButCounts, SameTable, SameBudget
<1> QED
  BY <1>1, <1>2, <1>3, <1>4, <1>5 DEF NoWorse

LEMMA RegisterInterestGood ==
  ASSUME NEW kk, Base(kk), NEW p \in Promises, HasKernelPromise(kk, p)
  PROVE  InterestStep(kk, RegisterInterest(kk, p))
<1> DEFINE c == IncrementRefCount(kk, p)
           tt == RegisterInterest(kk, p)
<1>1. Counts(kk, c) /\ \A q \in Promises : Excess(c, q) = Excess(kk, q) + One(q = p)
  BY IncrementGood
<1>2. tt = [c EXCEPT !.external[p] = @ + 1]
  BY DEF RegisterInterest
<1> HIDE DEF c, tt
<1>3. Base(c) /\ c \in KernelState /\ NoWorse(kk, c) /\ SameBudget(kk, c) /\ SameRowsButCounts(kk, c)
  BY <1>1 DEF Counts, Recounts
<1>4. c.external \in [Promises -> Nat]
  BY <1>3 DEF KernelState
<1>5. SameTable(c, tt) /\ tt.live = c.live /\ tt.terminated = c.terminated /\ tt.awaiting = c.awaiting
      /\ \A q \in Promises : tt.external[q] = c.external[q] + One(q = p)
  <2> DEFINE x == [c.external EXCEPT ![p] = @ + 1]
  <2>1. x \in [Promises -> Nat] /\ \A q \in Promises : x[q] = c.external[q] + One(q = p)
    BY <1>4 DEF One
  <2>2. tt = [c EXCEPT !.external = x]
    BY <1>2, <1>3 DEF KernelState
  <2> HIDE DEF x
  <2> QED
    BY <1>3, <2>1, <2>2 DEF SameTable, KernelState
<1>6. \A q \in Promises : /\ Excess(c, q) + c.external[q] >= tt.external[q] /\ Excess(kk, q) \in Int
                          /\ c.external[q] \in Nat
  <2> TAKE q \in Promises
  <2>1. Excess(kk, q) \in Int /\ Excess(kk, q) >= 0
    BY ExcessType
  <2>2. Excess(c, q) = Excess(kk, q) + One(q = p) /\ tt.external[q] = c.external[q] + One(q = p)
    BY <1>1, <1>5
  <2> QED
    BY <1>4, <2>1, <2>2 DEF One
<1>7. /\ Base(tt) /\ SameRowsButCounts(c, tt) /\ SameBudget(c, tt) /\ NoWorse(c, tt)
      /\ \A q \in Promises : Excess(tt, q) = Excess(c, q) + c.external[q] - tt.external[q]
  BY <1>3, <1>5, <1>6, ExternalGood
<1>8. \A q \in Promises : Excess(tt, q) = Excess(kk, q)
  <2> TAKE q \in Promises
  <2>1. /\ Excess(tt, q) = Excess(c, q) + c.external[q] - tt.external[q]
        /\ Excess(c, q) = Excess(kk, q) + One(q = p) /\ tt.external[q] = c.external[q] + One(q = p)
        /\ Excess(kk, q) \in Int /\ c.external[q] \in Nat
    BY <1>1, <1>5, <1>6, <1>7
  <2> QED
    BY <2>1 DEF One
<1>9. SameRowsButCounts(kk, tt) /\ SameBudget(kk, tt) /\ NoWorse(kk, tt)
  BY <1>3, <1>7 DEF SameRowsButCounts, SameBudget, NoWorse
<1> QED
  BY <1>7, <1>8, <1>9 DEF InterestStep, tt

ReleaseInterest(kk, p) == [DecrementRefCount(kk, p) EXCEPT !.external[p] = @ - 1]

LEMMA ReleaseInterestGood ==
  ASSUME NEW kk, Base(kk), NEW p \in Promises, kk.external[p] > 0
  PROVE  InterestStep(kk, ReleaseInterest(kk, p))
<1> DEFINE x == [kk.external EXCEPT ![p] = @ - 1]
           k0 == [kk EXCEPT !.external = x]
           tt == ReleaseInterest(kk, p)
<1>0. kk \in KernelState /\ kk.external \in [Promises -> Nat] /\ kk.promises \in [Promises -> KernelPromise]
      /\ kk.promises[p] \in KernelPromise
  BY DEF Base, KernelState
<1>1. x \in [Promises -> Nat] /\ \A q \in Promises : kk.external[q] = x[q] + One(q = p)
  BY <1>0 DEF One
<1>2. k0 \in KernelState /\ k0.external = x /\ SameTable(kk, k0) /\ k0.live = kk.live
      /\ k0.terminated = kk.terminated /\ k0.awaiting = kk.awaiting /\ k0.maybeFree = kk.maybeFree
  <2> HIDE DEF x
  <2> QED
    BY <1>0, <1>1 DEF SameTable, KernelState
<1>3. tt = DecrementRefCount(k0, p)
  <2>1. kk.promises[p].refCount # 0
    <3>1. Refs(kk, p) >= 1
      <4>1. /\ HeldBy(kk, p) \in Nat /\ QueueRefs(Queues(kk), p) \in Nat /\ kk.external[p] \in Nat
            /\ DataRefs(kk, p) \in Nat
        BY RefsType DEF Base, Numbered
      <4> QED
        BY <4>1 DEF Refs
    <3> QED
      BY <3>1, ReferredTo
  <2> DEFINE free == IF kk.promises[p].refCount = 1 /\ ~Contains(kk.maybeFree, p)
                     THEN Append(kk.maybeFree, p) ELSE kk.maybeFree
  <2>2. DecrementRefCount(kk, p) = [kk EXCEPT !.promises[p].refCount = @ - 1, !.maybeFree = free]
    BY <1>0, <2>1 DEF DecrementRefCount, KernelState
  <2>3. DecrementRefCount(k0, p) = [k0 EXCEPT !.promises[p].refCount = @ - 1, !.maybeFree = free]
    <3>1. k0.promises = kk.promises
      BY <1>2 DEF SameTable
    <3> HIDE DEF k0
    <3> QED
      BY <1>2, <2>1, <3>1 DEF DecrementRefCount, KernelState
  <2> HIDE DEF free
  <2>4. tt = [[kk EXCEPT !.promises[p].refCount = @ - 1, !.maybeFree = free] EXCEPT !.external[p] = @ - 1]
    BY <2>2 DEF ReleaseInterest
  <2> QED
    BY <1>0, <2>3, <2>4 DEF KernelState
<1> HIDE DEF k0, tt, x
<1>4. \A q \in Promises : /\ Excess(kk, q) + kk.external[q] >= k0.external[q]
                          /\ Excess(kk, q) \in Int /\ Excess(kk, q) >= 0 /\ x[q] \in Nat
                          /\ kk.external[q] = x[q] + One(q = p)
  <2> TAKE q \in Promises
  <2>1. Excess(kk, q) \in Int /\ Excess(kk, q) >= 0
    BY ExcessType
  <2>2. x[q] \in Nat /\ kk.external[q] = x[q] + One(q = p)
    BY <1>1
  <2> QED
    BY <1>2, <2>1, <2>2 DEF One
<1>5. /\ Base(k0) /\ SameRowsButCounts(kk, k0) /\ SameBudget(kk, k0) /\ NoWorse(kk, k0)
      /\ \A q \in Promises : Excess(k0, q) = Excess(kk, q) + kk.external[q] - k0.external[q]
  BY <1>2, <1>4, ExternalGood
<1>6. \A q \in Promises : Excess(k0, q) = Excess(kk, q) + One(q = p)
  <2> TAKE q \in Promises
  <2>1. Excess(k0, q) = Excess(kk, q) + kk.external[q] - x[q]
    BY <1>2, <1>5
  <2>2. Excess(kk, q) \in Int /\ x[q] \in Nat /\ kk.external[q] = x[q] + One(q = p)
    BY <1>4
  <2> QED
    BY <2>1, <2>2 DEF One
<1>7. Excess(k0, p) >= 1
  BY <1>4, <1>6 DEF One
<1>8. Counts(k0, tt) /\ \A q \in Promises : Excess(k0, q) = Excess(tt, q) + One(q = p)
  BY <1>3, <1>5, <1>7, DecrementGood
<1>9. \A q \in Promises : Excess(tt, q) = Excess(kk, q)
  <2> TAKE q \in Promises
  <2>1. Excess(kk, q) \in Int /\ Excess(tt, q) \in Int
    BY <1>8, ExcessType DEF Counts
  <2> QED
    BY <1>6, <1>8, <2>1 DEF One
<1>10. SameRowsButCounts(kk, tt) /\ SameBudget(kk, tt) /\ NoWorse(kk, tt) /\ Base(tt)
  BY <1>5, <1>8 DEF SameRowsButCounts, SameBudget, NoWorse, Counts, Recounts
<1> QED
  BY <1>9, <1>10 DEF InterestStep, tt

-----------------------------------------------------------------------------
(* Promises enter and leave a c-list.                                      *)

LEMMA EntryStepTwice ==
  ASSUME NEW k1, NEW k2, NEW k3, EntryStep(k1, k2), EntryStep(k2, k3)
  PROVE  EntryStep(k1, k3)
<1>1. Listing(k1, k3) /\ SameBudget(k1, k3)
  BY DEF EntryStep, Listing, SameRest, SameRowsButCounts, SameBudget
<1> QED
  BY <1>1 DEF EntryStep

LEMMA EntryStepNot ==
  ASSUME NEW kk, Base(kk)
  PROVE  EntryStep(kk, kk)
BY DEF EntryStep, Listing, SameRest, SameRowsButCounts, SameBudget, Base

\* The promises ps are in the c-list of v now.
MapStep(kk, tt, v, ps) ==
  /\ EntryStep(kk, tt)
  /\ \A w \in Vats : tt.clist[w] = IF w = v THEN kk.clist[v] \cup ps ELSE kk.clist[w]
  /\ Unheard(tt) \subseteq Unheard(kk) /\ Unfit(tt) \subseteq Unfit(kk)

LEMMA MapTwice ==
  ASSUME NEW k1, NEW k2, NEW k3, NEW v \in Vats, NEW ps, NEW qs, MapStep(k1, k2, v, ps),
         MapStep(k2, k3, v, qs)
  PROVE  MapStep(k1, k3, v, ps \cup qs)
<1>1. EntryStep(k1, k3)
  BY EntryStepTwice DEF MapStep
<1>2. ASSUME NEW w \in Vats
      PROVE  k3.clist[w] = IF w = v THEN k1.clist[v] \cup (ps \cup qs) ELSE k1.clist[w]
  <2>1. k3.clist[w] = (IF w = v THEN k2.clist[v] \cup qs ELSE k2.clist[w])
        /\ k2.clist[w] = (IF w = v THEN k1.clist[v] \cup ps ELSE k1.clist[w])
    BY DEF MapStep
  <2> QED
    BY <2>1
<1> QED
  BY <1>1, <1>2 DEF MapStep

LEMMA MapNot ==
  ASSUME NEW kk, Base(kk), NEW v \in Vats, NEW ps, ps \subseteq kk.clist[v]
  PROVE  MapStep(kk, kk, v, ps)
<1>1. kk.clist[v] \cup ps = kk.clist[v]
  OBVIOUS
<1> QED
  BY <1>1, EntryStepNot DEF MapStep

SlotPromises(s) == {p \in Promises : s = Promise(p)}

LEMMA MapKernelSlotGood ==
  ASSUME NEW kk, Base(kk), NEW v \in Vats, NEW s \in Slot,
         s.type = "promise" => HasKernelPromise(kk, s.id)
  PROVE  MapStep(kk, MapKernelSlotToVatSlot(kk, v, s), v, SlotPromises(s))
<1>1. CASE s.type = "promise"
  <2>1. s.id \in Promises /\ SlotPromises(s) = {s.id}
    BY <1>1, SlotIs DEF SlotPromises
  <2>2. CASE s.id \in kk.clist[v]
    <3>1. MapKernelSlotToVatSlot(kk, v, s) = kk
      BY <2>2 DEF MapKernelSlotToVatSlot
    <3> QED
      BY <2>1, <2>2, <3>1, MapNot
  <2>3. CASE s.id \notin kk.clist[v]
    <3> DEFINE p == s.id
               tt == AddCListEntry(kk, v, p)
    <3>1. MapKernelSlotToVatSlot(kk, v, s) = tt
      BY <1>1, <2>3 DEF MapKernelSlotToVatSlot
    <3>2. /\ EntryStep(kk, tt)
          /\ \A w \in Vats : tt.clist[w] = IF w = v THEN kk.clist[v] \cup {p} ELSE kk.clist[w]
          /\ Unheard(tt) \subseteq Unheard(kk)
          /\ Unfit(tt) \subseteq Unfit(kk) \ {d \in {<<v, p>>} : v \in kk.live}
      BY <1>1, <2>1, <2>3, AddEntryGood
    <3> HIDE DEF tt
    <3> QED
      BY <2>1, <3>1, <3>2 DEF MapStep
  <2> QED
    BY <2>2, <2>3
<1>2. CASE s.type # "promise"
  <2>1. SlotPromises(s) = {} /\ MapKernelSlotToVatSlot(kk, v, s) = kk
    BY <1>2, SlotIs DEF SlotPromises, MapKernelSlotToVatSlot
  <2> QED
    BY <2>1, MapNot
<1> QED
  BY <1>1, <1>2

LEMMA PromiseSlotIs ==
  ASSUME NEW p \in Promises
  PROVE  /\ Promise(p) \in Slot /\ Promise(p).type = "promise" /\ Promise(p).id = p
         /\ SlotPromises(Promise(p)) = {p}
BY DEF Promise, Slot, SlotPromises

LEMMA RootSlotIs ==
  ASSUME NEW v \in Vats
  PROVE  Root(v) \in Slot /\ Root(v).type = "object" /\ SlotPromises(Root(v)) = {}
         /\ \A q : Root(v) # Promise(q)
BY DEF Promise, Slot, SlotPromises, Root

\* Promises leave the c-list of v.
RetireStep(kk, tt, v, ps) ==
  /\ EntryStep(kk, tt)
  /\ \A w \in Vats : tt.clist[w] = IF w = v THEN kk.clist[v] \ ps ELSE kk.clist[w]
  /\ Unheard(tt) \subseteq Unheard(kk) \cup ({v} \X ps)
  /\ Unfit(tt) \subseteq Unfit(kk) \cup ({v} \X ps)

LEMMA RetireTwice ==
  ASSUME NEW k1, NEW k2, NEW k3, NEW v \in Vats, NEW ps, NEW qs, RetireStep(k1, k2, v, ps),
         RetireStep(k2, k3, v, qs)
  PROVE  RetireStep(k1, k3, v, ps \cup qs)
<1>1. EntryStep(k1, k3)
  BY EntryStepTwice DEF RetireStep
<1>2. ASSUME NEW w \in Vats
      PROVE  k3.clist[w] = IF w = v THEN k1.clist[v] \ (ps \cup qs) ELSE k1.clist[w]
  <2>1. k3.clist[w] = (IF w = v THEN k2.clist[v] \ qs ELSE k2.clist[w])
        /\ k2.clist[w] = (IF w = v THEN k1.clist[v] \ ps ELSE k1.clist[w])
    BY DEF RetireStep
  <2> QED
    BY <2>1
<1>3. {v} \X (ps \cup qs) = ({v} \X ps) \cup ({v} \X qs)
  OBVIOUS
<1>4. /\ Unheard(k3) \subseteq Unheard(k1) \cup ({v} \X (ps \cup qs))
      /\ Unfit(k3) \subseteq Unfit(k1) \cup ({v} \X (ps \cup qs))
  BY <1>3 DEF RetireStep
<1> QED
  BY <1>1, <1>2, <1>4 DEF RetireStep

LEMMA RetireNot ==
  ASSUME NEW kk, Base(kk), NEW v \in Vats
  PROVE  RetireStep(kk, kk, v, {})
BY EntryStepNot DEF RetireStep

RetireOne(kk, v, p) == DeleteCListEntry(MapKernelSlotToVatSlot(kk, v, Promise(p)), v, p)

LEMMA RetireOneGood ==
  ASSUME NEW kk, Base(kk), NEW v \in Vats, NEW p \in Promises, HasKernelPromise(kk, p)
  PROVE  RetireStep(kk, RetireOne(kk, v, p), v, {p})
<1> DEFINE m == MapKernelSlotToVatSlot(kk, v, Promise(p))
           tt == DeleteCListEntry(m, v, p)
<1>1. MapStep(kk, m, v, {p})
  BY PromiseSlotIs, MapKernelSlotGood
<1> HIDE DEF m
<1>2. Base(m) /\ p \in m.clist[v]
  BY <1>1 DEF MapStep, EntryStep
<1>3. /\ EntryStep(m, tt)
      /\ \A w \in Vats : tt.clist[w] = IF w = v THEN m.clist[v] \ {p} ELSE m.clist[w]
      /\ Unheard(tt) \subseteq Unheard(m) \cup {<<v, p>>}
      /\ Unfit(tt) \subseteq Unfit(m) \cup {<<v, p>>}
  BY <1>2, DeleteEntryGood
<1> HIDE DEF tt
<1>4. EntryStep(kk, tt)
  BY <1>1, <1>3, EntryStepTwice DEF MapStep
<1>5. ASSUME NEW w \in Vats
      PROVE  tt.clist[w] = IF w = v THEN kk.clist[v] \ {p} ELSE kk.clist[w]
  <2>1. tt.clist[w] = (IF w = v THEN m.clist[v] \ {p} ELSE m.clist[w])
        /\ m.clist[w] = (IF w = v THEN kk.clist[v] \cup {p} ELSE kk.clist[w])
    BY <1>1, <1>3 DEF MapStep
  <2> QED
    BY <2>1
<1>6. {v} \X {p} = {<<v, p>>}
  OBVIOUS
<1> QED
  BY <1>1, <1>3, <1>4, <1>5, <1>6 DEF RetireStep, MapStep, RetireOne, m, tt

LEMMA RetireGood ==
  ASSUME NEW kk, Base(kk), NEW v \in Vats, NEW ws \in Seq(Promises),
         \A i \in 1..Len(ws) : HasKernelPromise(kk, ws[i])
  PROVE  RetireStep(kk, DeleteCListEntries(kk, v, ws), v, {ws[i] : i \in 1..Len(ws)})
<1> DEFINE n == Len(ws)
           Body(f) == [m \in 0..n |-> IF m = 0 THEN kk ELSE RetireOne(f[m - 1], v, ws[m])]
           h == CHOOSE f : f = Body(f)
           Holds(s, m) == RetireStep(kk, s, v, {ws[i] : i \in 1..m})
           Inv == [m \in 0..n |-> {s \in KernelState : Holds(s, m)}]
           next == [d \in (Nat \X KernelState) |-> RetireOne(d[2], v, ws[d[1]])]
<1>1. n \in Nat
  OBVIOUS
<1>2. \A m \in 0..n : \A s : s \in Inv[m] <=> s \in KernelState /\ Holds(s, m)
  OBVIOUS
<1>3. kk \in Inv[0]
  <2>1. kk \in KernelState /\ RetireStep(kk, kk, v, {})
    BY RetireNot DEF Base
  <2>2. {ws[i] : i \in 1..0} = {}
    OBVIOUS
  <2>3. RetireStep(kk, kk, v, {ws[i] : i \in 1..0})
    BY <2>1, <2>2
  <2> QED
    BY <1>1, <1>2, <2>1, <2>3
<1>4. ASSUME NEW m \in 1..n, NEW a \in Inv[m - 1]
      PROVE  RetireOne(a, v, ws[m]) \in Inv[m]
  <2>1. m \in 0..n /\ m - 1 \in 0..n /\ m \in Nat /\ ws[m] \in Promises
    BY <1>1
  <2>2. a \in KernelState /\ RetireStep(kk, a, v, {ws[i] : i \in 1..m - 1})
    BY <1>2, <1>4, <2>1
  <2> DEFINE b == RetireOne(a, v, ws[m])
  <2>3. Base(a) /\ HasKernelPromise(a, ws[m])
    BY <2>1, <2>2 DEF RetireStep, EntryStep, Listing, SameRowsButCounts, HasKernelPromise
  <2>4. RetireStep(a, b, v, {ws[m]})
    BY <2>1, <2>3, RetireOneGood
  <2> HIDE DEF b
  <2>5. {ws[i] : i \in 1..m} = {ws[i] : i \in 1..m - 1} \cup {ws[m]}
    <3>1. 1..m = (1..m - 1) \cup {m}
      BY <2>1
    <3> QED
      BY <3>1
  <2>6. RetireStep(kk, b, v, {ws[i] : i \in 1..m})
    BY <2>2, <2>4, <2>5, RetireTwice
  <2>7. b \in Inv[m]
    <3>1. b \in KernelState
      BY <2>4 DEF RetireStep, EntryStep, Base
    <3> QED
      BY <1>2, <2>1, <2>6, <3>1
  <2> QED
    BY <2>7 DEF b
<1>5. ASSUME NEW m \in 1..n, NEW a \in Inv[m - 1]
      PROVE  next[<<m, a>>] = RetireOne(a, v, ws[m])
  <2>1. a \in KernelState /\ m \in Nat
    BY <1>1, <1>2, <1>5
  <2> QED
    BY <2>1
<1> HIDE DEF Inv, next
<1>6. RunExists(Inv, n, kk, next)
  BY <1>1, <1>3, <1>4, <1>5, LoopRuns
<1>7. PICK f : f = [m \in 0..n |-> f[m]] /\ Runs(f, n, kk, next) /\ \A m \in 0..n : f[m] \in Inv[m]
  BY <1>6 DEF RunExists
<1>8. f = Body(f)
  <2>1. ASSUME NEW m \in 1..n
        PROVE  f[m] = RetireOne(f[m - 1], v, ws[m])
    <3>1. m - 1 \in 0..n
      BY <1>1
    <3> QED
      BY <1>5, <1>7, <3>1 DEF Runs
  <2>2. f[0] = kk
    BY <1>7 DEF Runs
  <2>3. \A m \in 0..n : f[m] = Body(f)[m]
    BY <1>1, <2>1, <2>2
  <2> QED
    BY <1>7, <2>3
<1>9. h = Body(h)
  BY <1>8
<1>10. DeleteCListEntries(kk, v, ws) = h[n]
  BY DEF DeleteCListEntries, ForEach, RetireOne
<1>11. h[0] = kk /\ \A m \in 1..n : h[m] = RetireOne(h[m - 1], v, ws[m])
  <2> HIDE DEF h
  <2> QED
    BY <1>1, <1>9
<1> HIDE DEF h
<1>12. \A m \in 0..n : h[m] \in Inv[m]
  BY <1>1, <1>3, <1>4, <1>11, LoopEnds
<1>13. Holds(h[n], n)
  BY <1>1, <1>2, <1>12
<1> QED
  BY <1>10, <1>13

LEMMA TranslateNotifyGood ==
  ASSUME NEW kk, Base(kk), NEW v \in Vats, NEW p \in Promises, HasKernelPromise(kk, p)
  PROVE  \E ps : MapStep(kk, TranslateNotify(kk, v, p), v, ps)
<1> DEFINE m == MapKernelSlotToVatSlot(kk, v, Promise(p))
           d == kk.promises[p].data
           tt == MapKernelSlotToVatSlot(m, v, d)
<1>1. MapStep(kk, m, v, {p})
  BY PromiseSlotIs, MapKernelSlotGood
<1>2. tt = TranslateNotify(kk, v, p)
  BY DEF TranslateNotify
<1> HIDE DEF m, tt
<1>3. d \in Slot
  BY DEF Base, KernelState, KernelPromise
<1>4. d.type = "promise" => HasKernelPromise(kk, d.id) /\ d.id \in Promises
  <2>1. ASSUME d.type = "promise"
        PROVE  HasKernelPromise(kk, d.id) /\ d.id \in Promises
    <3>1. d.id \in Promises /\ d = Promise(d.id)
      BY <1>3, <2>1, SlotIs
    <3>2. ~(Refs(kk, d.id) = 0)
      BY <3>1, ReferredFrom
    <3>3. Refs(kk, d.id) \in Nat
      BY <3>1, RefsType DEF Base, Numbered
    <3>4. Refs(kk, d.id) >= 1
      BY <3>2, <3>3
    <3> QED
      BY <3>1, <3>4, ReferredTo
  <2> QED
    BY <2>1
<1>5. Base(m) /\ (d.type = "promise" => HasKernelPromise(m, d.id))
  BY <1>1, <1>4 DEF MapStep, EntryStep, Listing, SameRowsButCounts, HasKernelPromise
<1> HIDE DEF d
<1>6. MapStep(m, tt, v, SlotPromises(d))
  BY <1>3, <1>5, MapKernelSlotGood DEF tt
<1>7. MapStep(kk, tt, v, {p} \cup SlotPromises(d))
  BY <1>1, <1>6, MapTwice
<1> QED
  BY <1>2, <1>7

-----------------------------------------------------------------------------
\* What a vat is told of settled promises.
TranslateAll(kk, v, ws) == ForEach(LAMBDA acc, q : TranslateNotify(acc, v, q), kk, ws)

LEMMA TranslateAllGood ==
  ASSUME NEW kk, Base(kk), NEW v \in Vats, NEW ws \in Seq(Promises),
         \A i \in 1..Len(ws) : HasKernelPromise(kk, ws[i])
  PROVE  \E ps : MapStep(kk, TranslateAll(kk, v, ws), v, ps)
<1> DEFINE n == Len(ws)
           Body(f) == [m \in 0..n |-> IF m = 0 THEN kk ELSE TranslateNotify(f[m - 1], v, ws[m])]
           h == CHOOSE f : f = Body(f)
           Holds(s, m) == \E ps : MapStep(kk, s, v, ps)
           Inv == [m \in 0..n |-> {s \in KernelState : Holds(s, m)}]
           next == [d \in (Nat \X KernelState) |-> TranslateNotify(d[2], v, ws[d[1]])]
<1>1. n \in Nat
  OBVIOUS
<1>2. \A m \in 0..n : \A s : s \in Inv[m] <=> s \in KernelState /\ Holds(s, m)
  OBVIOUS
<1>3. kk \in Inv[0]
  <2>1. kk \in KernelState /\ MapStep(kk, kk, v, {})
    BY MapNot DEF Base
  <2> QED
    BY <1>1, <1>2, <2>1
<1>4. ASSUME NEW m \in 1..n, NEW a \in Inv[m - 1]
      PROVE  TranslateNotify(a, v, ws[m]) \in Inv[m]
  <2>1. m \in 0..n /\ m - 1 \in 0..n /\ m \in Nat /\ ws[m] \in Promises
    BY <1>1
  <2>2. a \in KernelState /\ \E ps : MapStep(kk, a, v, ps)
    BY <1>2, <1>4, <2>1
  <2>2a. PICK ps : MapStep(kk, a, v, ps)
    BY <2>2
  <2> DEFINE b == TranslateNotify(a, v, ws[m])
  <2>3. Base(a) /\ HasKernelPromise(a, ws[m])
    BY <2>1, <2>2a DEF MapStep, EntryStep, Listing, SameRowsButCounts, HasKernelPromise
  <2>4. PICK qs : MapStep(a, b, v, qs)
    BY <2>1, <2>3, TranslateNotifyGood
  <2> HIDE DEF b
  <2>6. MapStep(kk, b, v, ps \cup qs)
    BY <2>2a, <2>4, MapTwice
  <2>7. b \in Inv[m]
    <3>1. b \in KernelState
      BY <2>4 DEF MapStep, EntryStep, Base
    <3> QED
      BY <1>2, <2>1, <2>6, <3>1
  <2> QED
    BY <2>7 DEF b
<1>5. ASSUME NEW m \in 1..n, NEW a \in Inv[m - 1]
      PROVE  next[<<m, a>>] = TranslateNotify(a, v, ws[m])
  <2>1. a \in KernelState /\ m \in Nat
    BY <1>1, <1>2, <1>5
  <2> QED
    BY <2>1
<1> HIDE DEF Inv, next
<1>6. RunExists(Inv, n, kk, next)
  BY <1>1, <1>3, <1>4, <1>5, LoopRuns
<1>7. PICK f : f = [m \in 0..n |-> f[m]] /\ Runs(f, n, kk, next) /\ \A m \in 0..n : f[m] \in Inv[m]
  BY <1>6 DEF RunExists
<1>8. f = Body(f)
  <2>1. ASSUME NEW m \in 1..n
        PROVE  f[m] = TranslateNotify(f[m - 1], v, ws[m])
    <3>1. m - 1 \in 0..n
      BY <1>1
    <3> QED
      BY <1>5, <1>7, <3>1 DEF Runs
  <2>2. f[0] = kk
    BY <1>7 DEF Runs
  <2>3. \A m \in 0..n : f[m] = Body(f)[m]
    BY <1>1, <2>1, <2>2
  <2> QED
    BY <1>7, <2>3
<1>9. h = Body(h)
  BY <1>8
<1>10. TranslateAll(kk, v, ws) = h[n]
  BY DEF TranslateAll, ForEach
<1>11. h[0] = kk /\ \A m \in 1..n : h[m] = TranslateNotify(h[m - 1], v, ws[m])
  <2> HIDE DEF h
  <2> QED
    BY <1>1, <1>9
<1> HIDE DEF h
<1>12. \A m \in 0..n : h[m] \in Inv[m]
  BY <1>1, <1>3, <1>4, <1>11, LoopEnds
<1>13. Holds(h[n], n)
  BY <1>1, <1>2, <1>12
<1> QED
  BY <1>10, <1>13

\* The c-list of a dead vat.
AbandonAll(kk, v, ws) == ForEach(LAMBDA acc, p : DeleteCListEntry(acc, v, p), kk, ws)

LEMMA AbandonGood ==
  ASSUME NEW kk, Base(kk), NEW v \in Vats, NEW ws \in Seq(Promises),
         \A i \in 1..Len(ws) : ws[i] \in kk.clist[v],
         \A i, j \in 1..Len(ws) : i # j => ws[i] # ws[j]
  PROVE  RetireStep(kk, AbandonAll(kk, v, ws), v, {ws[i] : i \in 1..Len(ws)})
<1> DEFINE n == Len(ws)
           Body(f) == [m \in 0..n |-> IF m = 0 THEN kk ELSE DeleteCListEntry(f[m - 1], v, ws[m])]
           h == CHOOSE f : f = Body(f)
           Holds(s, m) == RetireStep(kk, s, v, {ws[i] : i \in 1..m})
           Inv == [m \in 0..n |-> {s \in KernelState : Holds(s, m)}]
           next == [d \in (Nat \X KernelState) |-> DeleteCListEntry(d[2], v, ws[d[1]])]
<1>1. n \in Nat
  OBVIOUS
<1>2. \A m \in 0..n : \A s : s \in Inv[m] <=> s \in KernelState /\ Holds(s, m)
  OBVIOUS
<1>3. kk \in Inv[0]
  <2>1. kk \in KernelState /\ RetireStep(kk, kk, v, {})
    BY RetireNot DEF Base
  <2>2. {ws[i] : i \in 1..0} = {}
    OBVIOUS
  <2>3. RetireStep(kk, kk, v, {ws[i] : i \in 1..0})
    BY <2>1, <2>2
  <2> QED
    BY <1>1, <1>2, <2>1, <2>3
<1>4. ASSUME NEW m \in 1..n, NEW a \in Inv[m - 1]
      PROVE  DeleteCListEntry(a, v, ws[m]) \in Inv[m]
  <2>1. m \in 0..n /\ m - 1 \in 0..n /\ m \in Nat /\ ws[m] \in Promises
    BY <1>1
  <2>2. a \in KernelState /\ RetireStep(kk, a, v, {ws[i] : i \in 1..m - 1})
    BY <1>2, <1>4, <2>1
  <2> DEFINE b == DeleteCListEntry(a, v, ws[m])
  <2>3. Base(a) /\ ws[m] \in a.clist[v]
    <3>1. \A i \in 1..m - 1 : ws[i] # ws[m]
      BY <1>1, <2>1
    <3>2. ws[m] \in kk.clist[v] /\ a.clist[v] = kk.clist[v] \ {ws[i] : i \in 1..m - 1}
      BY <2>2 DEF RetireStep
    <3> QED
      BY <2>2, <3>1, <3>2 DEF RetireStep, EntryStep
  <2>4. /\ EntryStep(a, b)
        /\ \A w \in Vats : b.clist[w] = IF w = v THEN a.clist[v] \ {ws[m]} ELSE a.clist[w]
        /\ Unheard(b) \subseteq Unheard(a) \cup {<<v, ws[m]>>}
        /\ Unfit(b) \subseteq Unfit(a) \cup {<<v, ws[m]>>}
    BY <2>1, <2>3, DeleteEntryGood
  <2> HIDE DEF b
  <2>4a. RetireStep(a, b, v, {ws[m]})
    <3>1. {v} \X {ws[m]} = {<<v, ws[m]>>}
      OBVIOUS
    <3> QED
      BY <2>4, <3>1 DEF RetireStep
  <2>5. {ws[i] : i \in 1..m} = {ws[i] : i \in 1..m - 1} \cup {ws[m]}
    <3>1. 1..m = (1..m - 1) \cup {m}
      BY <2>1
    <3> QED
      BY <3>1
  <2>6. RetireStep(kk, b, v, {ws[i] : i \in 1..m})
    BY <2>2, <2>4a, <2>5, RetireTwice
  <2>7. b \in Inv[m]
    <3>1. b \in KernelState
      BY <2>4 DEF EntryStep, Base
    <3> QED
      BY <1>2, <2>1, <2>6, <3>1
  <2> QED
    BY <2>7 DEF b
<1>5. ASSUME NEW m \in 1..n, NEW a \in Inv[m - 1]
      PROVE  next[<<m, a>>] = DeleteCListEntry(a, v, ws[m])
  <2>1. a \in KernelState /\ m \in Nat
    BY <1>1, <1>2, <1>5
  <2> QED
    BY <2>1
<1> HIDE DEF Inv, next
<1>6. RunExists(Inv, n, kk, next)
  BY <1>1, <1>3, <1>4, <1>5, LoopRuns
<1>7. PICK f : f = [m \in 0..n |-> f[m]] /\ Runs(f, n, kk, next) /\ \A m \in 0..n : f[m] \in Inv[m]
  BY <1>6 DEF RunExists
<1>8. f = Body(f)
  <2>1. ASSUME NEW m \in 1..n
        PROVE  f[m] = DeleteCListEntry(f[m - 1], v, ws[m])
    <3>1. m - 1 \in 0..n
      BY <1>1
    <3> QED
      BY <1>5, <1>7, <3>1 DEF Runs
  <2>2. f[0] = kk
    BY <1>7 DEF Runs
  <2>3. \A m \in 0..n : f[m] = Body(f)[m]
    BY <1>1, <2>1, <2>2
  <2> QED
    BY <1>7, <2>3
<1>9. h = Body(h)
  BY <1>8
<1>10. AbandonAll(kk, v, ws) = h[n]
  BY DEF AbandonAll, ForEach
<1>11. h[0] = kk /\ \A m \in 1..n : h[m] = DeleteCListEntry(h[m - 1], v, ws[m])
  <2> HIDE DEF h
  <2> QED
    BY <1>1, <1>9
<1> HIDE DEF h
<1>12. \A m \in 0..n : h[m] \in Inv[m]
  BY <1>1, <1>3, <1>4, <1>11, LoopEnds
<1>13. Holds(h[n], n)
  BY <1>1, <1>2, <1>12
<1> QED
  BY <1>10, <1>13

\* A vat may mention a promise for the first time.
IsNew(kk, s) == {p \in Promises : s = Promise(p) /\ p = kk.nextKpid}

Grows(kk, tt) ==
  \A q \in Promises : HasKernelPromise(kk, q) =>
    /\ tt.promises[q].state = kk.promises[q].state
    /\ tt.promises[q].decider = kk.promises[q].decider
    /\ tt.promises[q].subscribers = kk.promises[q].subscribers
    /\ tt.promises[q].data = kk.promises[q].data

MentionStep(kk, tt, v, s) ==
  /\ Base(tt) /\ Grows(kk, tt)
  /\ tt.nextKpid = kk.nextKpid + One(s = Promise(kk.nextKpid))
  /\ tt.sends = kk.sends /\ tt.live = kk.live /\ Upgrading(tt) = Upgrading(kk)
  /\ tt.terminated = kk.terminated /\ tt.awaiting = kk.awaiting
  /\ \A w \in Vats : tt.clist[w] = IF w = v THEN kk.clist[v] \cup IsNew(kk, s) ELSE kk.clist[w]
  /\ Sends(tt) = Sends(kk)
  /\ \A q \in Promises : Excess(tt, q) = Excess(kk, q)
  /\ NoWorse(kk, tt)
  /\ \A p \in IsNew(kk, s) :
       /\ Unresolved(tt, p) /\ tt.promises[p].decider = v /\ ~HasKernelPromise(kk, p)

LEMMA MapVatSlotGood ==
  ASSUME NEW kk, Base(kk), NEW v \in kk.live, NEW s \in Slot
  PROVE  MentionStep(kk, MapVatSlotToKernelSlot(kk, v, s), v, s)
<1>0. v \in Vats /\ kk \in KernelState /\ kk.nextKpid \in Nat
  BY DEF Base, KernelState
<1>1. CASE s = Promise(kk.nextKpid)
  <2> DEFINE p == kk.nextKpid
             m == AddKernelPromise(kk, v)
             tt == AddCListEntry(m, v, p)
  <2>1. p \in Promises
    <3>1. s.type = "promise" /\ s.id = p
      BY <1>1 DEF Promise
    <3> QED
      BY <3>1, SlotIs
  <2>2. AddResult(kk, m, p, v)
    BY <1>0, <2>1, AddPromiseGood
  <2>3. MapVatSlotToKernelSlot(kk, v, s) = tt
    BY <1>1 DEF MapVatSlotToKernelSlot
  <2> HIDE DEF m
  <2>4. /\ Base(m) /\ HasKernelPromise(m, p) /\ p \notin m.clist[v] /\ m.clist = kk.clist
        /\ m.live = kk.live /\ m.terminated = kk.terminated /\ m.awaiting = kk.awaiting
        /\ m.sends = kk.sends
    BY <1>0, <2>2 DEF AddResult, RowStep, HasKernelPromise
  <2>5. /\ EntryStep(m, tt)
        /\ \A w \in Vats : tt.clist[w] = IF w = v THEN m.clist[v] \cup {p} ELSE m.clist[w]
        /\ Unheard(tt) \subseteq Unheard(m)
        /\ Unfit(tt) \subseteq Unfit(m) \ {d \in {<<v, p>>} : v \in m.live}
    BY <1>0, <2>1, <2>4, AddEntryGood
  <2> HIDE DEF tt
  <2>6. IsNew(kk, s) = {p}
    BY <1>1, <2>1 DEF IsNew
  <2>7. Grows(kk, tt)
    <3> SUFFICES ASSUME NEW q \in Promises, HasKernelPromise(kk, q)
                 PROVE  /\ tt.promises[q].state = kk.promises[q].state
                        /\ tt.promises[q].decider = kk.promises[q].decider
                        /\ tt.promises[q].subscribers = kk.promises[q].subscribers
                        /\ tt.promises[q].data = kk.promises[q].data
      BY DEF Grows
    <3>1. q # p /\ m.promises[q] = kk.promises[q]
      BY <2>2 DEF AddResult, RowStep
    <3> QED
      BY <2>5, <3>1 DEF EntryStep, Listing, SameRowsButCounts
  <2>8. Unresolved(tt, p) /\ tt.promises[p].decider = v /\ ~HasKernelPromise(kk, p)
    BY <2>1, <2>2, <2>5 DEF AddResult, EntryStep, Listing, SameRowsButCounts, Unresolved
  <2>9. /\ tt.nextKpid = kk.nextKpid + 1 /\ tt.sends = kk.sends /\ tt.live = kk.live
        /\ Upgrading(tt) = Upgrading(kk)
        /\ tt.terminated = kk.terminated /\ tt.awaiting = kk.awaiting
    BY <2>2, <2>4, <2>5 DEF AddResult, EntryStep, Listing, SameRest, SameBudget
  <2>10. Sends(tt) = Sends(kk)
    <3>1. Queues(tt) = Queues(m)
      BY <2>5 DEF Queues, EntryStep, Listing, SameRest, SameRowsButCounts, ConstantsAre, QueueIds, Promises
    <3> QED
      BY <2>2, <3>1 DEF Sends, AddResult
  <2>11. NoWorse(kk, tt)
    <3>1. v # NoVat
      BY <1>0, ConstantsAre
    <3>2. Orphans(tt) \subseteq Orphans(kk)
      BY <2>2, <2>5, <3>1 DEF AddResult, EntryStep
    <3>3. Early(tt) \subseteq Early(kk) /\ Unheard(tt) \subseteq Unheard(kk)
      BY <2>2, <2>5 DEF AddResult, EntryStep
    <3>4. Unfit(tt) \subseteq Unfit(kk)
      BY <2>2, <2>4, <2>5 DEF AddResult
    <3> QED
      BY <3>2, <3>3, <3>4 DEF NoWorse
  <2>12. \A q \in Promises : Excess(tt, q) = Excess(kk, q)
    BY <2>2, <2>5 DEF AddResult, EntryStep
  <2>13. Base(tt) /\ One(s = Promise(kk.nextKpid)) = 1
    BY <1>1, <2>5 DEF EntryStep, One
  <2>14. \A w \in Vats : tt.clist[w] = IF w = v THEN kk.clist[v] \cup {p} ELSE kk.clist[w]
    BY <2>4, <2>5
  <2> HIDE DEF p
  <2>15. \A q \in IsNew(kk, s) : q = p
    BY <2>6
  <2> QED
    BY <2>3, <2>6, <2>7, <2>8, <2>9, <2>10, <2>11, <2>12, <2>13, <2>14, <2>15 DEF MentionStep
<1>2. CASE s # Promise(kk.nextKpid)
  <2>1. IsNew(kk, s) = {} /\ MapVatSlotToKernelSlot(kk, v, s) = kk
    BY <1>2 DEF IsNew, MapVatSlotToKernelSlot
  <2>2. kk.nextKpid = kk.nextKpid + One(s = Promise(kk.nextKpid))
    BY <1>0, <1>2 DEF One
  <2>3. MentionStep(kk, kk, v, s)
    BY <2>1, <2>2 DEF MentionStep, Grows, NoWorse
  <2> QED
    BY <2>1, <2>3
<1> QED
  BY <1>1, <1>2

-----------------------------------------------------------------------------
(* Routing.                                                                *)

LEMMA DataIs ==
  ASSUME NEW kk, Base(kk), NEW p \in Promises
  PROVE  LET d == kk.promises[p].data
         IN d \in Slot /\ (d.type = "promise" => HasKernelPromise(kk, d.id) /\ d.id \in Promises)
<1> DEFINE d == kk.promises[p].data
<1>1. d \in Slot
  BY DEF Base, KernelState, KernelPromise
<1>2. ASSUME d.type = "promise"
      PROVE  HasKernelPromise(kk, d.id) /\ d.id \in Promises
  <2>1. d.id \in Promises /\ d = Promise(d.id)
    BY <1>1, <1>2, SlotIs
  <2>2. ~(Refs(kk, d.id) = 0)
    BY <2>1, ReferredFrom
  <2>3. Refs(kk, d.id) \in Nat
    BY <2>1, RefsType DEF Base, Numbered
  <2>4. Refs(kk, d.id) >= 1
    BY <2>2, <2>3
  <2> QED
    BY <2>1, <2>4, ReferredTo
<1> QED
  BY <1>1, <1>2

\* A send is in the kernel's hands: on no queue, and its references counted.
Holding(kk, e) ==
  /\ Base(kk) /\ e \in Send /\ Ready(kk, e) /\ e.number <= kk.sends
  /\ \A q \in Promises : Excess(kk, q) = Owed(e, q)
  /\ Orphans(kk) \subseteq {e.result}
  /\ Unfit(kk) = {} /\ Early(kk) = {} /\ Unheard(kk) = {}

LEMMA HoldingIs ==
  ASSUME NEW kk, Good(kk), NEW tt, NEW e, e.type = "send", TakeResult(kk, tt, e), tt.sends = kk.sends
  PROVE  Holding(tt, e) /\ SameBudget(kk, tt) /\ SameButQueues(kk, tt)
<1>1. Base(tt) /\ e \in Send /\ Ready(tt, e) /\ e.number <= tt.sends /\ SameButQueues(kk, tt)
  BY EventTypes DEF TakeResult
<1>2. \A q \in Promises : Excess(tt, q) = Owed(e, q)
  <2> TAKE q \in Promises
  <2>1. Excess(tt, q) = Excess(kk, q) + Owed(e, q) /\ Excess(kk, q) = 0 /\ Owed(e, q) \in Nat
    BY <1>1, SendParts DEF TakeResult, Good
  <2> QED
    BY <2>1
<1>3. Orphans(tt) \subseteq {e.result} /\ Unfit(tt) = {} /\ Early(tt) = {} /\ Unheard(tt) = {}
  BY DEF TakeResult, Good
<1>4. Upgrading(tt) = Upgrading(kk)
  <2>1. Upgrading(tt) \in Nat
    <3>1. Family(Queues(tt))
      BY <1>1, FamilyIs DEF Base, Numbered
    <3> QED
      BY <3>1, QueueRefsType DEF Upgrading
  <2> QED
    BY <2>1 DEF TakeResult, One
<1> QED
  BY <1>1, <1>2, <1>3, <1>4 DEF Holding, SameBudget, SameButQueues

\* What it refers to is in the table.
LEMMA HoldingRefers ==
  ASSUME NEW kk, NEW e, Holding(kk, e)
  PROVE  /\ e.target.type = "promise" => HasKernelPromise(kk, e.target.id) /\ e.target.id \in Promises
                                         /\ e.target = Promise(e.target.id)
         /\ e.arg.type = "promise" => HasKernelPromise(kk, e.arg.id)
         /\ e.result # NoPromise => Undecided(kk, e.result) /\ \A f \in Sends(kk) : f.result # e.result
<1>1. e.type = "send" /\ e.target \in Slot /\ e.arg \in Slot /\ Base(kk)
  BY SendParts DEF Holding
<1>2. ASSUME NEW s \in Slot, s.type = "promise", s = e.target \/ s = e.arg
      PROVE  HasKernelPromise(kk, s.id)
  <2>1. s.id \in Promises /\ s = Promise(s.id)
    BY <1>2, SlotIs
  <2>2. Owed(e, s.id) = One(e.target = Promise(s.id)) + One(e.arg = Promise(s.id)) + One(e.result = s.id)
        /\ One(e.target = Promise(s.id)) \in Nat /\ One(e.arg = Promise(s.id)) \in Nat
        /\ One(e.result = s.id) \in Nat
    BY <2>1, SendParts DEF Holding
  <2>3. One(e.target = Promise(s.id)) = 1 \/ One(e.arg = Promise(s.id)) = 1
    BY <1>2, <2>1 DEF One
  <2>4. Excess(kk, s.id) >= 1
    BY <2>1, <2>2, <2>3 DEF Holding
  <2> QED
    BY <1>1, <2>1, <2>4, ReferredTo
<1>3. e.target.type = "promise" => e.target.id \in Promises /\ e.target = Promise(e.target.id)
  BY <1>1, SlotIs
<1> QED
  BY <1>1, <1>2, <1>3 DEF Holding, Ready

\* It goes on a queue.
LEMMA PlacedGood ==
  ASSUME NEW kk, NEW e, Holding(kk, e), NEW tt, SameButQueues(kk, tt), tt.sends = kk.sends,
         Put(Queues(kk), Queues(tt), e), QueuesFit(tt)
  PROVE  Good(tt) /\ SameBudget(kk, tt)
<1>1. Base(kk) /\ e.type = "send" /\ Ready(kk, e) /\ e.number <= tt.sends /\ kk.sends <= tt.sends
  BY SendParts DEF Holding, Base, KernelState
<1>2. \A q \in Promises : Excess(kk, q) >= Owed(e, q) /\ Owed(e, q) \in Nat /\ Excess(kk, q) = Owed(e, q)
  BY SendParts DEF Holding
<1>3. /\ Base(tt)
      /\ \A p \in Promises : Excess(kk, p) = Excess(tt, p) + Owed(e, p)
      /\ Orphans(tt) \subseteq {p \in Orphans(kk) : ~(e.type = "send" /\ e.result = p)}
      /\ Unfit(tt) = Unfit(kk) /\ Unheard(tt) \subseteq Unheard(kk)
      /\ Early(tt) \subseteq Early(kk) \cup {f \in {e} : e.type = "notify" /\ ~Settled(kk, e.kpid)}
      /\ Upgrading(tt) = Upgrading(kk) + One(e.type = "upgrade-vat")
  BY <1>1, <1>2, PutGood
<1>4. \A q \in Promises : Excess(tt, q) = 0
  <2> TAKE q \in Promises
  <2>1. Excess(tt, q) \in Int
    BY <1>3, ExcessType
  <2> QED
    BY <1>2, <1>3, <2>1
<1>5. Orphans(tt) = {} /\ Unfit(tt) = {} /\ Early(tt) = {} /\ Unheard(tt) = {}
  BY <1>1, <1>3 DEF Holding
<1>6. Upgrading(tt) = Upgrading(kk)
  <2>1. Upgrading(kk) \in Nat
    <3>1. Family(Queues(kk))
      BY <1>1, FamilyIs DEF Base, Numbered
    <3> QED
      BY <3>1, QueueRefsType DEF Upgrading
  <2> QED
    BY <1>1, <1>3, <2>1 DEF One
<1> QED
  BY <1>3, <1>4, <1>5, <1>6 DEF Good, SameBudget, SameButQueues

ForwardSend(kk, e) == [kk EXCEPT !.runQueue = Append(@, e)]

LEMMA ForwardGood ==
  ASSUME NEW kk, NEW e, Holding(kk, e)
  PROVE  Good(ForwardSend(kk, e)) /\ SameBudget(kk, ForwardSend(kk, e))
<1> DEFINE tt == ForwardSend(kk, e)
<1>1. Base(kk) /\ kk \in KernelState /\ e \in Event /\ e.type = "send" /\ Fresh(Queues(kk), e)
  BY SendParts DEF Holding, Base, Ready, Fresh
<1>2. tt = [kk EXCEPT !.runQueue = Append(kk.runQueue, e)]
  BY DEF ForwardSend
<1>3. kk.runQueue \in Seq(Event) /\ Append(kk.runQueue, e) \in Seq(Event)
  BY <1>1 DEF KernelState
<1> HIDE DEF tt
<1>4. /\ tt \in KernelState /\ tt.runQueue = Append(kk.runQueue, e) /\ tt.promises = kk.promises
      /\ tt.acceptanceQueue = kk.acceptanceQueue /\ SameButQueues(kk, tt) /\ tt.sends = kk.sends
  <2> DEFINE r == Append(kk.runQueue, e)
  <2>1. tt = [kk EXCEPT !.runQueue = r] /\ r \in Seq(Event)
    BY <1>2, <1>3
  <2> HIDE DEF r
  <2>2. tt \in KernelState /\ tt.runQueue = r /\ tt.promises = kk.promises
        /\ tt.acceptanceQueue = kk.acceptanceQueue /\ SameButQueues(kk, tt) /\ tt.sends = kk.sends
    BY <1>1, <2>1 DEF SameButQueues, KernelState
  <2> QED
    BY <2>2 DEF r
<1>5. QueuesFit(tt)
  BY <1>1, <1>4, OutsideFits
<1>6. Changed(Queues(kk), Queues(tt), -1, Append(Queues(kk)[-1], e))
  <2>1. Queues(kk)[-1] = kk.runQueue /\ Queues(tt)[-1] = tt.runQueue
        /\ DOMAIN Queues(kk) = QueueIds /\ DOMAIN Queues(tt) = QueueIds
    BY <1>1, <1>4, QueuesAre
  <2>2. \A j \in QueueIds : j # -1 => Queues(tt)[j] = Queues(kk)[j]
    BY <1>4 DEF Queues
  <2> QED
    BY <1>4, <2>1, <2>2 DEF Changed
<1>7. Family(Queues(kk)) /\ -1 \in QueueIds /\ ~(-1 \in Promises)
  BY <1>1, FamilyIs, ConstantsAre DEF Base, Numbered
<1>8. Put(Queues(kk), Queues(tt), e)
  BY <1>1, <1>6, <1>7, PutIs
<1>9. Good(tt) /\ SameBudget(kk, tt)
  BY <1>4, <1>5, <1>8, PlacedGood
<1> QED
  BY <1>9 DEF tt

LEMMA QueueSendGood ==
  ASSUME NEW kk, NEW e, Holding(kk, e), NEW p \in Promises, e.target = Promise(p), Unresolved(kk, p)
  PROVE  Good(AddMessageToPromiseQueue(kk, p, e)) /\ SameBudget(kk, AddMessageToPromiseQueue(kk, p, e))
<1> DEFINE tt == AddMessageToPromiseQueue(kk, p, e)
           q == Append(kk.promises[p].queue, e)
<1>1. Base(kk) /\ kk \in KernelState /\ e \in Event /\ e \in Send /\ e.type = "send" /\ Fresh(Queues(kk), e)
  BY SendParts DEF Holding, Base, Ready, Fresh
<1>2. kk.promises[p].queue \in Seq(Send) /\ kk.promises[p] \in KernelPromise
      /\ kk.promises \in [Promises -> KernelPromise]
  BY <1>1 DEF KernelState, KernelPromise
<1>3. tt = [kk EXCEPT !.promises[p].queue = q] /\ q \in Seq(Send)
  BY <1>1, <1>2 DEF AddMessageToPromiseQueue
<1>3a. \A a \in DOMAIN q : (a \in DOMAIN kk.promises[p].queue /\ q[a] = kk.promises[p].queue[a]) \/ q[a] = e
  BY <1>1, <1>2
<1> HIDE DEF tt, q
<1>4. /\ tt \in KernelState /\ tt.runQueue = kk.runQueue /\ tt.acceptanceQueue = kk.acceptanceQueue
      /\ SameButQueues(kk, tt) /\ tt.sends = kk.sends
      /\ \A r \in Promises : tt.promises[r].queue = IF r = p THEN q ELSE kk.promises[r].queue
  <2> DEFINE row == [kk.promises[p] EXCEPT !.queue = q]
             ps == [kk.promises EXCEPT ![p] = row]
  <2>1. row \in KernelPromise /\ row.queue = q /\ row.state = kk.promises[p].state
        /\ row.decider = kk.promises[p].decider /\ row.subscribers = kk.promises[p].subscribers
        /\ row.data = kk.promises[p].data /\ row.refCount = kk.promises[p].refCount
    BY <1>2, <1>3 DEF KernelPromise
  <2>2. tt = [kk EXCEPT !.promises = ps]
    BY <1>1, <1>2, <1>3 DEF KernelState
  <2> HIDE DEF row
  <2>3. ps \in [Promises -> KernelPromise] /\ \A r \in Promises : ps[r] = IF r = p THEN row ELSE kk.promises[r]
    BY <1>2, <2>1
  <2> HIDE DEF ps
  <2>4. /\ tt \in KernelState /\ tt.runQueue = kk.runQueue /\ tt.acceptanceQueue = kk.acceptanceQueue
        /\ tt.clist = kk.clist /\ tt.nextKpid = kk.nextKpid /\ tt.live = kk.live
        /\ tt.terminated = kk.terminated /\ tt.external = kk.external
        /\ tt.awaiting = kk.awaiting /\ tt.failed = kk.failed
        /\ tt.sends = kk.sends /\ tt.promises = ps
    BY <1>1, <2>2, <2>3 DEF KernelState
  <2> QED
    BY <2>1, <2>3, <2>4 DEF SameButQueues
<1>5. QueuesFit(tt)
  <2> SUFFICES ASSUME NEW r \in Promises
               PROVE  /\ tt.promises[r].queue # <<>> => Unresolved(tt, r)
                      /\ \A a \in DOMAIN tt.promises[r].queue : tt.promises[r].queue[a].target = Promise(r)
    BY DEF QueuesFit
  <2>1. TableOK(kk) /\ tt.promises[r].state = kk.promises[r].state
    BY <1>1, <1>4 DEF Base, SameButQueues
  <2>2. CASE r = p
    <3>1. \A a \in DOMAIN kk.promises[p].queue : kk.promises[p].queue[a].target = Promise(p)
      BY <2>1 DEF TableOK
    <3> QED
      BY <1>3a, <1>4, <2>1, <2>2, <3>1 DEF Unresolved
  <2>3. CASE r # p
    BY <1>4, <2>1, <2>3 DEF TableOK, Unresolved
  <2> QED
    BY <2>2, <2>3
<1>6. Changed(Queues(kk), Queues(tt), p, Append(Queues(kk)[p], e)) /\ p \in QueueIds
  <2>1. /\ Queues(kk)[p] = kk.promises[p].queue /\ Queues(tt)[p] = tt.promises[p].queue
        /\ DOMAIN Queues(kk) = QueueIds /\ DOMAIN Queues(tt) = QueueIds
    BY <1>1, <1>4, QueuesAre
  <2>2. \A j \in QueueIds : j # p => Queues(tt)[j] = Queues(kk)[j]
    <3>1. \A j \in QueueIds : j = -1 \/ j = 0 \/ j \in Promises
      BY ConstantsAre DEF QueueIds, Promises
    <3> QED
      BY <1>4, <3>1 DEF Queues
  <2> QED
    BY <1>4, <2>1, <2>2, ConstantsAre DEF Changed, q
<1>7. Family(Queues(kk))
  BY <1>1, FamilyIs DEF Base, Numbered
<1>8. Put(Queues(kk), Queues(tt), e)
  BY <1>1, <1>6, <1>7, PutIs
<1>9. Good(tt) /\ SameBudget(kk, tt)
  BY <1>4, <1>5, <1>8, PlacedGood
<1> QED
  BY <1>9 DEF tt

-----------------------------------------------------------------------------
LEMMA ListingQueues ==
  ASSUME NEW kk, NEW tt, Listing(kk, tt)
  PROVE  Queues(tt) = Queues(kk) /\ Sends(tt) = Sends(kk) /\ Notices(tt) = Notices(kk)
<1>1. \A i \in QueueIds : i # -1 /\ i # 0 => i \in Promises
  BY ConstantsAre DEF QueueIds, Promises
<1>2. Queues(tt) = Queues(kk)
  BY <1>1 DEF Queues, Listing, SameRest, SameRowsButCounts
<1> QED
  BY <1>2 DEF Sends, Notices

\* A send that nobody can receive: its result is rejected.
LEMMA SplatGood ==
  ASSUME NEW kk, NEW e, Holding(kk, e), NEW data \in Slot,
         data.type = "promise" => HasKernelPromise(kk, data.id)
  PROVE  Good(SplatSend(kk, e, data)) /\ SameBudget(kk, SplatSend(kk, e, data))
<1>0. e \in Send /\ Base(kk) /\ e.result \in Promises \cup {NoPromise} /\ \A q \in Promises : Owed(e, q) \in Nat
  BY SendParts DEF Holding
<1> DEFINE r == IF e.result = NoPromise THEN kk ELSE DoResolve(kk, NoVat, e.result, "rejected", data)
           tt == DecrementSendEventRefCount(r, e)
<1>1. /\ Base(r) /\ SameBudget(kk, r) /\ \A q \in Promises : Excess(r, q) = Owed(e, q)
      /\ Orphans(r) = {} /\ Unfit(r) = {} /\ Early(r) = {} /\ Unheard(r) = {}
  <2>1. CASE e.result = NoPromise
    <3>1. Orphans(kk) = {}
      BY <2>1, ConstantsAre DEF Holding, Orphans
    <3> QED
      BY <2>1, <3>1 DEF Holding, SameBudget
  <2>2. CASE e.result # NoPromise
    <3> DEFINE t == DoResolve(kk, NoVat, e.result, "rejected", data)
    <3>1. Undecided(kk, e.result) /\ \A f \in Sends(kk) : f.result # e.result
      BY <2>2, HoldingRefers
    <3>2. Unresolved(kk, e.result) /\ kk.promises[e.result].decider = NoVat /\ e.result \in Promises
      BY <1>0, <2>2, <3>1 DEF Undecided
    <3>3. ResolveResult(kk, t, e.result, data)
      BY <1>0, <3>1, <3>2, DoResolveGood
    <3> HIDE DEF t
    <3>4. /\ Base(t) /\ SameBudget(kk, t) /\ \A q \in Promises : Excess(t, q) = Owed(e, q)
          /\ Orphans(t) = {} /\ Unfit(t) = {} /\ Early(t) = {} /\ Unheard(t) = {}
      BY <3>3 DEF ResolveResult, Holding
    <3> QED
      BY <2>2, <3>4 DEF t
  <2> QED
    BY <2>1, <2>2
<1> HIDE DEF r
<1>2. \A q \in Promises : Excess(r, q) >= Owed(e, q)
  BY <1>0, <1>1
<1>3. Counts(r, tt) /\ \A q \in Promises : Excess(r, q) = Excess(tt, q) + Owed(e, q)
  BY <1>0, <1>1, <1>2, DecrementSendGood
<1> HIDE DEF tt
<1>4. \A q \in Promises : Excess(tt, q) = 0
  <2> TAKE q \in Promises
  <2>1. Excess(tt, q) \in Int
    BY <1>3, ExcessType DEF Counts
  <2> QED
    BY <1>0, <1>1, <1>3, <2>1
<1>5. Good(tt) /\ SameBudget(kk, tt)
  BY <1>1, <1>3, <1>4 DEF Counts, Good, NoWorse, SameBudget
<1> QED
  BY <1>5 DEF SplatSend, tt, r

\* A send to a promise fulfilled with an object is for the object.
LEMMA RetargetGood ==
  ASSUME NEW kk, NEW e, Holding(kk, e), NEW t \in Slot \ {NoSlot}, t.type = "object"
  PROVE  LET tt == IncrementSlot(DecrementSlot(kk, e.target), t)
         IN Holding(tt, [e EXCEPT !.target = t]) /\ SameBudget(kk, tt)
<1> DEFINE f == [e EXCEPT !.target = t]
           tt == DecrementSlot(kk, e.target)
<1>0. e \in Send /\ Base(kk) /\ e.target \in Slot /\ kk \in KernelState
  BY SendParts DEF Holding, Base
<1>1. f \in Send /\ f.type = e.type /\ f.target = t /\ f.arg = e.arg /\ f.result = e.result
      /\ f.number = e.number
  BY <1>0 DEF Send
<1> HIDE DEF f
<1>2. IncrementSlot(DecrementSlot(kk, e.target), t) = tt
  BY DEF IncrementSlot
<1>3. \A q \in Promises : /\ Owed(e, q) = One(e.target = Promise(q)) + One(e.arg = Promise(q)) + One(e.result = q)
                          /\ Owed(f, q) = One(e.arg = Promise(q)) + One(e.result = q)
                          /\ One(e.target = Promise(q)) \in Nat /\ One(e.arg = Promise(q)) \in Nat
                          /\ One(e.result = q) \in Nat
  <2> TAKE q \in Promises
  <2>1. /\ Owed(e, q) = One(e.target = Promise(q)) + One(e.arg = Promise(q)) + One(e.result = q)
        /\ One(e.target = Promise(q)) \in Nat /\ One(e.arg = Promise(q)) \in Nat
        /\ One(e.result = q) \in Nat
    BY <1>0, SendParts
  <2>2. Owed(f, q) = One(f.target = Promise(q)) + One(f.arg = Promise(q)) + One(f.result = q)
    BY <1>1, SendParts
  <2>3. One(f.target = Promise(q)) = 0
    BY <1>1, SlotIs DEF One
  <2> QED
    BY <1>1, <2>1, <2>2, <2>3
<1>4. \A q \in Promises : Excess(kk, q) >= One(e.target = Promise(q))
  BY <1>3 DEF Holding
<1>5. Counts(kk, tt) /\ \A q \in Promises : Excess(kk, q) = Excess(tt, q) + One(e.target = Promise(q))
  BY <1>0, <1>4, DecrementSlotGood
<1> HIDE DEF tt
<1>6. \A q \in Promises : Excess(tt, q) = Owed(f, q)
  <2> TAKE q \in Promises
  <2>1. Excess(tt, q) \in Int /\ Excess(kk, q) = Owed(e, q)
    BY <1>5, ExcessType DEF Counts, Holding
  <2>2. Excess(kk, q) = Excess(tt, q) + One(e.target = Promise(q))
    BY <1>5
  <2>3. /\ Owed(e, q) = One(e.target = Promise(q)) + One(e.arg = Promise(q)) + One(e.result = q)
        /\ Owed(f, q) = One(e.arg = Promise(q)) + One(e.result = q)
        /\ One(e.target = Promise(q)) \in Nat /\ One(e.arg = Promise(q)) \in Nat
        /\ One(e.result = q) \in Nat
    BY <1>3
  <2> DEFINE a == One(e.target = Promise(q))
             b == One(e.arg = Promise(q))
             c == One(e.result = q)
             x == Excess(kk, q)
             y == Excess(tt, q)
  <2>4. x = y + a /\ y \in Int /\ x = Owed(e, q) /\ Owed(e, q) = a + b + c /\ Owed(f, q) = b + c
        /\ a \in Nat /\ b \in Nat /\ c \in Nat
    BY <2>1, <2>2, <2>3
  <2> HIDE DEF a, b, c, x, y
  <2>5. y = Owed(f, q)
    BY <2>4
  <2> QED
    BY <2>5 DEF y
<1>7. Queues(tt) = Queues(kk) /\ Sends(tt) = Sends(kk)
  BY <1>0, <1>5, RecountsRefs DEF Counts
<1>8. Ready(tt, f) /\ f.number <= tt.sends
  <2>1. e.result # NoPromise => Undecided(tt, e.result)
    BY <1>0, <1>5, SendParts DEF Holding, Ready, Counts, Recounts, SameRowsButCounts, Undecided, Unresolved
  <2>2. Fresh(Queues(tt), f)
    BY <1>0, <1>1, <1>7, SendParts DEF Holding, Ready, Fresh
  <2>3. tt.sends = kk.sends
    BY <1>5 DEF Counts, SameBudget
  <2> QED
    BY <1>0, <1>1, <1>7, <2>1, <2>2, <2>3, SendParts DEF Holding, Ready
<1>9. Holding(tt, f) /\ SameBudget(kk, tt)
  BY <1>1, <1>5, <1>6, <1>8 DEF Holding, Counts, NoWorse
<1> QED
  BY <1>2, <1>9 DEF f

\* Where a send goes.
LEMMA RouteIs ==
  ASSUME NEW kk, Base(kk), NEW t \in Slot \ {NoSlot},
         t.type = "promise" => t.id \in Promises /\ HasKernelPromise(kk, t.id)
  PROVE  LET r == RouteSendEvent(kk, t)
         IN \/ /\ r.to = "splat"
               /\ r.data \in Slot /\ (r.data.type = "promise" => HasKernelPromise(kk, r.data.id))
            \/ r.to = "queue" /\ t.type = "promise" /\ Unresolved(kk, t.id)
            \/ /\ r.to = "vat" /\ r.vat \in kk.live /\ r.target \in Slot \ {NoSlot}
               /\ r.target.type = "object" \/ r.target = t
               /\ r.target.type = "promise" =>
                    /\ r.target.id \in Promises
                    /\ Unresolved(kk, r.target.id) /\ kk.promises[r.target.id].decider = r.vat
<1> DEFINE Fine(r) ==
      \/ /\ r.to = "splat"
         /\ r.data \in Slot /\ (r.data.type = "promise" => HasKernelPromise(kk, r.data.id))
      \/ r.to = "queue" /\ t.type = "promise" /\ Unresolved(kk, t.id)
      \/ /\ r.to = "vat" /\ r.vat \in kk.live /\ r.target \in Slot \ {NoSlot}
         /\ r.target.type = "object" \/ r.target = t
         /\ r.target.type = "promise" =>
              /\ r.target.id \in Promises
              /\ Unresolved(kk, r.target.id) /\ kk.promises[r.target.id].decider = r.vat
<1>0. kk.live \subseteq Vats
  BY DEF Base, KernelState
<1>1. Fine(Splat(NoSlot))
  BY DEF Splat, NoSlot, Slot
<1>2. \A v : Fine(RouteToObject(kk, v))
  <2> TAKE v
  <2>1. CASE v \in kk.live
    <3>1. Root(v) \in Slot \ {NoSlot} /\ Root(v).type = "object"
      BY <1>0, <2>1 DEF Root, Slot, NoSlot
    <3>2. RouteToObject(kk, v) = Deliver(v, Root(v))
      BY <2>1 DEF RouteToObject
    <3> QED
      BY <2>1, <3>1, <3>2 DEF Deliver
  <2>2. CASE v \notin kk.live
    BY <1>1, <2>2 DEF RouteToObject
  <2> QED
    BY <2>1, <2>2
<1>3. CASE t.type = "object"
  <2>1. RouteSendEvent(kk, t) = RouteToObject(kk, t.id)
    BY <1>3 DEF RouteSendEvent
  <2>2. Fine(RouteSendEvent(kk, t))
    BY <1>2, <2>1
  <2> QED
    BY <2>2
<1>4. CASE t.type # "object"
  <2>1. t.type = "promise"
    BY <1>4 DEF Slot, NoSlot, Root, Promise
  <2> DEFINE p == t.id
             kp == kk.promises[p]
  <2>2. p \in Promises /\ HasKernelPromise(kk, p) /\ kp.state \in PromiseStates
    <3>1. p \in Promises /\ HasKernelPromise(kk, p)
      BY <2>1
    <3> QED
      BY <3>1 DEF Base, KernelState, KernelPromise
  <2>3. CASE kp.state = "fulfilled"
    <3>1. RouteSendEvent(kk, t) = RouteToObject(kk, kp.data.id) \/ RouteSendEvent(kk, t) = Splat(NoSlot)
      BY <1>4, <2>3 DEF RouteSendEvent
    <3>2. Fine(RouteSendEvent(kk, t))
      BY <1>1, <1>2, <3>1
    <3> QED
      BY <3>2
  <2>4. CASE kp.state = "rejected"
    <3>1. RouteSendEvent(kk, t) = Splat(kp.data)
      BY <1>4, <2>4 DEF RouteSendEvent
    <3>2. kp.data \in Slot /\ (kp.data.type = "promise" => HasKernelPromise(kk, kp.data.id))
      BY <2>2, DataIs
    <3>3. Fine(RouteSendEvent(kk, t))
      BY <3>1, <3>2 DEF Splat
    <3> QED
      BY <3>3
  <2>5. CASE kp.state = "unresolved"
    <3>1. Unresolved(kk, p)
      BY <2>5 DEF Unresolved
    <3>2. \/ RouteSendEvent(kk, t) = Requeue
          \/ RouteSendEvent(kk, t) = Splat(NoSlot)
          \/ RouteSendEvent(kk, t) = Deliver(kp.decider, t) /\ kp.decider \in kk.live
      BY <1>4, <2>5 DEF RouteSendEvent
    <3>3. Fine(Requeue)
      BY <2>1, <3>1 DEF Requeue
    <3>4. ASSUME kp.decider \in kk.live
          PROVE  Fine(Deliver(kp.decider, t))
      BY <2>1, <2>2, <3>1, <3>4 DEF Deliver
    <3>5. Fine(RouteSendEvent(kk, t))
      BY <1>1, <3>2, <3>3, <3>4
    <3> QED
      BY <3>5
  <2> QED
    BY <2>2, <2>3, <2>4, <2>5 DEF HasKernelPromise, PromiseStates
<1> QED
  BY <1>3, <1>4

-----------------------------------------------------------------------------
LEMMA RecountsStayGood ==
  ASSUME NEW kk, Good(kk), NEW tt, Counts(kk, tt), \A q \in Promises : Excess(tt, q) = Excess(kk, q)
  PROVE  Good(tt)
BY DEF Good, Counts, NoWorse

LEMMA ShufflesStayGood ==
  ASSUME NEW kk, Good(kk), NEW tt, Shuffles(kk, tt)
  PROVE  Good(tt)
BY DEF Good, Shuffles, NoWorse

\* The receiver decides the result of what it is about to get.
Delivered(kk, e) ==
  /\ Base(kk) /\ e \in Send
  /\ \A q \in Promises : Excess(kk, q) = 0
  /\ Orphans(kk) \subseteq {e.result}
  /\ Unfit(kk) = {} /\ Early(kk) = {} /\ Unheard(kk) = {}
  /\ e.arg.type = "promise" => HasKernelPromise(kk, e.arg.id)
  /\ e.result # NoPromise => Undecided(kk, e.result) /\ \A f \in Sends(kk) : f.result # e.result

LEMMA TranslateMessageGood ==
  ASSUME NEW kk, NEW e, Delivered(kk, e), NEW v \in kk.live, NEW target \in Slot \ {NoSlot},
         target.type = "promise" =>
           target.id \in Promises /\ Unresolved(kk, target.id) /\ kk.promises[target.id].decider = v
  PROVE  Good(TranslateMessage(kk, v, target, e)) /\ SameBudget(kk, TranslateMessage(kk, v, target, e))
<1> DEFINE m1 == MapKernelSlotToVatSlot(kk, v, target)
           m2 == MapKernelSlotToVatSlot(m1, v, e.arg)
           tt == TranslateMessage(kk, v, target, e)
           p == e.result
           m3 == MapKernelSlotToVatSlot(m2, v, Promise(p))
           m4 == SetDecider(m3, p, v)
<1>0. v \in Vats /\ Base(kk) /\ e \in Send /\ e.arg \in Slot /\ p \in Promises \cup {NoPromise}
  BY SendParts DEF Delivered, Base, KernelState
<1>1. MapStep(kk, m1, v, SlotPromises(target))
  <2>1. target.type = "promise" => HasKernelPromise(kk, target.id)
    BY DEF HasKernelPromise, Unresolved
  <2> QED
    BY <1>0, <2>1, MapKernelSlotGood
<1> HIDE DEF m1
<1>2. Base(m1) /\ (e.arg.type = "promise" => HasKernelPromise(m1, e.arg.id))
  <2>1. e.arg.type = "promise" => e.arg.id \in Promises
    BY <1>0, SlotIs
  <2> QED
    BY <1>1, <2>1 DEF Delivered, MapStep, EntryStep, Listing, SameRowsButCounts, HasKernelPromise
<1>3. MapStep(m1, m2, v, SlotPromises(e.arg))
  BY <1>0, <1>2, MapKernelSlotGood
<1> HIDE DEF m2
<1>4. PICK ps : MapStep(kk, m2, v, ps)
  BY <1>0, <1>1, <1>3, MapTwice
<1>5. tt = IF p = NoPromise THEN m2
           ELSE IF v \in PipeliningVats THEN RequeueKernelPromise(m4, p) ELSE m4
  BY DEF TranslateMessage, m1, m2
<1>6. CASE p = NoPromise
  <2>1. Orphans(m2) = {} /\ Unfit(m2) = {} /\ Early(m2) = {} /\ Unheard(m2) = {}
    <3>1. Orphans(kk) = {}
      BY <1>6, ConstantsAre DEF Delivered, Orphans
    <3> QED
      BY <1>4, <3>1 DEF Delivered, MapStep, EntryStep
  <2>2. Good(m2) /\ SameBudget(kk, m2)
    BY <1>4, <2>1 DEF Good, Delivered, MapStep, EntryStep
  <2> QED
    BY <1>5, <1>6, <2>2
<1>7. CASE p # NoPromise
  <2>0. p \in Promises
    BY <1>0, <1>7
  <2>1. Base(m2) /\ HasKernelPromise(m2, p)
    BY <1>4, <1>7, <2>0 DEF Delivered, MapStep, EntryStep, Listing, SameRowsButCounts,
          HasKernelPromise, Undecided, Unresolved
  <2>2. MapStep(m2, m3, v, {p})
    <3>1. /\ Promise(p) \in Slot /\ Promise(p).type = "promise" /\ Promise(p).id = p
          /\ SlotPromises(Promise(p)) = {p}
      BY <2>0, PromiseSlotIs
    <3>2. MapStep(m2, m3, v, SlotPromises(Promise(p)))
      BY <1>0, <2>1, <3>1, MapKernelSlotGood
    <3> QED
      BY <3>1, <3>2
  <2> HIDE DEF m3
  <2>3. MapStep(kk, m3, v, ps \cup {p})
    BY <1>0, <1>4, <2>2, MapTwice
  <2> HIDE DEF p
  <2>4. Base(m3) /\ Undecided(m3, p) /\ Sends(m3) = Sends(kk) /\ SameBudget(kk, m3)
        /\ p \in m3.clist[v] /\ v \in m3.live /\ \A q \in Promises : Excess(m3, q) = 0
    <3>1. Listing(kk, m3)
      BY <2>3 DEF MapStep, EntryStep
    <3>2. Undecided(m3, p)
      BY <1>7, <2>0, <3>1 DEF Delivered, Listing, SameRowsButCounts, Undecided, Unresolved, p
    <3>3. Sends(m3) = Sends(kk) /\ v \in m3.live
      BY <3>1, ListingQueues DEF Listing, SameRest
    <3> QED
      BY <1>0, <2>3, <3>2, <3>3 DEF MapStep, EntryStep, Delivered
  <2>5. \A f \in Sends(m3) : f.result # p
    BY <1>7, <2>4 DEF Delivered, p
  <2>6. /\ RedecideResult(m3, m4, p) /\ RowStep(m3, m4, p)
        /\ Orphans(m4) \subseteq Orphans(m3) \ {p}
        /\ Unfit(m4) \subseteq Unfit(m3)
        /\ Unheard(m4) \subseteq Unheard(m3)
    BY <1>0, <2>0, <2>4, <2>5, SetDeciderGood
  <2> HIDE DEF m4
  <2>7. Orphans(m3) \subseteq {p} /\ Unfit(m3) = {} /\ Early(m3) = {} /\ Unheard(m3) = {}
    BY <2>3 DEF Delivered, MapStep, EntryStep, p
  <2>8. Good(m4) /\ SameBudget(kk, m4)
    BY <2>4, <2>6, <2>7 DEF Good, RedecideResult, SameBudget
  <2>9. Good(RequeueKernelPromise(m4, p)) /\ SameBudget(kk, RequeueKernelPromise(m4, p))
    <3>1. Shuffles(m4, RequeueKernelPromise(m4, p))
      BY <2>0, <2>8, RequeueGood DEF Good
    <3>2. Good(RequeueKernelPromise(m4, p))
      BY <2>8, <3>1, ShufflesStayGood
    <3> QED
      BY <2>8, <3>1, <3>2 DEF Shuffles, SameBudget
  <2> HIDE DEF tt
  <2>10. tt = RequeueKernelPromise(m4, p) \/ tt = m4
    BY <1>5, <1>7 DEF p
  <2>11. Good(tt) /\ SameBudget(kk, tt)
    BY <2>8, <2>9, <2>10
  <2> QED
    BY <2>11 DEF tt
<1> QED
  BY <1>6, <1>7

-----------------------------------------------------------------------------
(* Sends of the kernel, and the end of a vat.                              *)
KrefResult(kk, tt) ==
  /\ Base(tt) /\ Grows(kk, tt)
  /\ tt.clist = kk.clist /\ tt.live = kk.live /\ tt.terminated = kk.terminated
  /\ tt.external = kk.external /\ tt.awaiting = kk.awaiting
  /\ tt.nextKpid = kk.nextKpid + 1 /\ tt.sends = kk.sends + 1 /\ Upgrading(tt) = Upgrading(kk)
  /\ \A q \in Promises : Excess(tt, q) = Excess(kk, q)
  /\ NoWorse(kk, tt) /\ HasKernelPromise(tt, kk.nextKpid)

LEMMA QueueToKrefGood ==
  ASSUME NEW kk, Base(kk), kk.nextKpid \in Promises, kk.sends + 1 <= MaxSends, NEW v \in Vats
  PROVE  KrefResult(kk, QueueToKref(kk, Root(v)))
<1> DEFINE p == kk.nextKpid
           m == AddKernelPromise(kk, NoVat)
           tt == DoSend(m, NoVat, Root(v), NoSlot, p)
<1>1. AddResult(kk, m, p, NoVat)
  BY AddPromiseGood
<1> HIDE DEF m
<1>2. /\ Base(m) /\ Undecided(m, p) /\ m.clist = kk.clist /\ m.live = kk.live
      /\ m.terminated = kk.terminated /\ m.external = kk.external /\ m.awaiting = kk.awaiting
      /\ m.sends = kk.sends /\ m.nextKpid = p + 1 /\ Sends(m) = Sends(kk)
      /\ \A e \in Sends(m) : e.result # p
  BY <1>1 DEF AddResult, RowStep, Undecided, Unresolved
<1>3. Root(v) \in Slot \ {NoSlot} /\ Root(v).type = "object" /\ NoSlot \in Slot /\ NoSlot.type = "none"
  BY RootSlotIs, NoSlotIs DEF Root, NoSlot
<1>4. m.sends + 1 <= MaxSends /\ p \in Promises \cup {NoPromise}
      /\ (p # NoPromise => Undecided(m, p) /\ \A e \in Sends(m) : e.result # p)
  BY <1>2
<1>5. SendResult(m, tt, p)
  BY <1>2, <1>3, <1>4, DoSendGood
<1> HIDE DEF tt
<1>6. Grows(kk, tt)
  <2> SUFFICES ASSUME NEW q \in Promises, HasKernelPromise(kk, q)
               PROVE  /\ tt.promises[q].state = kk.promises[q].state
                      /\ tt.promises[q].decider = kk.promises[q].decider
                      /\ tt.promises[q].subscribers = kk.promises[q].subscribers
                      /\ tt.promises[q].data = kk.promises[q].data
    BY DEF Grows
  <2>1. q # p /\ m.promises[q] = kk.promises[q]
    BY <1>1 DEF AddResult, RowStep
  <2> QED
    BY <1>5, <2>1 DEF SendResult, SameRowsButCounts
<1>7. NoWorse(kk, tt)
  <2>1. Orphans(tt) \subseteq Orphans(kk)
    BY <1>1, <1>5 DEF AddResult, SendResult
  <2>2. Unfit(tt) \subseteq Unfit(kk) /\ Early(tt) \subseteq Early(kk) /\ Unheard(tt) \subseteq Unheard(kk)
    BY <1>1, <1>5 DEF AddResult, SendResult
  <2> QED
    BY <2>1, <2>2 DEF NoWorse
<1>8. HasKernelPromise(tt, p)
  BY <1>1, <1>5 DEF AddResult, SendResult, SameRowsButCounts, HasKernelPromise
<1>9. /\ tt.clist = kk.clist /\ tt.live = kk.live /\ tt.terminated = kk.terminated
      /\ tt.external = kk.external /\ tt.awaiting = kk.awaiting
      /\ tt.nextKpid = p + 1 /\ tt.sends = kk.sends + 1 /\ Upgrading(tt) = Upgrading(kk)
      /\ \A q \in Promises : Excess(tt, q) = Excess(kk, q)
  BY <1>1, <1>2, <1>5 DEF AddResult, SendResult
<1> QED
  BY <1>5, <1>6, <1>7, <1>8, <1>9 DEF KrefResult, QueueToKref, tt, m, SendResult

LEMMA RejectGood ==
  ASSUME NEW kk, Base(kk), NEW p \in Promises, Unresolved(kk, p), NEW v \in Vats,
         kk.promises[p].decider = v
  PROVE  ResolveResult(kk, ResolveToError(kk, v, p), p, NoSlot)
<1>1. \A e \in Sends(kk) : e.result # p
  BY ConstantsAre DEF Base, Resolvers, Undecided
<1>2. NoSlot \in Slot /\ NoSlot.type # "promise"
  BY NoSlotIs DEF NoSlot
<1> QED
  BY <1>1, <1>2, DoResolveGood DEF ResolveToError

LEMMA PromisesByDeciderIs ==
  ASSUME NEW kk, Base(kk), NEW v \in Vats
  PROVE  LET ws == PromisesByDecider(kk, v)
         IN /\ ws \in Seq(Promises) /\ Len(ws) \in Nat
            /\ \A i, j \in 1..Len(ws) : i # j => ws[i] # ws[j]
            /\ \A i \in 1..Len(ws) : ws[i] \in kk.clist[v] /\ Unresolved(kk, ws[i])
                                    /\ kk.promises[ws[i]].decider = v
            /\ \A p \in kk.clist[v] : Unresolved(kk, p) /\ kk.promises[p].decider = v
                 => \E i \in 1..Len(ws) : ws[i] = p
<1> DEFINE S == {p \in kk.clist[v] : Unresolved(kk, p) /\ kk.promises[p].decider = v}
           ws == PromisesByDecider(kk, v)
<1>1. S \in SUBSET Promises
  BY DEF Base, KernelState
<1>2. S \in SUBSET Nat /\ IsFiniteSet(S)
  BY <1>1, ConstantsAre, CountedIn
<1>3. ws = Ascending(S)
  BY DEF PromisesByDecider
<1>4. \A p : p \in S <=> p \in kk.clist[v] /\ Unresolved(kk, p) /\ kk.promises[p].decider = v
  OBVIOUS
<1> HIDE DEF S, ws
<1>5. /\ Cardinality(S) \in Nat /\ ws \in [1..Cardinality(S) -> S]
      /\ \A i, j \in 1..Cardinality(S) : i # j => ws[i] # ws[j]
      /\ \A p \in S : \E i \in 1..Cardinality(S) : ws[i] = p
      /\ ws \in Seq(S) /\ Len(ws) = Cardinality(S)
  BY <1>2, <1>3, AscendingIs
<1>6. ws \in Seq(Promises)
  BY <1>1, <1>5
<1>7. /\ ws \in Seq(Promises) /\ Len(ws) \in Nat
      /\ \A i, j \in 1..Len(ws) : i # j => ws[i] # ws[j]
      /\ \A i \in 1..Len(ws) : ws[i] \in kk.clist[v] /\ Unresolved(kk, ws[i])
                              /\ kk.promises[ws[i]].decider = v
      /\ \A p \in kk.clist[v] : Unresolved(kk, p) /\ kk.promises[p].decider = v
           => \E i \in 1..Len(ws) : ws[i] = p
  BY <1>4, <1>5, <1>6
<1> QED
  BY <1>7 DEF ws

\* The first m of ws are rejected.
Rejected(kk, tt, v, ws, m) ==
  /\ Base(tt) /\ SameBudget(kk, tt) /\ tt.clist = kk.clist /\ tt.awaiting = kk.awaiting
  /\ \A q \in Promises : Excess(tt, q) = Excess(kk, q)
  /\ Orphans(tt) \subseteq Orphans(kk) /\ Early(tt) \subseteq Early(kk)
  /\ Unheard(tt) \subseteq Unheard(kk)
  /\ \A d \in Unfit(tt) : d \in Unfit(kk) /\ \A i \in 1..m : d[2] # ws[i]
  /\ \A q \in Promises : (\A i \in 1..m : q # ws[i]) =>
       tt.promises[q].state = kk.promises[q].state /\ tt.promises[q].decider = kk.promises[q].decider

RejectAll(kk, v, ws) == ForEach(LAMBDA acc, p : ResolveToError(acc, v, p), kk, ws)

LEMMA RejectAllGood ==
  ASSUME NEW kk, Base(kk), NEW v \in Vats, NEW ws \in Seq(Promises),
         \A i, j \in 1..Len(ws) : i # j => ws[i] # ws[j],
         \A i \in 1..Len(ws) : Unresolved(kk, ws[i]) /\ kk.promises[ws[i]].decider = v
  PROVE  Rejected(kk, RejectAll(kk, v, ws), v, ws, Len(ws))
<1> DEFINE n == Len(ws)
           Body(f) == [m \in 0..n |-> IF m = 0 THEN kk ELSE ResolveToError(f[m - 1], v, ws[m])]
           h == CHOOSE f : f = Body(f)
           Holds(s, m) == Rejected(kk, s, v, ws, m)
           Inv == [m \in 0..n |-> {s \in KernelState : Holds(s, m)}]
           next == [d \in (Nat \X KernelState) |-> ResolveToError(d[2], v, ws[d[1]])]
<1>1. n \in Nat
  OBVIOUS
<1>2. \A m \in 0..n : \A s : s \in Inv[m] <=> s \in KernelState /\ Holds(s, m)
  OBVIOUS
<1>3. kk \in Inv[0]
  <2>1. kk \in KernelState /\ Rejected(kk, kk, v, ws, 0)
    BY DEF Rejected, Base, SameBudget
  <2> QED
    BY <1>1, <1>2, <2>1
<1>4. ASSUME NEW m \in 1..n, NEW a \in Inv[m - 1]
      PROVE  ResolveToError(a, v, ws[m]) \in Inv[m]
  <2>1. m \in 0..n /\ m - 1 \in 0..n /\ m \in Nat /\ ws[m] \in Promises
    BY <1>1
  <2>2. a \in KernelState /\ Rejected(kk, a, v, ws, m - 1)
    BY <1>2, <1>4, <2>1
  <2> DEFINE b == ResolveToError(a, v, ws[m])
  <2>3. Base(a) /\ Unresolved(a, ws[m]) /\ a.promises[ws[m]].decider = v
    <3>1. \A i \in 1..m - 1 : ws[m] # ws[i]
      BY <1>1, <2>1
    <3> QED
      BY <2>1, <2>2, <3>1 DEF Rejected, Unresolved
  <2>4. ResolveResult(a, b, ws[m], NoSlot)
    BY <2>1, <2>3, RejectGood
  <2> HIDE DEF b
  <2>5. \A q : (\A i \in 1..m : q # ws[i]) <=> (\A i \in 1..m - 1 : q # ws[i]) /\ q # ws[m]
    <3>1. 1..m = (1..m - 1) \cup {m}
      BY <2>1
    <3> QED
      BY <3>1
  <2>6. Rejected(kk, b, v, ws, m)
    <3>1. \A d \in Unfit(b) : d \in Unfit(kk) /\ \A i \in 1..m : d[2] # ws[i]
      BY <2>2, <2>4, <2>5 DEF Rejected, ResolveResult
    <3>2. \A q \in Promises : (\A i \in 1..m : q # ws[i]) =>
             b.promises[q].state = kk.promises[q].state /\ b.promises[q].decider = kk.promises[q].decider
      BY <2>2, <2>4, <2>5 DEF Rejected, ResolveResult, PromiseStep
    <3>3. /\ Base(b) /\ SameBudget(kk, b) /\ b.clist = kk.clist /\ b.awaiting = kk.awaiting
          /\ \A q \in Promises : Excess(b, q) = Excess(kk, q)
          /\ Orphans(b) \subseteq Orphans(kk) /\ Early(b) \subseteq Early(kk)
          /\ Unheard(b) \subseteq Unheard(kk)
      BY <2>2, <2>4 DEF Rejected, ResolveResult, PromiseStep, SameBudget
    <3> QED
      BY <3>1, <3>2, <3>3 DEF Rejected
  <2>7. b \in Inv[m]
    <3>1. b \in KernelState
      BY <2>4 DEF ResolveResult, Base
    <3> QED
      BY <1>2, <2>1, <2>6, <3>1
  <2> QED
    BY <2>7 DEF b
<1>5. ASSUME NEW m \in 1..n, NEW a \in Inv[m - 1]
      PROVE  next[<<m, a>>] = ResolveToError(a, v, ws[m])
  <2>1. a \in KernelState /\ m \in Nat
    BY <1>1, <1>2, <1>5
  <2> QED
    BY <2>1
<1> HIDE DEF Inv, next
<1>6. RunExists(Inv, n, kk, next)
  BY <1>1, <1>3, <1>4, <1>5, LoopRuns
<1>7. PICK f : f = [m \in 0..n |-> f[m]] /\ Runs(f, n, kk, next) /\ \A m \in 0..n : f[m] \in Inv[m]
  BY <1>6 DEF RunExists
<1>8. f = Body(f)
  <2>1. ASSUME NEW m \in 1..n
        PROVE  f[m] = ResolveToError(f[m - 1], v, ws[m])
    <3>1. m - 1 \in 0..n
      BY <1>1
    <3> QED
      BY <1>5, <1>7, <3>1 DEF Runs
  <2>2. f[0] = kk
    BY <1>7 DEF Runs
  <2>3. \A m \in 0..n : f[m] = Body(f)[m]
    BY <1>1, <2>1, <2>2
  <2> QED
    BY <1>7, <2>3
<1>9. h = Body(h)
  BY <1>8
<1>10. RejectAll(kk, v, ws) = h[n]
  BY DEF RejectAll, ForEach
<1>11. h[0] = kk /\ \A m \in 1..n : h[m] = ResolveToError(h[m - 1], v, ws[m])
  <2> HIDE DEF h
  <2> QED
    BY <1>1, <1>9
<1> HIDE DEF h
<1>12. \A m \in 0..n : h[m] \in Inv[m]
  BY <1>1, <1>3, <1>4, <1>11, LoopEnds
<1>13. Holds(h[n], n)
  BY <1>1, <1>2, <1>12
<1> QED
  BY <1>10, <1>13

\* A vat is gone, and vatAdmin is about to hear of it.
TerminateResult(kk, tt, v) ==
  /\ Good(tt) /\ tt.live = kk.live \ {v} /\ Upgrading(tt) = Upgrading(kk)
  /\ tt.nextKpid = kk.nextKpid + 1 /\ tt.sends = kk.sends + 1

LEMMA TerminateGood ==
  ASSUME NEW kk, Good(kk), NEW v \in kk.live, kk.nextKpid \in Promises, kk.sends + 1 <= MaxSends
  PROVE  TerminateResult(kk, TerminateVat(kk, v), v)
<1> DEFINE dead == [kk EXCEPT !.live = @ \ {v}, !.terminated = Append(@, v)]
           ws == PromisesByDecider(kk, v)
           rejected == RejectAll(dead, v, ws)
           sent == QueueToKref(rejected, Root(AdminVat))
           tt == TerminateVat(kk, v)
<1>0. Base(kk) /\ kk \in KernelState /\ v \in Vats /\ AdminVat \in Vats
  BY ConstantsAre DEF Good, Base, KernelState
<1>1. tt = [sent EXCEPT !.awaiting[v] = {}]
  BY DEF TerminateVat, RejectAll
<1>2. Ends(kk, dead, v)
  <2>1. kk.terminated \in Seq(Vats) /\ kk.live \in SUBSET Vats
    BY <1>0 DEF KernelState
  <2> DEFINE l == kk.live \ {v}
             t == Append(kk.terminated, v)
  <2>2. l \in SUBSET Vats /\ t \in Seq(Vats)
    BY <1>0, <2>1
  <2>3. dead = [kk EXCEPT !.live = l, !.terminated = t]
    OBVIOUS
  <2> HIDE DEF l, t, dead
  <2>4. SameTable(kk, dead) /\ dead.external = kk.external /\ dead.awaiting = kk.awaiting
        /\ dead.live = l /\ dead.terminated = t
    BY <1>0, <2>2, <2>3 DEF SameTable, KernelState
  <2> QED
    BY <2>4 DEF Ends, l, t
<1>3. /\ ws \in Seq(Promises) /\ Len(ws) \in Nat
      /\ \A i, j \in 1..Len(ws) : i # j => ws[i] # ws[j]
      /\ \A i \in 1..Len(ws) : ws[i] \in kk.clist[v] /\ Unresolved(kk, ws[i])
                              /\ kk.promises[ws[i]].decider = v
      /\ \A p \in kk.clist[v] : Unresolved(kk, p) /\ kk.promises[p].decider = v
           => \E i \in 1..Len(ws) : ws[i] = p
  BY <1>0, PromisesByDeciderIs
<1> HIDE DEF dead, ws, rejected, sent, tt
<1>4. /\ Base(dead) /\ \A p \in Promises : Excess(dead, p) = 0
      /\ Orphans(dead) = {} /\ Early(dead) = {} /\ Unheard(dead) = {} /\ Upgrading(dead) = Upgrading(kk)
      /\ \A d \in Unfit(dead) : d[1] = v /\ d[2] \in kk.clist[v] /\ Decided(kk, v, d[2])
  BY <1>0, <1>2, EndsGood
<1>5. \A i \in 1..Len(ws) : Unresolved(dead, ws[i]) /\ dead.promises[ws[i]].decider = v
  BY <1>2, <1>3 DEF Ends, SameTable, Unresolved
<1>6. Rejected(dead, rejected, v, ws, Len(ws))
  BY <1>0, <1>3, <1>4, <1>5, RejectAllGood DEF rejected
<1>7. Unfit(rejected) = {}
  <2>1. ASSUME NEW d \in Unfit(rejected)
        PROVE  FALSE
    <3>1. d \in Unfit(dead) /\ \A i \in 1..Len(ws) : d[2] # ws[i]
      BY <1>6, <2>1 DEF Rejected
    <3>2. d[2] \in kk.clist[v] /\ Decided(kk, v, d[2]) /\ d[2] \in Promises
      BY <1>4, <3>1 DEF Unfit
    <3>3. Unresolved(kk, d[2]) /\ kk.promises[d[2]].decider = v
      BY <1>0, <3>2 DEF Base, TableOK, Decided, Unresolved
    <3> QED
      BY <1>3, <3>1, <3>2, <3>3
  <2> QED
    BY <2>1
<1>8. /\ Good(rejected) /\ rejected.nextKpid = kk.nextKpid /\ rejected.sends = kk.sends
      /\ rejected.live = kk.live \ {v} /\ Upgrading(rejected) = Upgrading(kk)
  <2>1. \A q \in Promises : Excess(rejected, q) = 0
    BY <1>4, <1>6 DEF Rejected
  <2>2. /\ Orphans(rejected) = {} /\ Early(rejected) = {} /\ Unheard(rejected) = {} /\ Base(rejected)
    BY <1>4, <1>6 DEF Rejected
  <2>3. SameBudget(dead, rejected)
    BY <1>6 DEF Rejected
  <2> QED
    BY <1>2, <1>4, <1>7, <2>1, <2>2, <2>3 DEF Good, Ends, SameTable, SameBudget
<1>9. KrefResult(rejected, sent)
  BY <1>0, <1>8, QueueToKrefGood DEF Good, sent
<1>10. Good(sent) /\ v \notin sent.live /\ sent \in KernelState
  BY <1>8, <1>9 DEF KrefResult, Good, NoWorse, Base
<1>11. Watches(sent, tt) /\ \A w \in Vats : tt.awaiting[w] = IF w = v THEN {} ELSE sent.awaiting[w]
  <2> DEFINE x == [sent.awaiting EXCEPT ![v] = {}]
  <2>1. sent.awaiting \in [Vats -> SUBSET Promises]
    BY <1>10 DEF KernelState
  <2>2. x \in [Vats -> SUBSET Promises] /\ \A w \in Vats : x[w] = IF w = v THEN {} ELSE sent.awaiting[w]
    BY <1>0, <2>1
  <2>3. tt = [sent EXCEPT !.awaiting = x]
    BY <1>1, <1>10 DEF KernelState
  <2> HIDE DEF x
  <2>4. Watches(sent, tt) /\ tt.awaiting = x
    BY <1>10, <2>2, <2>3 DEF Watches, SameTable, KernelState
  <2> QED
    BY <2>2, <2>4
<1>12. /\ Base(tt) /\ SameBudget(sent, tt)
       /\ \A p \in Promises : Excess(tt, p) = Excess(sent, p)
       /\ Orphans(tt) = Orphans(sent) /\ Early(tt) = Early(sent) /\ Unfit(tt) = Unfit(sent)
       /\ \A w \in Vats, p \in Promises : Told(tt, w, p) <=> Told(sent, w, p)
  BY <1>10, <1>11, WatchesGood DEF Good
<1>13. Unheard(tt) = {}
  <2>1. ASSUME NEW d \in Unheard(tt)
        PROVE  d \in Unheard(sent)
    BY <1>10, <1>11, <1>12, <2>1 DEF Unheard, SameBudget
  <2> QED
    BY <1>10, <2>1 DEF Good
<1>14. Good(tt)
  BY <1>10, <1>12, <1>13 DEF Good
<1>15. TerminateResult(kk, tt, v)
  BY <1>8, <1>9, <1>12, <1>14 DEF TerminateResult, KrefResult, SameBudget
<1> QED
  BY <1>15 DEF tt

-----------------------------------------------------------------------------
(* The upgrade of a vat.                                                   *)
DisconnectOne(kk, v, p) ==
  IF v \in kk.promises[p].subscribers THEN ResolveToError(kk, v, p)
  ELSE DeleteCListEntries(ResolveToError(kk, v, p), v, <<p>>)

LEMMA ResolvesStayGood ==
  ASSUME NEW kk, Good(kk), NEW tt, NEW p, NEW data, ResolveResult(kk, tt, p, data)
  PROVE  Good(tt)
<1>1. Unfit(tt) = {}
  BY DEF Good, ResolveResult
<1> QED
  BY <1>1 DEF Good, ResolveResult

\* The first m of ws are disconnected.
Disconnected(kk, tt, v, ws, m) ==
  /\ Good(tt) /\ SameBudget(kk, tt)
  /\ \A q \in Promises : (\A i \in 1..m : q # ws[i]) =>
       /\ tt.promises[q].state = kk.promises[q].state /\ tt.promises[q].decider = kk.promises[q].decider
       /\ q \in kk.clist[v] => q \in tt.clist[v]

LEMMA DisconnectGood ==
  ASSUME NEW kk, Good(kk), NEW v \in kk.live, NEW p \in Promises, Unresolved(kk, p),
         kk.promises[p].decider = v, p \in kk.clist[v]
  PROVE  Disconnected(kk, DisconnectOne(kk, v, p), v, <<p>>, 1)
<1> DEFINE r == ResolveToError(kk, v, p)
           tt == DeleteCListEntries(r, v, <<p>>)
<1>0. Base(kk) /\ v \in Vats
  BY DEF Good, Base, KernelState
<1>1. ResolveResult(kk, r, p, NoSlot)
  BY <1>0, RejectGood
<1> HIDE DEF r
<1>2. Good(r)
  BY <1>1, ResolvesStayGood
<1>3. \A q \in Promises : q # p => r.promises[q].state = kk.promises[q].state
                                  /\ r.promises[q].decider = kk.promises[q].decider
      /\ r.clist = kk.clist
  BY <1>1 DEF ResolveResult, PromiseStep
<1>4. \A q : (\A i \in 1..1 : q # <<p>>[i]) <=> q # p
  OBVIOUS
<1>5. Disconnected(kk, r, v, <<p>>, 1)
  BY <1>1, <1>2, <1>3, <1>4 DEF Disconnected, ResolveResult
<1>6. ASSUME v \notin kk.promises[p].subscribers
      PROVE  Disconnected(kk, tt, v, <<p>>, 1)
  <2>1. <<p>> \in Seq(Promises) /\ Len(<<p>>) = 1 /\ <<p>>[1] = p
    OBVIOUS
  <2>2. HasKernelPromise(r, p) /\ Base(r)
    BY <1>1 DEF ResolveResult, Settled, HasKernelPromise
  <2>3. {<<p>>[i] : i \in 1..Len(<<p>>)} = {p}
    OBVIOUS
  <2>4. \A i \in 1..Len(<<p>>) : HasKernelPromise(r, <<p>>[i])
    BY <2>1, <2>2
  <2>5. RetireStep(r, tt, v, {<<p>>[i] : i \in 1..Len(<<p>>)})
    BY <1>0, <2>1, <2>2, <2>4, RetireGood
  <2>6. RetireStep(r, tt, v, {p})
    BY <2>3, <2>5
  <2> HIDE DEF tt
  <2>7. EntryStep(r, tt) /\ Listing(r, tt)
    BY <2>6 DEF RetireStep, EntryStep
  <2>8. Unfit(tt) = {}
    <3>1. ~Decided(tt, v, p)
      <4>1. r.promises[p].decider = NoVat
        BY <1>1, <2>2 DEF ResolveResult, Settled, Base, TableOK
      <4> QED
        BY <2>7, <4>1 DEF Listing, SameRowsButCounts, Decided
    <3>2. <<v, p>> \notin Unfit(tt)
      BY <3>1 DEF Unfit
    <3>3. Unfit(tt) \subseteq {v} \X {p}
      BY <1>2, <2>6 DEF RetireStep, Good
    <3> QED
      BY <3>2, <3>3
  <2>9. Unheard(tt) = {}
    <3>1. tt.live = kk.live /\ tt.awaiting = kk.awaiting
      BY <1>1, <2>7 DEF Listing, SameRest, ResolveResult, PromiseStep
    <3>2. <<v, p>> \notin Unheard(tt)
      <4>1. ~Told(kk, v, p)
        BY <1>6 DEF Told
      <4>2. p \notin kk.awaiting[v]
        <5>1. <<v, p>> \in Vats \X Promises /\ <<v, p>>[1] = v /\ <<v, p>>[2] = p
          BY <1>0
        <5>2. <<v, p>> \notin Unheard(kk)
          BY DEF Good
        <5> QED
          BY <4>1, <5>1, <5>2 DEF Unheard
      <4> QED
        BY <3>1, <4>2 DEF Unheard
    <3>3. Unheard(tt) \subseteq {v} \X {p}
      BY <1>2, <2>6 DEF RetireStep, Good
    <3> QED
      BY <3>2, <3>3
  <2>10. Good(tt) /\ SameBudget(kk, tt)
    BY <1>1, <1>2, <2>7, <2>8, <2>9 DEF Good, EntryStep, SameBudget, ResolveResult
  <2>11. ASSUME NEW q \in Promises, q # p
         PROVE  /\ tt.promises[q].state = kk.promises[q].state
                /\ tt.promises[q].decider = kk.promises[q].decider
                /\ q \in kk.clist[v] => q \in tt.clist[v]
    BY <1>0, <1>3, <2>6, <2>7, <2>11 DEF RetireStep, Listing, SameRowsButCounts
  <2> QED
    BY <1>4, <2>10, <2>11 DEF Disconnected
<1> QED
  BY <1>5, <1>6 DEF DisconnectOne, r, tt

LEMMA DisconnectAllGood ==
  ASSUME NEW kk, Good(kk), NEW v \in kk.live, NEW ws, ws = PromisesByDecider(kk, v)
  PROVE  Disconnected(kk, UpgradeVat(kk, v), v, ws, Len(ws))
<1>0. /\ ws \in Seq(Promises) /\ Len(ws) \in Nat /\ v \in Vats
      /\ \A i, j \in 1..Len(ws) : i # j => ws[i] # ws[j]
      /\ \A i \in 1..Len(ws) : ws[i] \in kk.clist[v] /\ Unresolved(kk, ws[i])
                              /\ kk.promises[ws[i]].decider = v
  <2>1. Base(kk) /\ v \in Vats
    BY DEF Good, Base, KernelState
  <2> QED
    BY <2>1, PromisesByDeciderIs
<1> DEFINE n == Len(ws)
           Body(f) == [m \in 0..n |-> IF m = 0 THEN kk ELSE DisconnectOne(f[m - 1], v, ws[m])]
           h == CHOOSE f : f = Body(f)
           Holds(s, m) == Disconnected(kk, s, v, ws, m)
           Inv == [m \in 0..n |-> {s \in KernelState : Holds(s, m)}]
           next == [d \in (Nat \X KernelState) |-> DisconnectOne(d[2], v, ws[d[1]])]
<1>1. n \in Nat
  BY <1>0
<1>2. \A m \in 0..n : \A s : s \in Inv[m] <=> s \in KernelState /\ Holds(s, m)
  OBVIOUS
<1>3. kk \in Inv[0]
  <2>1. kk \in KernelState /\ Disconnected(kk, kk, v, ws, 0)
    BY DEF Disconnected, Good, Base, SameBudget
  <2> QED
    BY <1>1, <1>2, <2>1
<1>4. ASSUME NEW m \in 1..n, NEW a \in Inv[m - 1]
      PROVE  DisconnectOne(a, v, ws[m]) \in Inv[m]
  <2>1. m \in 0..n /\ m - 1 \in 0..n /\ m \in Nat /\ ws[m] \in Promises
    BY <1>0, <1>1
  <2>2. a \in KernelState /\ Disconnected(kk, a, v, ws, m - 1)
    BY <1>2, <1>4, <2>1
  <2> DEFINE b == DisconnectOne(a, v, ws[m])
             p == ws[m]
  <2>3. Good(a) /\ Unresolved(a, ws[m]) /\ a.promises[ws[m]].decider = v /\ ws[m] \in a.clist[v]
        /\ v \in a.live
    <3>1. \A i \in 1..m - 1 : ws[m] # ws[i]
      BY <1>0, <1>1, <2>1
    <3> QED
      BY <1>0, <1>1, <2>1, <2>2, <3>1 DEF Disconnected, Unresolved, SameBudget
  <2>4. Disconnected(a, b, v, <<p>>, 1)
    BY <2>1, <2>3, DisconnectGood
  <2> HIDE DEF b
  <2>5. \A q : (\A i \in 1..m : q # ws[i]) <=> (\A i \in 1..m - 1 : q # ws[i]) /\ q # ws[m]
    <3>1. 1..m = (1..m - 1) \cup {m}
      BY <2>1
    <3> QED
      BY <3>1
  <2>5a. \A q : (\A i \in 1..1 : q # <<p>>[i]) <=> q # p
    OBVIOUS
  <2>6. Disconnected(kk, b, v, ws, m)
    <3>1. SameBudget(kk, b) /\ Good(b)
      BY <2>2, <2>4 DEF Disconnected, SameBudget
    <3>2. ASSUME NEW q \in Promises, \A i \in 1..m : q # ws[i]
          PROVE  /\ b.promises[q].state = kk.promises[q].state
                 /\ b.promises[q].decider = kk.promises[q].decider
                 /\ q \in kk.clist[v] => q \in b.clist[v]
      <4>1. (\A i \in 1..m - 1 : q # ws[i]) /\ q # p
        BY <2>5, <3>2
      <4> HIDE DEF p
      <4>2. /\ a.promises[q].state = kk.promises[q].state
            /\ a.promises[q].decider = kk.promises[q].decider
            /\ q \in kk.clist[v] => q \in a.clist[v]
        BY <2>2, <4>1 DEF Disconnected
      <4>3. /\ b.promises[q].state = a.promises[q].state
            /\ b.promises[q].decider = a.promises[q].decider
            /\ q \in a.clist[v] => q \in b.clist[v]
        BY <2>4, <2>5a, <4>1 DEF Disconnected
      <4> QED
        BY <4>2, <4>3
    <3> QED
      BY <3>1, <3>2 DEF Disconnected
  <2>7. b \in Inv[m]
    <3>1. b \in KernelState
      BY <2>4 DEF Disconnected, Good, Base
    <3> QED
      BY <1>2, <2>1, <2>6, <3>1
  <2> QED
    BY <2>7 DEF b
<1>5. ASSUME NEW m \in 1..n, NEW a \in Inv[m - 1]
      PROVE  next[<<m, a>>] = DisconnectOne(a, v, ws[m])
  <2>1. a \in KernelState /\ m \in Nat
    BY <1>1, <1>2, <1>5
  <2> QED
    BY <2>1
<1> HIDE DEF Inv, next
<1>6. RunExists(Inv, n, kk, next)
  BY <1>1, <1>3, <1>4, <1>5, LoopRuns
<1>7. PICK f : f = [m \in 0..n |-> f[m]] /\ Runs(f, n, kk, next) /\ \A m \in 0..n : f[m] \in Inv[m]
  BY <1>6 DEF RunExists
<1>8. f = Body(f)
  <2>1. ASSUME NEW m \in 1..n
        PROVE  f[m] = DisconnectOne(f[m - 1], v, ws[m])
    <3>1. m - 1 \in 0..n
      BY <1>1
    <3> QED
      BY <1>5, <1>7, <3>1 DEF Runs
  <2>2. f[0] = kk
    BY <1>7 DEF Runs
  <2>3. \A m \in 0..n : f[m] = Body(f)[m]
    BY <1>1, <2>1, <2>2
  <2> QED
    BY <1>7, <2>3
<1>9. h = Body(h)
  BY <1>8
<1>10. UpgradeVat(kk, v) = h[n]
  BY DEF UpgradeVat, ForEach, DisconnectOne
<1>11. h[0] = kk /\ \A m \in 1..n : h[m] = DisconnectOne(h[m - 1], v, ws[m])
  <2> HIDE DEF h
  <2> QED
    BY <1>1, <1>9
<1> HIDE DEF h
<1>12. \A m \in 0..n : h[m] \in Inv[m]
  <2>1. h[0] \in Inv[0] /\ \A m \in 1..n : h[m - 1] \in Inv[m - 1] => h[m] \in Inv[m]
    BY <1>3, <1>4, <1>11
  <2> QED
    BY <1>1, <2>1, LoopEnds
<1>13. Holds(h[n], n)
  BY <1>1, <1>2, <1>12
<1> QED
  BY <1>10, <1>13

LEMMA UpgradeGood ==
  ASSUME NEW kk, Good(kk), NEW v \in kk.live
  PROVE  Good(UpgradeVat(kk, v)) /\ SameBudget(kk, UpgradeVat(kk, v))
BY DisconnectAllGood DEF Disconnected

-----------------------------------------------------------------------------
(* The promises a notification covers.                                     *)
Longer(kk, c) ==
  LET data == kk.promises[Last(c)].data
  IN IF data.type = "promise" /\ ~Unresolved(kk, data.id) /\ ~Contains(c, data.id)
     THEN Append(c, data.id) ELSE c
Chain(kk, p, c) ==
  c \in Seq(Promises) /\ Len(c) >= 1 /\ c[1] = p /\ \A i \in 1..Len(c) : Settled(kk, c[i])

LEMMA LongerGood ==
  ASSUME NEW kk, Base(kk), NEW p, NEW c, Chain(kk, p, c)
  PROVE  Chain(kk, p, Longer(kk, c))
<1> DEFINE q == Last(c)
           data == kk.promises[q].data
<1>1. q \in Promises
  BY DEF Chain, Last
<1>2. data.type = "promise" => HasKernelPromise(kk, data.id) /\ data.id \in Promises
  BY <1>1, DataIs
<1>3. ASSUME data.type = "promise", ~Unresolved(kk, data.id)
      PROVE  Chain(kk, p, Append(c, data.id))
  <2>1. data.id \in Promises /\ Settled(kk, data.id)
    <3>1. kk.promises[data.id].state \in PromiseStates
      BY <1>2, <1>3 DEF Base, KernelState, KernelPromise
    <3> QED
      BY <1>2, <1>3, <3>1 DEF Settled, Unresolved, HasKernelPromise, PromiseStates
  <2> DEFINE d == data.id
  <2> HIDE DEF d
  <2>2. Chain(kk, p, Append(c, d))
    <3>1. d \in Promises /\ Settled(kk, d)
      BY <2>1 DEF d
    <3>2. c \in Seq(Promises) /\ Len(c) >= 1 /\ c[1] = p /\ \A i \in 1..Len(c) : Settled(kk, c[i])
      BY DEF Chain
    <3>3. Append(c, d) \in Seq(Promises) /\ Len(Append(c, d)) = Len(c) + 1 /\ Append(c, d)[1] = p
          /\ Append(c, d)[Len(c) + 1] = d /\ \A i \in 1..Len(c) : Append(c, d)[i] = c[i]
      BY <3>1, <3>2
    <3>4. \A i \in 1..Len(c) + 1 : i \in 1..Len(c) \/ i = Len(c) + 1
      BY <3>2
    <3>5. \A i \in 1..Len(c) + 1 : Settled(kk, Append(c, d)[i])
      BY <3>1, <3>2, <3>3, <3>4
    <3> QED
      BY <3>2, <3>3, <3>5 DEF Chain
  <2> QED
    BY <2>2 DEF d
<1> QED
  BY <1>3 DEF Longer

LEMMA KpidsToRetireIs ==
  ASSUME NEW kk, Base(kk), NEW p \in Promises, Settled(kk, p)
  PROVE  Chain(kk, p, KpidsToRetire(kk, p))
<1> DEFINE n == NPromises - 1
           Body(f) == [m \in 1..NPromises |-> IF m = 1 THEN <<p>> ELSE Longer(kk, f[m - 1])]
           h == CHOOSE f : f = Body(f)
           Inv == [m \in 0..n |-> {c \in Seq(Promises) : Chain(kk, p, c)}]
           next == [d \in (Nat \X Seq(Promises)) |-> Longer(kk, d[2])]
<1>1. n \in Nat /\ NPromises = n + 1 /\ NPromises \in Nat
  BY ConstantsAre DEF Promises
<1>2. \A m \in 0..n : \A c : c \in Inv[m] <=> c \in Seq(Promises) /\ Chain(kk, p, c)
  OBVIOUS
<1>3. <<p>> \in Inv[0]
  <2>1. <<p>> \in Seq(Promises) /\ Len(<<p>>) = 1 /\ <<p>>[1] = p
    OBVIOUS
  <2>2. Chain(kk, p, <<p>>)
    BY <2>1 DEF Chain
  <2> QED
    BY <1>1, <1>2, <2>1, <2>2
<1>4. ASSUME NEW m \in 1..n, NEW c \in Inv[m - 1]
      PROVE  Longer(kk, c) \in Inv[m] /\ next[<<m, c>>] = Longer(kk, c)
  <2>1. m \in 0..n /\ m - 1 \in 0..n /\ m \in Nat
    BY <1>1
  <2>2. c \in Seq(Promises) /\ Chain(kk, p, c)
    BY <1>2, <1>4, <2>1
  <2>3. Chain(kk, p, Longer(kk, c))
    BY <2>2, LongerGood
  <2>4. Longer(kk, c) \in Seq(Promises)
    BY <2>3 DEF Chain
  <2> QED
    BY <1>2, <2>1, <2>2, <2>3, <2>4
<1> HIDE DEF Inv, next
<1>5. RunExists(Inv, n, <<p>>, next)
  BY <1>1, <1>3, <1>4, LoopRuns
<1>6. PICK f : f = [m \in 0..n |-> f[m]] /\ Runs(f, n, <<p>>, next) /\ \A m \in 0..n : f[m] \in Inv[m]
  BY <1>5 DEF RunExists
<1> DEFINE g == [m \in 1..NPromises |-> f[m - 1]]
<1>7. g = Body(g)
  <2>1. ASSUME NEW m \in 1..NPromises, m # 1
        PROVE  g[m] = Longer(kk, g[m - 1])
    <3>1. m - 1 \in 1..n /\ m - 1 \in 1..NPromises /\ (m - 1) - 1 \in 0..n
      BY <1>1, <2>1
    <3> DEFINE i == m - 1
    <3>2. f[i] = Longer(kk, f[i - 1])
      <4>1. i \in 1..n /\ i - 1 \in 0..n
        BY <3>1
      <4> HIDE DEF i
      <4> QED
        BY <1>4, <1>6, <4>1 DEF Runs
    <3>3. g[m] = f[i] /\ g[m - 1] = f[i - 1]
      BY <2>1, <3>1
    <3> QED
      BY <3>2, <3>3
  <2>2. g[1] = <<p>> /\ 1 \in 1..NPromises
    <3>1. 1 \in 1..NPromises /\ 1 - 1 = 0
      BY <1>1
    <3> QED
      BY <1>6, <3>1 DEF Runs
  <2>3. \A m \in 1..NPromises : g[m] = Body(g)[m]
    <3> TAKE m \in 1..NPromises
    <3> HIDE DEF g
    <3> QED
      BY <2>1, <2>2
  <2> QED
    BY <2>3
<1> HIDE DEF g
<1>8. h = Body(h)
  BY <1>7
<1>9. KpidsToRetire(kk, p) = h[NPromises]
  BY DEF KpidsToRetire, Longer
<1>10. h[1] = <<p>> /\ \A m \in 1..NPromises : m # 1 => h[m] = Longer(kk, h[m - 1])
  <2> HIDE DEF h
  <2> QED
    BY <1>1, <1>8
<1> HIDE DEF h
<1> DEFINE e == [m \in 0..n |-> h[m + 1]]
<1>11. e[0] \in Inv[0]
  <2>1. e[0] = h[1]
    BY <1>1
  <2> QED
    BY <1>3, <1>10, <2>1
<1>12. \A m \in 1..n : e[m - 1] \in Inv[m - 1] => e[m] \in Inv[m]
  <2> TAKE m \in 1..n
  <2>1. m \in 0..n /\ m - 1 \in 0..n /\ m + 1 \in 1..NPromises /\ m + 1 # 1 /\ (m - 1) + 1 = m
        /\ (m + 1) - 1 = m
    BY <1>1
  <2>2. h[m + 1] = Longer(kk, h[m])
    BY <1>10, <2>1
  <2>3. e[m] = h[m + 1] /\ e[m - 1] = h[m]
    BY <2>1
  <2> QED
    BY <1>4, <2>2, <2>3
<1> HIDE DEF e
<1>13. \A m \in 0..n : e[m] \in Inv[m]
  BY <1>1, <1>11, <1>12, LoopEnds
<1>14. e[n] = h[NPromises] /\ n \in 0..n
  BY <1>1 DEF e
<1>15. Chain(kk, p, h[NPromises])
  BY <1>2, <1>13, <1>14
<1> QED
  BY <1>9, <1>15

-----------------------------------------------------------------------------
(* The inductive invariant.                                                *)

\* What the kernel will have to tell vatAdmin.
Spare(kk) == (IF Terminations THEN Cardinality(kk.live \ {AdminVat}) ELSE 0) + Upgrading(kk)
\* There is room for that, and for n more.
Within(kk, n) ==
  /\ kk.nextKpid >= 1 /\ kk.nextKpid + Spare(kk) + n <= NPromises + 1
  /\ kk.sends + Spare(kk) + n <= MaxSends

InvOf(kk, ss, cc) ==
  /\ Good(kk) /\ Good(ss) /\ cc \in CrankType
  /\ Within(kk, One(cc.type = "upgrade")) /\ Within(ss, One(cc.type = "upgrade"))
  /\ cc.type = "idle" => ss = kk
  /\ cc.type # "idle" => cc.vat \in kk.live /\ cc.vat \in ss.live
PromisesInv == InvOf(k, saved, crank)

LEMMA SpareIs ==
  ASSUME NEW kk, Base(kk)
  PROVE  /\ Spare(kk) \in Nat /\ Upgrading(kk) \in Nat /\ kk.nextKpid \in Nat /\ kk.sends \in Nat
         /\ Cardinality(kk.live \ {AdminVat}) \in Nat /\ IsFiniteSet(kk.live)
<1>1. kk \in KernelState /\ Family(Queues(kk))
  BY FamilyIs DEF Base, Numbered
<1>2. Upgrading(kk) \in Nat
  BY <1>1, QueueRefsType DEF Upgrading
<1>3. kk.live \in SUBSET Vats
  BY <1>1 DEF KernelState
<1>4. Cardinality(kk.live \ {AdminVat}) \in Nat /\ IsFiniteSet(kk.live)
  <2>1. kk.live \ {AdminVat} \in SUBSET Vats
    BY <1>3
  <2> QED
    BY <1>3, <2>1, ConstantsAre, CountedIn
<1> QED
  BY <1>1, <1>2, <1>4 DEF Spare, KernelState

LEMMA WithinFollows ==
  ASSUME NEW kk, NEW tt, SameBudget(kk, tt)
  PROVE  Spare(tt) = Spare(kk) /\ \A n : Within(kk, n) => Within(tt, n)
BY DEF SameBudget, Spare, Within

LEMMA CrankIs ==
  ASSUME NEW cc \in CrankType
  PROVE  /\ cc.type \in {"idle", "message", "notify", "upgrade"} /\ cc.vat \in Vats \cup {NoVat}
         /\ cc.syscalls \in 0..MaxSyscalls
BY DEF CrankType

\* The four ways in which a step ends.
LEMMA FinishGood ==
  ASSUME crank \in CrankType, NEW kk, Good(kk), Within(kk, 0), FinishCrank(kk)
  PROVE  InvOf(k', saved', crank')
<1>1. k' = ProcessRefcounts(kk) /\ saved' = k'
  BY DEF FinishCrank
<1>2. crank' \in CrankType /\ crank'.type = "idle"
  BY DEF FinishCrank, CrankType
<1>3. Good(ProcessRefcounts(kk)) /\ SameBudget(kk, ProcessRefcounts(kk))
  BY SweepGood
<1>4. Within(ProcessRefcounts(kk), 0)
  BY <1>3, WithinFollows
<1>5. One(crank'.type = "upgrade") = 0
  BY <1>2 DEF One
<1> QED
  BY <1>1, <1>2, <1>3, <1>4, <1>5 DEF InvOf

LEMMA BeginGood ==
  ASSUME crank \in CrankType, NEW kk, Good(kk), NEW ss, Good(ss),
         NEW type \in {"message", "notify", "upgrade"}, NEW v, v \in kk.live, v \in ss.live,
         Within(kk, One(type = "upgrade")), Within(ss, One(type = "upgrade")),
         BeginDelivery(kk, type, v, ss)
  PROVE  InvOf(k', saved', crank')
<1>1. k' = kk /\ saved' = ss
  BY DEF BeginDelivery
<1>2. v \in Vats
  BY DEF Good, Base, KernelState
<1>3. crank' \in CrankType /\ crank'.type = type /\ crank'.vat = v
  BY <1>2 DEF BeginDelivery, CrankType
<1> QED
  BY <1>1, <1>3 DEF InvOf

LEMMA SyscallStaysGood ==
  ASSUME InvOf(k, saved, crank), Delivering, NEW kk, Good(kk), crank.vat \in kk.live,
         Within(kk, One(crank.type = "upgrade")), Syscall(kk)
  PROVE  InvOf(k', saved', crank')
<1>1. k' = kk /\ saved' = saved /\ crank.type # "idle" /\ crank \in CrankType
  BY DEF Syscall, Delivering, InvOf
<1>2. crank' = [crank EXCEPT !.syscalls = @ + 1] /\ crank.syscalls < MaxSyscalls
  BY DEF Syscall
<1>3. crank.syscalls + 1 \in 0..MaxSyscalls
  BY <1>1, <1>2, CrankIs, SizesAssumption
<1>4. crank' \in CrankType /\ crank'.type = crank.type /\ crank'.vat = crank.vat
  BY <1>1, <1>2, <1>3 DEF CrankType
<1> QED
  BY <1>1, <1>4 DEF InvOf

LEMMA HostGood ==
  ASSUME InvOf(k, saved, crank), Running, NEW kk, Good(kk), Within(kk, 0),
         k' = kk, saved' = k', crank' = crank
  PROVE  InvOf(k', saved', crank')
<1>1. crank.type = "idle" /\ crank \in CrankType
  BY DEF Running, InvOf
<1>2. One(crank'.type = "upgrade") = 0
  BY <1>1 DEF One
<1> QED
  BY <1>1, <1>2 DEF InvOf

\* What holds when a step begins.
LEMMA IdleIs ==
  ASSUME InvOf(k, saved, crank), Running
  PROVE  /\ Good(k) /\ Base(k) /\ k \in KernelState /\ Within(k, 0) /\ crank \in CrankType
         /\ Reserved = Spare(k) /\ Spare(k) \in Nat /\ k.nextKpid \in Nat /\ k.sends \in Nat
<1>1. crank.type = "idle" /\ crank \in CrankType /\ Good(k) /\ Within(k, One(crank.type = "upgrade"))
  BY DEF Running, InvOf
<1>2. One(crank.type = "upgrade") = 0
  BY <1>1 DEF One
<1>3. Base(k) /\ k \in KernelState
  BY <1>1 DEF Good, Base
<1>4. Spare(k) \in Nat /\ Upgrading(k) \in Nat /\ k.nextKpid \in Nat /\ k.sends \in Nat
      /\ Cardinality(k.live \ {AdminVat}) \in Nat
  BY <1>3, SpareIs
<1>5. Upgrading(k) = CountIn(k.acceptanceQueue, UpgradeEvent) + CountIn(k.runQueue, UpgradeEvent)
      /\ CountIn(k.acceptanceQueue, UpgradeEvent) \in Nat /\ CountIn(k.runQueue, UpgradeEvent) \in Nat
  <2>1. k.acceptanceQueue \in Seq(Event) /\ k.runQueue \in Seq(Event)
    BY <1>3 DEF KernelState
  <2> QED
    BY <1>3, <2>1, QueuesAre, CountSet DEF Upgrading, Tally
<1>6. Reserved = Spare(k)
  BY <1>1, <1>4, <1>5 DEF Reserved, Spare
<1> QED
  BY <1>1, <1>2, <1>3, <1>4, <1>6

LEMMA BusyIs ==
  ASSUME InvOf(k, saved, crank), Delivering
  PROVE  /\ Good(k) /\ Base(k) /\ k \in KernelState /\ crank \in CrankType
         /\ Within(k, One(crank.type = "upgrade")) /\ crank.vat \in k.live /\ crank.vat \in Vats
         /\ Reserved = Spare(k) + One(crank.type = "upgrade") /\ Spare(k) \in Nat
         /\ One(crank.type = "upgrade") \in Nat
         /\ k.nextKpid \in Nat /\ k.sends \in Nat
<1>1. crank.type # "idle" /\ crank \in CrankType /\ Good(k) /\ Within(k, One(crank.type = "upgrade"))
      /\ crank.vat \in k.live
  BY DEF Delivering, InvOf
<1>3. Base(k) /\ k \in KernelState /\ crank.vat \in Vats
  BY <1>1 DEF Good, Base, KernelState
<1>4. Spare(k) \in Nat /\ Upgrading(k) \in Nat /\ k.nextKpid \in Nat /\ k.sends \in Nat
      /\ Cardinality(k.live \ {AdminVat}) \in Nat
  BY <1>3, SpareIs
<1>5. Upgrading(k) = CountIn(k.acceptanceQueue, UpgradeEvent) + CountIn(k.runQueue, UpgradeEvent)
      /\ CountIn(k.acceptanceQueue, UpgradeEvent) \in Nat /\ CountIn(k.runQueue, UpgradeEvent) \in Nat
  <2>1. k.acceptanceQueue \in Seq(Event) /\ k.runQueue \in Seq(Event)
    BY <1>3 DEF KernelState
  <2> QED
    BY <1>3, <2>1, QueuesAre, CountSet DEF Upgrading, Tally
<1>6. Reserved = Spare(k) + One(crank.type = "upgrade")
  BY <1>1, <1>4, <1>5 DEF Reserved, Spare, One
<1> QED
  BY <1>1, <1>3, <1>4, <1>6 DEF One

-----------------------------------------------------------------------------
(* The steps of the host.                                                  *)

LEMMA QueueToVatRootGood ==
  ASSUME InvOf(k, saved, crank), NEW v \in Vats, QueueToVatRoot(v)
  PROVE  InvOf(k', saved', crank')
<1> DEFINE c == [k EXCEPT !.hostSends = @ + 1]
           one == DoSend(c, NoVat, Root(v), NoSlot, NoPromise)
           sent == QueueToKref(c, Root(v))
           two == RegisterInterest(sent, k.nextKpid)
<1>1. Running /\ Room(1, 1) /\ (k' = one \/ k' = two) /\ saved' = k' /\ crank' = crank
  BY DEF QueueToVatRoot
<1>2. /\ Good(k) /\ Base(k) /\ k \in KernelState /\ Within(k, 0) /\ crank \in CrankType
      /\ Reserved = Spare(k) /\ Spare(k) \in Nat /\ k.nextKpid \in Nat /\ k.sends \in Nat
  BY <1>1, IdleIs
<1>3. k.nextKpid + 1 + Spare(k) <= NPromises + 1 /\ k.sends + 1 + Spare(k) <= MaxSends /\ k.nextKpid >= 1
  BY <1>1, <1>2 DEF Room, Within
<1>4. k.nextKpid \in Promises /\ k.sends + 1 <= MaxSends
  BY <1>2, <1>3, ConstantsAre DEF Promises
<1>5. Watches(k, c) /\ c.awaiting = k.awaiting
  <2>1. k.hostSends + 1 \in Nat
    BY <1>2 DEF KernelState
  <2> DEFINE n == k.hostSends + 1
  <2>2. c = [k EXCEPT !.hostSends = n] /\ n \in Nat
    BY <2>1
  <2> HIDE DEF c, n
  <2> QED
    BY <1>2, <2>2 DEF Watches, SameTable, KernelState
<1> HIDE DEF c
<1>6. Good(c) /\ SameBudget(k, c) /\ Base(c)
  BY <1>2, <1>5, WatchesStaysGood DEF Good
<1>7. c.nextKpid = k.nextKpid /\ c.sends = k.sends /\ Spare(c) = Spare(k)
  BY <1>6, WithinFollows DEF SameBudget
<1>8. Good(one) /\ Within(one, 0)
  <2>1. Root(v) \in Slot \ {NoSlot} /\ Root(v).type = "object" /\ NoSlot \in Slot /\ NoSlot.type = "none"
    BY RootSlotIs, NoSlotIs DEF Root, NoSlot
  <2>2. SendResult(c, one, NoPromise)
    BY <1>4, <1>6, <1>7, <2>1, DoSendGood
  <2> HIDE DEF one
  <2>3. Good(one)
    BY <1>6, <2>2 DEF Good, SendResult
  <2>4. Spare(one) = Spare(k) /\ one.nextKpid = k.nextKpid /\ one.sends = k.sends + 1
    BY <1>7, <2>2 DEF SendResult, Spare
  <2>5. Within(one, 0)
    BY <1>2, <1>3, <2>4 DEF Within
  <2> QED
    BY <2>3, <2>5
<1>9. Good(two) /\ Within(two, 0)
  <2>1. KrefResult(c, sent)
    BY <1>4, <1>6, <1>7, QueueToKrefGood
  <2> HIDE DEF sent
  <2>2. Good(sent) /\ HasKernelPromise(sent, k.nextKpid)
    BY <1>6, <1>7, <2>1 DEF KrefResult, Good, NoWorse
  <2>3. InterestStep(sent, two)
    BY <1>4, <2>2, RegisterInterestGood DEF Good
  <2> HIDE DEF two
  <2>4. Good(two)
    BY <2>2, <2>3, InterestStaysGood
  <2>5. Spare(two) = Spare(k) /\ two.nextKpid = k.nextKpid + 1 /\ two.sends = k.sends + 1
    BY <1>7, <2>1, <2>3 DEF KrefResult, Spare, InterestStep, SameBudget
  <2>6. Within(two, 0)
    BY <1>2, <1>3, <2>5 DEF Within
  <2> QED
    BY <2>4, <2>6
<1> HIDE DEF one, two, sent
<1>10. CASE k' = one
  BY <1>1, <1>8, <1>10, HostGood
<1>11. CASE k' = two
  BY <1>1, <1>9, <1>11, HostGood
<1> QED
  BY <1>1, <1>10, <1>11

LEMMA KpResolutionGood ==
  ASSUME InvOf(k, saved, crank), NEW p \in Promises, KpResolution(p)
  PROVE  InvOf(k', saved', crank')
<1> DEFINE data == k.promises[p].data
           read == ReleaseInterest(k, p)
           traded == RegisterInterest(read, data.id)
<1>1. /\ Running /\ k.external[p] > 0 /\ saved' = k' /\ crank' = crank
      /\ \/ k' = read
         \/ data.type = "promise" /\ k' = traded
  BY DEF KpResolution, ReleaseInterest
<1>2. Good(k) /\ Base(k) /\ Within(k, 0)
  BY <1>1, IdleIs
<1>3. InterestStep(k, read)
  BY <1>1, <1>2, ReleaseInterestGood
<1>4. data.type = "promise" => HasKernelPromise(k, data.id) /\ data.id \in Promises
  BY <1>2, DataIs
<1> HIDE DEF data, read
<1>5. Good(read) /\ Within(read, 0)
  BY <1>2, <1>3, InterestStaysGood, WithinFollows DEF InterestStep
<1>6. CASE k' = read
  BY <1>1, <1>5, <1>6, HostGood
<1>7. CASE data.type = "promise" /\ k' = traded
  <2>1. HasKernelPromise(read, data.id) /\ data.id \in Promises
    BY <1>3, <1>4, <1>7 DEF InterestStep, SameRowsButCounts, HasKernelPromise
  <2>2. InterestStep(read, traded)
    BY <1>5, <2>1, RegisterInterestGood DEF Good
  <2> HIDE DEF traded
  <2>3. Good(traded) /\ Within(traded, 0)
    BY <1>5, <2>2, InterestStaysGood, WithinFollows DEF InterestStep
  <2> QED
    BY <1>1, <1>7, <2>3, HostGood
<1> QED
  BY <1>1, <1>6, <1>7

LEMMA SweepForgotten ==
  ASSUME NEW kk \in KernelState, NEW free \in Seq(Promises)
  PROVE  Watches(kk, [kk EXCEPT !.maybeFree = free]) /\ [kk EXCEPT !.maybeFree = free].awaiting = kk.awaiting
BY DEF Watches, SameTable, KernelState

LEMMA RestartGood ==
  ASSUME InvOf(k, saved, crank), Restart
  PROVE  InvOf(k', saved', crank')
<1> DEFINE tt == [k EXCEPT !.maybeFree = <<>>]
<1>1. Running /\ k' = tt /\ saved' = k' /\ crank' = crank
  BY DEF Restart
<1>2. Good(k) /\ k \in KernelState /\ Within(k, 0)
  BY <1>1, IdleIs
<1>3. <<>> \in Seq(Promises)
  OBVIOUS
<1>4. Watches(k, tt) /\ tt.awaiting = k.awaiting
  BY <1>2, <1>3, SweepForgotten
<1> HIDE DEF tt
<1>5. Good(tt) /\ Within(tt, 0)
  BY <1>2, <1>4, WatchesStaysGood, WithinFollows
<1> QED
  BY <1>1, <1>5, HostGood

-----------------------------------------------------------------------------
(* The steps of the kernel.                                                *)

\* An event that is not a send goes from the acceptance queue to the run queue.
LEMMA PassOnGood ==
  ASSUME NEW kk, Good(kk), NEW tt, NEW e, e.type # "send", TakeResult(kk, tt, e), tt.sends = kk.sends,
         NEW uu, uu = ForwardSend(tt, e)
  PROVE  Good(uu) /\ SameBudget(kk, uu)
<1>1. /\ Base(tt) /\ Ready(tt, e) /\ e \in Event /\ SameButQueues(kk, tt) /\ tt \in KernelState
      /\ Base(kk)
  BY DEF TakeResult, Base, Good
<1>2. Family(Queues(tt))
  BY <1>1, FamilyIs DEF Base, Numbered
<1>3. uu \in KernelState /\ SameButQueues(tt, uu) /\ uu.sends = tt.sends
      /\ \A p \in Promises : uu.promises[p].queue = tt.promises[p].queue
  <2> DEFINE n == Append(tt.runQueue, e)
  <2>1. n \in Seq(Event) /\ uu = [tt EXCEPT !.runQueue = n]
    BY <1>1 DEF KernelState, ForwardSend
  <2> HIDE DEF n
  <2> QED
    BY <1>1, <2>1 DEF KernelState, SameButQueues
<1>4. Changed(Queues(tt), Queues(uu), -1, Append(Queues(tt)[-1], e))
  <2>1. uu.runQueue = Append(tt.runQueue, e) /\ uu.acceptanceQueue = tt.acceptanceQueue
        /\ uu.promises = tt.promises
    BY <1>1 DEF KernelState, ForwardSend
  <2> QED
    BY <2>1, ConstantsAre DEF Changed, Queues
<1>5. Fresh(Queues(tt), e)
  BY DEF Fresh
<1>6. Put(Queues(tt), Queues(uu), e)
  BY <1>1, <1>2, <1>4, <1>5, ConstantsAre, PutIs DEF Promises
<1>7. QueuesFit(uu)
  BY <1>1, <1>3, OutsideFits
<1>8. \A p \in Promises : Excess(tt, p) = Owed(e, p) /\ Owed(e, p) \in Nat
  BY <1>1, OwedIs DEF TakeResult, Good
<1>9. /\ Base(uu)
      /\ \A p \in Promises : Excess(tt, p) = Excess(uu, p) + Owed(e, p)
      /\ Orphans(uu) \subseteq Orphans(tt)
      /\ Unfit(uu) = Unfit(tt) /\ Unheard(uu) \subseteq Unheard(tt)
      /\ Notices(tt) \subseteq Notices(uu)
      /\ e.type = "notify" => e \in Notices(uu)
      /\ e.type # "notify" => Notices(uu) = Notices(tt)
      /\ Early(uu) \subseteq Early(tt) \cup {f \in {e} : e.type = "notify" /\ ~Settled(tt, e.kpid)}
      /\ Upgrading(uu) = Upgrading(tt) + One(e.type = "upgrade-vat")
  <2>1. \A p \in Promises : Excess(tt, p) >= Owed(e, p)
    BY <1>8
  <2>2. tt.sends <= uu.sends
    BY <1>1, <1>3 DEF KernelState
  <2>4. e.type = "send" => e.number <= uu.sends
    OBVIOUS
  <2>3. /\ Base(uu)
        /\ \A p \in Promises : Excess(tt, p) = Excess(uu, p) + Owed(e, p)
        /\ Orphans(uu) \subseteq {p \in Orphans(tt) : ~(e.type = "send" /\ e.result = p)}
        /\ Unfit(uu) = Unfit(tt) /\ Unheard(uu) \subseteq Unheard(tt)
        /\ Notices(tt) \subseteq Notices(uu)
        /\ e.type = "notify" => e \in Notices(uu) /\ Notices(uu) \subseteq Notices(tt) \cup {e}
        /\ e.type # "notify" => Notices(uu) = Notices(tt)
        /\ Early(uu) \subseteq Early(tt) \cup {f \in {e} : e.type = "notify" /\ ~Settled(tt, e.kpid)}
        /\ Upgrading(uu) = Upgrading(tt) + One(e.type = "upgrade-vat")
    BY <1>1, <1>3, <1>6, <1>7, <2>1, <2>2, <2>4, PutGood
  <2> QED
    BY <2>3
<1>10. \A p \in Promises : Excess(uu, p) = 0
  <2>1. SUFFICES ASSUME NEW p \in Promises PROVE Excess(uu, p) = 0
    OBVIOUS
  <2>2. Excess(tt, p) = Owed(e, p) /\ Excess(tt, p) = Excess(uu, p) + Owed(e, p) /\ Owed(e, p) \in Nat
    BY <1>8, <1>9
  <2>3. Excess(uu, p) \in Int
    BY <1>9, ExcessType
  <2> QED
    BY <2>2, <2>3
<1>11. Orphans(uu) = {} /\ Unfit(uu) = {}
  BY <1>9 DEF TakeResult, Good
<1>12. Early(uu) = {}
  <2>1. Early(tt) = {}
    BY DEF TakeResult, Good
  <2>2. e.type = "notify" => Settled(kk, e.kpid) /\ e.kpid \in Promises
    BY <1>1, EventTypes DEF TakeResult, Good, Early, Notification
  <2>3. e.type = "notify" => Settled(tt, e.kpid)
    BY <1>1, <2>2, SameButQueuesMeans
  <2> QED
    BY <1>9, <2>1, <2>3
<1>13. Unheard(uu) = {}
  <2>1. CASE e.type = "notify"
    <3>1. SUFFICES ASSUME NEW d \in Unheard(uu) PROVE FALSE
      OBVIOUS
    <3>2. d \in Unheard(tt) /\ d = <<e.vat, e.kpid>>
      BY <1>9, <2>1, <3>1 DEF TakeResult, Good
    <3>3. e \in Notices(uu)
      BY <1>9, <2>1
    <3>4. ~Unresolved(uu, e.kpid) /\ e.kpid \in Promises
      <4>1. Settled(kk, e.kpid) /\ e.kpid \in Promises
        BY <1>1, <2>1, EventTypes DEF TakeResult, Good, Early, Notification
      <4>2. Settled(tt, e.kpid)
        BY <1>1, <4>1, SameButQueuesMeans
      <4>3. Settled(uu, e.kpid)
        BY <1>1, <1>3, <4>1, <4>2, SameButQueuesMeans
      <4> QED
        BY <4>1, <4>3 DEF Settled, Unresolved
    <3>5. Told(uu, e.vat, e.kpid)
      <4>1. <<e.vat, e.kpid>> \in Vats \X Promises /\ e.vat \in kk.live /\ e.kpid \in kk.awaiting[e.vat]
        <5>1. <<e.vat, e.kpid>> \in Unheard(uu)
          BY <3>1, <3>2
        <5>2. uu.live = kk.live /\ uu.awaiting = kk.awaiting
          BY <1>1, <1>3 DEF SameButQueues
        <5> QED
          BY <5>1, <5>2 DEF Unheard
      <4>2. Told(kk, e.vat, e.kpid)
        BY <4>1 DEF Good, Unheard
      <4>3. e.kpid \in uu.clist[e.vat]
        BY <1>1, <1>3, <4>2 DEF Told, SameButQueues
      <4> QED
        BY <3>3, <3>4, <4>3 DEF Told
    <3> QED
      BY <3>1, <3>2, <3>5 DEF Unheard
  <2>2. CASE e.type # "notify"
    BY <1>9, <2>2 DEF TakeResult, Good
  <2> QED
    BY <2>1, <2>2
<1>14. SameBudget(kk, uu)
  <2>1. uu.nextKpid = kk.nextKpid /\ uu.live = kk.live /\ uu.sends = kk.sends
    BY <1>1, <1>3 DEF SameButQueues
  <2>2. Upgrading(uu) = Upgrading(kk)
    BY <1>9 DEF TakeResult
  <2> QED
    BY <2>1, <2>2 DEF SameBudget
<1> QED
  BY <1>9, <1>10, <1>11, <1>12, <1>13, <1>14 DEF Good

\* The head of the acceptance queue, or of the run queue, in the kernel's hands.
TakeAccepted(kk) == [kk EXCEPT !.acceptanceQueue = Tail(@)]
TakeNext(kk) == [kk EXCEPT !.runQueue = Tail(@)]
LEMMA TakeAcceptedGood ==
  ASSUME NEW kk, Good(kk), kk.acceptanceQueue # <<>>
  PROVE  /\ TakeResult(kk, TakeAccepted(kk), Head(kk.acceptanceQueue))
         /\ TakeAccepted(kk).sends = kk.sends /\ TakeAccepted(kk).promises = kk.promises
<1>1. Base(kk) /\ kk \in KernelState
  BY DEF Good, Base
<1> DEFINE n == Tail(kk.acceptanceQueue)
           tt == TakeAccepted(kk)
<1>2. n \in Seq(Event) /\ tt = [kk EXCEPT !.acceptanceQueue = n]
  BY <1>1 DEF TakeAccepted, KernelState
<1>3. TakenFrom(kk, tt, 0)
  <2> HIDE DEF tt
  <2>1. tt.acceptanceQueue = n /\ tt.runQueue = kk.runQueue
    <3> HIDE DEF n
    <3> QED
      BY <1>1, <1>2 DEF KernelState
  <2> HIDE DEF n
  <2>2. tt \in KernelState /\ tt.promises = kk.promises /\ tt.clist = kk.clist
        /\ tt.nextKpid = kk.nextKpid /\ tt.live = kk.live /\ tt.terminated = kk.terminated
        /\ tt.external = kk.external /\ tt.awaiting = kk.awaiting /\ tt.failed = kk.failed
        /\ tt.sends = kk.sends
    BY <1>1, <1>2 DEF KernelState
  <2> QED
    BY <2>1, <2>2 DEF TakenFrom, n
<1>4. Queues(kk)[0] = kk.acceptanceQueue
  BY <1>1, QueuesAre
<1> HIDE DEF tt, n
<1>5. TakeResult(kk, tt, Head(kk.acceptanceQueue))
  BY <1>1, <1>3, <1>4, TakenGood
<1> QED
  BY <1>3, <1>5 DEF tt, TakenFrom

LEMMA TakeNextGood ==
  ASSUME NEW kk, Good(kk), kk.runQueue # <<>>
  PROVE  /\ TakeResult(kk, TakeNext(kk), Head(kk.runQueue))
         /\ TakeNext(kk).sends = kk.sends /\ TakeNext(kk).promises = kk.promises
<1>1. Base(kk) /\ kk \in KernelState
  BY DEF Good, Base
<1> DEFINE n == Tail(kk.runQueue)
           tt == TakeNext(kk)
<1>2. n \in Seq(Event) /\ tt = [kk EXCEPT !.runQueue = n]
  BY <1>1 DEF TakeNext, KernelState
<1>3. TakenFrom(kk, tt, -1)
  <2> HIDE DEF tt
  <2>1. tt.runQueue = n /\ tt.acceptanceQueue = kk.acceptanceQueue
    <3> HIDE DEF n
    <3> QED
      BY <1>1, <1>2 DEF KernelState
  <2> HIDE DEF n
  <2>2. tt \in KernelState /\ tt.promises = kk.promises /\ tt.clist = kk.clist
        /\ tt.nextKpid = kk.nextKpid /\ tt.live = kk.live /\ tt.terminated = kk.terminated
        /\ tt.external = kk.external /\ tt.awaiting = kk.awaiting /\ tt.failed = kk.failed
        /\ tt.sends = kk.sends
    BY <1>1, <1>2 DEF KernelState
  <2> QED
    BY <2>1, <2>2 DEF TakenFrom, n
<1>4. Queues(kk)[-1] = kk.runQueue
  BY <1>1, QueuesAre
<1> HIDE DEF tt, n
<1>5. TakeResult(kk, tt, Head(kk.runQueue))
  BY <1>1, <1>3, <1>4, TakenGood
<1> QED
  BY <1>3, <1>5 DEF tt, TakenFrom

\* Where a send that was taken goes.
Routed(kk, r, t) ==
  \/ /\ r.to = "splat"
     /\ r.data \in Slot /\ (r.data.type = "promise" => HasKernelPromise(kk, r.data.id))
  \/ r.to = "queue" /\ t.type = "promise" /\ Unresolved(kk, t.id)
  \/ /\ r.to = "vat" /\ r.vat \in kk.live /\ r.target \in Slot \ {NoSlot}
     /\ r.target.type = "object" \/ r.target = t
     /\ r.target.type = "promise" =>
          /\ r.target.id \in Promises
          /\ Unresolved(kk, r.target.id) /\ kk.promises[r.target.id].decider = r.vat
LEMMA SendTaken ==
  ASSUME NEW kk, Good(kk), NEW tt, NEW e, e.type = "send", TakeResult(kk, tt, e),
         tt.sends = kk.sends, tt.promises = kk.promises
  PROVE  /\ Holding(tt, e) /\ SameBudget(kk, tt) /\ Routed(tt, RouteSendEvent(kk, e.target), e.target)
         /\ e.target.type = "promise" => e.target = Promise(e.target.id) /\ e.target.id \in Promises
<1>1. Holding(tt, e) /\ SameBudget(kk, tt) /\ Base(kk) /\ e \in Send
  BY HoldingIs DEF Holding, Good
<1>2. e.target.type = "promise" => HasKernelPromise(tt, e.target.id) /\ e.target.id \in Promises
                                   /\ e.target = Promise(e.target.id)
  BY <1>1, HoldingRefers
<1>3. e.target.type = "promise" => e.target.id \in Promises /\ HasKernelPromise(kk, e.target.id)
  BY <1>2 DEF HasKernelPromise
<1>4. e.target \in Slot \ {NoSlot}
  BY <1>1, SendParts
<1>5. Routed(kk, RouteSendEvent(kk, e.target), e.target)
  BY <1>1, <1>3, <1>4, RouteIs DEF Routed
<1>6. tt.live = kk.live
  BY <1>1 DEF SameBudget
<1>7. Routed(tt, RouteSendEvent(kk, e.target), e.target)
  BY <1>5, <1>6 DEF Routed, HasKernelPromise, Unresolved
<1> QED
  BY <1>1, <1>2, <1>7

\* The next step of a message that was accepted.
Retargeted(kk, e, t) ==
  IF t = e.target THEN kk ELSE IncrementSlot(DecrementSlot(kk, e.target), t)
Towards(kk, e, t) == ForwardSend(Retargeted(kk, e, t), [e EXCEPT !.target = t])
LEMMA TowardsGood ==
  ASSUME NEW kk, NEW e, Holding(kk, e), NEW t \in Slot \ {NoSlot}, t.type = "object" \/ t = e.target
  PROVE  Good(Towards(kk, e, t)) /\ SameBudget(kk, Towards(kk, e, t))
<1>1. CASE t = e.target
  <2>1. e \in Send
    BY DEF Holding
  <2>2. [e EXCEPT !.target = t] = e
    BY <1>1, <2>1 DEF Send
  <2>3. Towards(kk, e, t) = ForwardSend(kk, e)
    BY <1>1, <2>2 DEF Towards, Retargeted
  <2> QED
    BY <2>3, ForwardGood
<1>2. CASE t # e.target
  <2> DEFINE tt == IncrementSlot(DecrementSlot(kk, e.target), t)
             f == [e EXCEPT !.target = t]
  <2>1. Holding(tt, f) /\ SameBudget(kk, tt)
    BY <1>2, RetargetGood
  <2>2. Towards(kk, e, t) = ForwardSend(tt, f)
    BY <1>2 DEF Towards, Retargeted
  <2> HIDE DEF tt, f
  <2>3. Good(ForwardSend(tt, f)) /\ SameBudget(tt, ForwardSend(tt, f))
    BY <2>1, ForwardGood
  <2> QED
    BY <2>1, <2>2, <2>3 DEF SameBudget
<1> QED
  BY <1>1, <1>2

LEMMA ProcessAcceptanceGood ==
  ASSUME InvOf(k, saved, crank), ProcessAcceptanceMessage
  PROVE  InvOf(k', saved', crank')
<1> DEFINE e == Head(k.acceptanceQueue)
           taken == TakeAccepted(k)
           route == RouteSendEvent(k, e.target)
<1>1. Running /\ k.acceptanceQueue # <<>>
  BY DEF ProcessAcceptanceMessage
<1>2. Good(k) /\ Base(k) /\ Within(k, 0) /\ crank \in CrankType
  BY <1>1, IdleIs
<1>3. \/ e.type # "send" /\ FinishCrank(ForwardSend(taken, e))
      \/ e.type = "send" /\ route.to = "splat" /\ FinishCrank(SplatSend(taken, e, route.data))
      \/ e.type = "send" /\ route.to = "queue"
         /\ FinishCrank(AddMessageToPromiseQueue(taken, e.target.id, e))
      \/ e.type = "send" /\ route.to # "splat" /\ route.to # "queue"
         /\ FinishCrank(Towards(taken, e, route.target))
  BY DEF ProcessAcceptanceMessage, TakeAccepted, ForwardSend, Towards, Retargeted
<1>4. TakeResult(k, taken, e) /\ taken.sends = k.sends /\ taken.promises = k.promises
  BY <1>1, <1>2, TakeAcceptedGood
<1> HIDE DEF taken, e
<1>5. CASE e.type # "send" /\ FinishCrank(ForwardSend(taken, e))
  <2> DEFINE n == ForwardSend(taken, e)
  <2>1. Good(n) /\ SameBudget(k, n)
    BY <1>2, <1>4, <1>5, PassOnGood
  <2>2. FinishCrank(n)
    BY <1>5
  <2> HIDE DEF n
  <2> QED
    BY <1>2, <2>1, <2>2, WithinFollows, FinishGood
<1>6. ASSUME e.type = "send"
      PROVE  /\ Holding(taken, e) /\ SameBudget(k, taken) /\ Routed(taken, route, e.target)
             /\ e.target.type = "promise" => e.target = Promise(e.target.id) /\ e.target.id \in Promises
  BY <1>2, <1>4, <1>6, SendTaken
<1> HIDE DEF route
<1>7. CASE e.type = "send" /\ route.to = "splat" /\ FinishCrank(SplatSend(taken, e, route.data))
  <2> DEFINE n == SplatSend(taken, e, route.data)
  <2>1. Good(n) /\ SameBudget(taken, n)
    BY <1>6, <1>7, SplatGood DEF Routed
  <2>2. FinishCrank(n)
    BY <1>7
  <2> HIDE DEF n
  <2> QED
    BY <1>2, <1>6, <1>7, <2>1, <2>2, WithinFollows, FinishGood
<1>8. CASE /\ e.type = "send" /\ route.to = "queue"
           /\ FinishCrank(AddMessageToPromiseQueue(taken, e.target.id, e))
  <2> DEFINE n == AddMessageToPromiseQueue(taken, e.target.id, e)
  <2>1. e.target.id \in Promises /\ e.target = Promise(e.target.id) /\ Unresolved(taken, e.target.id)
    BY <1>6, <1>8 DEF Routed
  <2>2. Good(n) /\ SameBudget(taken, n)
    BY <1>6, <1>8, <2>1, QueueSendGood
  <2>3. FinishCrank(n)
    BY <1>8
  <2> HIDE DEF n
  <2> QED
    BY <1>2, <1>6, <1>8, <2>2, <2>3, WithinFollows, FinishGood
<1>9. CASE /\ e.type = "send" /\ route.to # "splat" /\ route.to # "queue"
           /\ FinishCrank(Towards(taken, e, route.target))
  <2> DEFINE n == Towards(taken, e, route.target)
  <2>1. Good(n) /\ SameBudget(taken, n)
    BY <1>6, <1>9, TowardsGood DEF Routed
  <2>2. FinishCrank(n)
    BY <1>9
  <2> HIDE DEF n
  <2> QED
    BY <1>2, <1>6, <1>9, <2>1, <2>2, WithinFollows, FinishGood
<1> QED
  BY <1>3, <1>5, <1>7, <1>8, <1>9

\* The promises of a dead vat's c-list, some of them.
LEMMA DeadVatLosesEntries ==
  ASSUME NEW kk, Good(kk), NEW v \in Vats, v \notin kk.live,
         NEW n \in 0..Len(Ascending(kk.clist[v]))
  PROVE  LET tt == AbandonAll(kk, v, SubSeq(Ascending(kk.clist[v]), 1, n))
         IN Good(tt) /\ SameBudget(kk, tt) /\ tt.terminated = kk.terminated
<1> DEFINE ps == Ascending(kk.clist[v])
           ws == SubSeq(ps, 1, n)
           tt == AbandonAll(kk, v, ws)
<1>1. Base(kk) /\ kk.clist[v] \in SUBSET Promises
  BY DEF Good, Base, KernelState
<1>2. kk.clist[v] \in SUBSET Nat /\ IsFiniteSet(kk.clist[v])
  BY <1>1, ConstantsAre, FS_Subset
<1>3. /\ ps \in Seq(kk.clist[v]) /\ Len(ps) = Cardinality(kk.clist[v]) /\ Len(ps) \in Nat
      /\ \A i, j \in 1..Len(ps) : i # j => ps[i] # ps[j]
  BY <1>2, AscendingIs
<1>4. /\ ws \in Seq(kk.clist[v]) /\ Len(ws) = n
      /\ \A i \in 1..n : ws[i] = ps[i]
  <2> HIDE DEF ps
  <2> DEFINE C == kk.clist[v]
  <2>1. ps \in Seq(C) /\ n \in 0..Len(ps)
    BY <1>3 DEF ps
  <2> HIDE DEF C
  <2>2. ws \in Seq(C) /\ Len(ws) = n /\ \A i \in 1..n : ws[i] = ps[i]
    BY <2>1
  <2> QED
    BY <2>2 DEF C
<1>5. /\ ws \in Seq(Promises)
      /\ \A i \in 1..Len(ws) : ws[i] \in kk.clist[v]
      /\ \A i, j \in 1..Len(ws) : i # j => ws[i] # ws[j]
  <2> HIDE DEF ws
  <2>1. ws \in Seq(Promises)
    BY <1>1, <1>4
  <2>2. \A i \in 1..Len(ws) : ws[i] \in kk.clist[v]
    BY <1>4
  <2>3. \A i \in 1..n : i \in 1..Len(ps)
    BY <1>3
  <2> HIDE DEF ps
  <2> QED
    BY <1>3, <1>4, <2>1, <2>2, <2>3
<1> HIDE DEF ws, ps
<1>6. RetireStep(kk, tt, v, {ws[i] : i \in 1..Len(ws)})
  BY <1>1, <1>5, AbandonGood
<1> HIDE DEF tt
<1>7. /\ Base(tt) /\ Listing(kk, tt) /\ SameBudget(kk, tt)
      /\ \A q \in Promises : Excess(tt, q) = 0
      /\ Orphans(tt) = {} /\ Early(tt) = {}
  BY <1>6 DEF RetireStep, EntryStep, Good
<1>8. tt.live = kk.live /\ tt.terminated = kk.terminated
  BY <1>7 DEF Listing, SameRest
<1>9. Unheard(tt) = {}
  BY <1>6, <1>8 DEF RetireStep, Good, Unheard
<1>10. Unfit(tt) = {}
  <2>1. SUFFICES ASSUME NEW d \in Unfit(tt) PROVE FALSE
    OBVIOUS
  <2>2. d \in Vats \X Promises /\ d[1] = v /\ Decided(tt, d[1], d[2])
    BY <1>6, <2>1 DEF RetireStep, Good, Unfit
  <2>3. Decided(kk, d[1], d[2])
    BY <1>7, <2>2 DEF Decided, Listing, SameRowsButCounts
  <2>4. d \in Unfit(kk)
    BY <2>2, <2>3 DEF Unfit
  <2> QED
    BY <2>4 DEF Good
<1> QED
  BY <1>7, <1>8, <1>9, <1>10 DEF Good, tt, ws, ps

LEMMA ForgetDeadGood ==
  ASSUME NEW kk, Good(kk), kk.terminated # <<>>, NEW tt, tt = [kk EXCEPT !.terminated = Tail(@)]
  PROVE  Good(tt) /\ SameBudget(kk, tt)
<1>1. Base(kk) /\ kk \in KernelState /\ kk.terminated \in Seq(Vats)
  BY DEF Good, Base, KernelState
<1> DEFINE n == Tail(kk.terminated)
<1>2. n \in Seq(Vats) /\ tt = [kk EXCEPT !.terminated = n] /\ \A i \in DOMAIN n : i + 1 \in DOMAIN kk.terminated /\ n[i] = kk.terminated[i + 1]
  BY <1>1
<1> HIDE DEF n
<1>3. SameTable(kk, tt) /\ tt.external = kk.external /\ tt.live = kk.live /\ tt.awaiting = kk.awaiting
      /\ tt.terminated = n
  BY <1>1, <1>2 DEF SameTable, KernelState
<1>4. Ended(tt)
  BY <1>1, <1>2, <1>3 DEF Ended, Base
<1>5. \A p \in Promises : Excess(tt, p) = 0
  <2>1. SUFFICES ASSUME NEW p \in Promises PROVE Excess(tt, p) = 0
    OBVIOUS
  <2>2. Excess(tt, p) = Excess(kk, p) + kk.external[p] - tt.external[p] /\ kk.external[p] \in Nat
    BY <1>1, <1>3, SameTableGood
  <2>3. Excess(kk, p) = 0
    BY DEF Good
  <2> QED
    BY <1>3, <2>2, <2>3
<1>6. Base(tt)
  <2>1. \A p \in Promises : Excess(tt, p) >= 0
    BY <1>5
  <2> QED
    BY <1>1, <1>3, <1>4, <2>1, SameTableGood
<1>7. /\ Orphans(tt) = Orphans(kk) /\ Early(tt) = Early(kk) /\ Upgrading(tt) = Upgrading(kk)
      /\ \A w \in Vats, p \in Promises :
           (Told(tt, w, p) <=> Told(kk, w, p)) /\ (Decided(tt, w, p) <=> Decided(kk, w, p))
  BY <1>1, <1>3, SameTableGood
<1>8. Unheard(tt) = Unheard(kk)
  BY <1>3, <1>7 DEF Unheard
<1>9. Unfit(tt) = Unfit(kk)
  <2>1. tt.clist = kk.clist
    BY <1>3 DEF SameTable
  <2> QED
    BY <1>3, <1>7, <2>1 DEF Unfit
<1> QED
  BY <1>3, <1>5, <1>6, <1>7, <1>8, <1>9 DEF Good, SameBudget, SameTable

LEMMA CleanupGood ==
  ASSUME InvOf(k, saved, crank), CleanupTerminatedVat
  PROVE  InvOf(k', saved', crank')
<1> DEFINE v == Head(k.terminated)
           ps == Ascending(k.clist[v])
           left(n) == AbandonAll(k, v, SubSeq(ps, 1, n))
           gone == [left(Len(ps)) EXCEPT !.terminated = Tail(@)]
<1>1. /\ Running /\ k.terminated # <<>>
      /\ \/ \E budget \in 1..Len(ps) : FinishCrank(left(budget))
         \/ FinishCrank(gone)
  BY DEF CleanupTerminatedVat, AbandonAll
<1>2. Good(k) /\ Base(k) /\ Within(k, 0) /\ crank \in CrankType /\ k \in KernelState
  BY <1>1, IdleIs
<1>3. v \in Vats /\ v \notin k.live
  <2>1. k.terminated \in Seq(Vats)
    BY <1>2 DEF KernelState
  <2>2. v = k.terminated[1] /\ 1 \in DOMAIN k.terminated /\ v \in Vats
    BY <1>1, <2>1
  <2> QED
    BY <1>2, <2>2 DEF Base, Ended
<1>4. Len(ps) \in Nat
  <2>1. k.clist[v] \in SUBSET Nat /\ IsFiniteSet(k.clist[v])
    BY <1>2, <1>3, ConstantsAre, FS_Subset DEF KernelState
  <2> QED
    BY <2>1, AscendingIs
<1>5. \A n \in 0..Len(ps) : Good(left(n)) /\ SameBudget(k, left(n)) /\ left(n).terminated = k.terminated
  <2>1. SUFFICES ASSUME NEW n \in 0..Len(ps)
        PROVE Good(left(n)) /\ SameBudget(k, left(n)) /\ left(n).terminated = k.terminated
    OBVIOUS
  <2> HIDE DEF v
  <2> QED
    BY <1>2, <1>3, <2>1, DeadVatLosesEntries
<1>6. CASE \E budget \in 1..Len(ps) : FinishCrank(left(budget))
  <2>1. PICK budget \in 1..Len(ps) : FinishCrank(left(budget))
    BY <1>6
  <2> DEFINE n == left(budget)
  <2>2. budget \in 0..Len(ps)
    <3> HIDE DEF ps
    <3> QED
      BY <1>4
  <2>3. Good(n) /\ SameBudget(k, n) /\ FinishCrank(n)
    BY <1>5, <2>1, <2>2
  <2> HIDE DEF n
  <2> QED
    BY <1>2, <2>3, WithinFollows, FinishGood
<1>7. CASE FinishCrank(gone)
  <2> DEFINE all == left(Len(ps))
  <2>1. Len(ps) \in 0..Len(ps)
    <3> HIDE DEF ps
    <3> QED
      BY <1>4
  <2>2. Good(all) /\ SameBudget(k, all) /\ all.terminated = k.terminated
    BY <1>5, <2>1
  <2>3. FinishCrank([all EXCEPT !.terminated = Tail(@)])
    BY <1>7
  <2> HIDE DEF all
  <2> DEFINE n == [all EXCEPT !.terminated = Tail(@)]
  <2>4. Good(n) /\ SameBudget(all, n)
    BY <1>1, <2>2, ForgetDeadGood
  <2>5. FinishCrank(n)
    BY <2>3
  <2> HIDE DEF n
  <2> QED
    BY <1>2, <2>2, <2>4, <2>5, WithinFollows, FinishGood
<1> QED
  BY <1>1, <1>6, <1>7

\* The references of a send that is delivered are released before.
LEMMA ReleasedIsDelivered ==
  ASSUME NEW kk, NEW e, Holding(kk, e), NEW tt, tt = DecrementSendEventRefCount(kk, e)
  PROVE  Delivered(tt, e) /\ SameBudget(kk, tt) /\ SameRowsButCounts(kk, tt)
<1>1. Base(kk) /\ e \in Send /\ \A q \in Promises : Excess(kk, q) = Owed(e, q) /\ Owed(e, q) \in Nat
  BY SendParts DEF Holding
<1>2. \A q \in Promises : Excess(kk, q) >= Owed(e, q)
  BY <1>1
<1>3. /\ Counts(kk, tt)
      /\ \A q \in Promises : Excess(kk, q) = Excess(tt, q) + Owed(e, q)
  BY <1>1, <1>2, DecrementSendGood
<1>4. \A q \in Promises : Excess(tt, q) = 0
  <2>1. SUFFICES ASSUME NEW q \in Promises PROVE Excess(tt, q) = 0
    OBVIOUS
  <2>2. Excess(kk, q) = Owed(e, q) /\ Owed(e, q) \in Nat /\ Excess(kk, q) = Excess(tt, q) + Owed(e, q)
    BY <1>1, <1>3
  <2>3. Excess(tt, q) \in Int
    BY <1>3, ExcessType DEF Counts
  <2> QED
    BY <2>2, <2>3
<1>5. Recounts(kk, tt) /\ Base(tt) /\ NoWorse(kk, tt) /\ SameBudget(kk, tt)
  BY <1>3 DEF Counts
<1>6. SameRowsButCounts(kk, tt)
  BY <1>5 DEF Recounts
<1>7. Sends(tt) = Sends(kk)
  BY <1>1, <1>5, RecountsRefs DEF Base
<1>8. /\ e.arg.type = "promise" => HasKernelPromise(tt, e.arg.id) /\ e.arg.id \in Promises
      /\ e.result # NoPromise => Undecided(tt, e.result) /\ \A f \in Sends(tt) : f.result # e.result
  <2>1. /\ e.arg.type = "promise" => HasKernelPromise(kk, e.arg.id)
        /\ e.result # NoPromise => Undecided(kk, e.result) /\ \A f \in Sends(kk) : f.result # e.result
    BY HoldingRefers
  <2>2. (e.arg.type = "promise" => e.arg.id \in Promises) /\ (e.result # NoPromise => e.result \in Promises)
    BY <1>1, SendParts, SlotIs
  <2>3. e.arg.type = "promise" => HasKernelPromise(tt, e.arg.id)
    BY <1>6, <2>1, <2>2 DEF SameRowsButCounts, HasKernelPromise
  <2>4. e.result # NoPromise => Undecided(tt, e.result)
    BY <1>6, <2>1, <2>2 DEF SameRowsButCounts, Undecided, Unresolved
  <2> QED
    BY <1>7, <2>1, <2>2, <2>3, <2>4
<1>9. Orphans(tt) \subseteq {e.result} /\ Unfit(tt) = {} /\ Early(tt) = {} /\ Unheard(tt) = {}
  BY <1>5 DEF Holding, NoWorse
<1> QED
  BY <1>1, <1>4, <1>5, <1>6, <1>8, <1>9 DEF Delivered

LEMMA DeliverSendGood ==
  ASSUME InvOf(k, saved, crank), DeliverSend
  PROVE  InvOf(k', saved', crank')
<1> DEFINE e == Head(k.runQueue)
           taken == TakeNext(k)
           route == RouteSendEvent(k, e.target)
           released == DecrementSendEventRefCount(taken, e)
           given == TranslateMessage(released, route.vat, route.target, e)
<1>1. Running /\ k.runQueue # <<>> /\ e.type = "send"
  BY DEF DeliverSend, RunQueueHead
<1>2. Good(k) /\ Base(k) /\ Within(k, 0) /\ crank \in CrankType
  BY <1>1, IdleIs
<1>3. \/ route.to = "splat" /\ FinishCrank(SplatSend(taken, e, route.data))
      \/ route.to = "queue" /\ FinishCrank(AddMessageToPromiseQueue(taken, e.target.id, e))
      \/ route.to = "vat" /\ BeginDelivery(given, "message", route.vat, k)
  BY DEF DeliverSend, TakeNext, Dequeued
<1>4. TakeResult(k, taken, e) /\ taken.sends = k.sends /\ taken.promises = k.promises
  BY <1>1, <1>2, TakeNextGood
<1> HIDE DEF taken, e
<1>6. /\ Holding(taken, e) /\ SameBudget(k, taken) /\ Routed(taken, route, e.target)
      /\ e.target.type = "promise" => e.target = Promise(e.target.id) /\ e.target.id \in Promises
  BY <1>1, <1>2, <1>4, SendTaken
<1> HIDE DEF route
<1>7. CASE route.to = "splat" /\ FinishCrank(SplatSend(taken, e, route.data))
  <2> DEFINE n == SplatSend(taken, e, route.data)
  <2>1. Good(n) /\ SameBudget(taken, n)
    BY <1>6, <1>7, SplatGood DEF Routed
  <2>2. FinishCrank(n)
    BY <1>7
  <2> HIDE DEF n
  <2> QED
    BY <1>2, <1>6, <1>7, <2>1, <2>2, WithinFollows, FinishGood
<1>8. CASE route.to = "queue" /\ FinishCrank(AddMessageToPromiseQueue(taken, e.target.id, e))
  <2> DEFINE n == AddMessageToPromiseQueue(taken, e.target.id, e)
  <2>1. e.target.id \in Promises /\ e.target = Promise(e.target.id) /\ Unresolved(taken, e.target.id)
    BY <1>6, <1>8 DEF Routed
  <2>2. Good(n) /\ SameBudget(taken, n)
    BY <1>6, <1>8, <2>1, QueueSendGood
  <2>3. FinishCrank(n)
    BY <1>8
  <2> HIDE DEF n
  <2> QED
    BY <1>2, <1>6, <1>8, <2>2, <2>3, WithinFollows, FinishGood
<1>9. CASE route.to = "vat" /\ BeginDelivery(given, "message", route.vat, k)
  <2>1. Delivered(released, e) /\ SameBudget(taken, released) /\ SameRowsButCounts(taken, released)
    BY <1>6, ReleasedIsDelivered
  <2> HIDE DEF released
  <2>2. /\ route.vat \in taken.live /\ route.target \in Slot \ {NoSlot}
        /\ route.target.type = "promise" =>
             /\ route.target.id \in Promises
             /\ Unresolved(taken, route.target.id) /\ taken.promises[route.target.id].decider = route.vat
    BY <1>6, <1>9 DEF Routed
  <2>3. /\ route.vat \in released.live
        /\ route.target.type = "promise" =>
             /\ route.target.id \in Promises
             /\ Unresolved(released, route.target.id)
             /\ released.promises[route.target.id].decider = route.vat
    BY <2>1, <2>2 DEF SameRowsButCounts, Unresolved, SameBudget
  <2>4. Good(given) /\ SameBudget(released, given)
    BY <2>1, <2>2, <2>3, TranslateMessageGood
  <2>5. BeginDelivery(given, "message", route.vat, k)
    BY <1>9
  <2> HIDE DEF given
  <2>6. Within(given, 0) /\ route.vat \in given.live /\ route.vat \in k.live
    BY <1>2, <1>6, <2>1, <2>3, <2>4, WithinFollows DEF SameBudget
  <2>7. One("message" = "upgrade") = 0
    BY DEF One
  <2> QED
    BY <1>2, <2>4, <2>5, <2>6, <2>7, BeginGood
<1> QED
  BY <1>3, <1>7, <1>8, <1>9

LEMMA DeliverUpgradeVatGood ==
  ASSUME InvOf(k, saved, crank), DeliverUpgradeVat
  PROVE  InvOf(k', saved', crank')
<1> DEFINE e == Head(k.runQueue)
           v == e.vat
           taken == TakeNext(k)
<1>1. Running /\ k.runQueue # <<>> /\ e.type = "upgrade-vat"
  BY DEF DeliverUpgradeVat, RunQueueHead
<1>2. Good(k) /\ Base(k) /\ Within(k, 0) /\ crank \in CrankType
  BY <1>1, IdleIs
<1>3. \/ v \in k.live /\ BeginDelivery(UpgradeVat(taken, v), "upgrade", v, taken)
      \/ v \notin k.live /\ FinishCrank(taken)
  BY DEF DeliverUpgradeVat, TakeNext, Dequeued
<1>4. TakeResult(k, taken, e) /\ taken.sends = k.sends /\ taken.promises = k.promises
  BY <1>1, <1>2, TakeNextGood
<1> HIDE DEF taken, e
<1>5. Base(taken) /\ e \in Event /\ SameButQueues(k, taken)
  BY <1>4 DEF TakeResult
<1>6. \A p \in Promises : Excess(taken, p) = 0
  <2>1. \A p \in Promises : Owed(e, p) = 0
    BY <1>1 DEF Owed
  <2>2. \A p \in Promises : Excess(k, p) = 0
    BY <1>2 DEF Good
  <2> QED
    BY <1>4, <2>1, <2>2 DEF TakeResult
<1>7. Good(taken)
  BY <1>1, <1>2, <1>4, <1>5, <1>6 DEF Good, TakeResult
<1>8. taken.nextKpid = k.nextKpid /\ taken.live = k.live
  BY <1>5 DEF SameButQueues
<1>9. Within(taken, 1)
  <2>1. Upgrading(k) = Upgrading(taken) + 1
    BY <1>1, <1>4 DEF TakeResult, One
  <2>2. /\ Spare(k) \in Nat /\ Upgrading(k) \in Nat /\ k.nextKpid \in Nat /\ k.sends \in Nat
        /\ Cardinality(k.live \ {AdminVat}) \in Nat
    BY <1>2, SpareIs
  <2>3. Upgrading(taken) \in Nat /\ Spare(taken) \in Nat
    BY <1>5, SpareIs
  <2>4. Spare(k) = Spare(taken) + 1
    BY <1>8, <2>1, <2>2, <2>3 DEF Spare
  <2> QED
    BY <1>2, <1>4, <1>8, <2>2, <2>3, <2>4, ConstantsAre DEF Within
<1>10. CASE v \in k.live /\ BeginDelivery(UpgradeVat(taken, v), "upgrade", v, taken)
  <2> DEFINE n == UpgradeVat(taken, v)
  <2>1. Good(n) /\ SameBudget(taken, n)
    BY <1>7, <1>8, <1>10, UpgradeGood
  <2>2. BeginDelivery(n, "upgrade", v, taken)
    BY <1>10
  <2> HIDE DEF n, v
  <2>3. One("upgrade" = "upgrade") = 1 /\ Within(n, 1) /\ v \in n.live /\ v \in taken.live
    BY <1>8, <1>9, <1>10, <2>1, WithinFollows DEF One, SameBudget
  <2> QED
    BY <1>2, <1>7, <1>9, <2>1, <2>2, <2>3, BeginGood
<1>11. CASE FinishCrank(taken)
  <2>1. Within(taken, 0)
    <3>1. /\ Spare(taken) \in Nat /\ taken.nextKpid \in Nat /\ taken.sends \in Nat
      BY <1>5, SpareIs
    <3> QED
      BY <1>9, <3>1, ConstantsAre DEF Within
  <2> QED
    BY <1>2, <1>7, <1>11, <2>1, FinishGood
<1> QED
  BY <1>3, <1>10, <1>11

\* A vat does not wait any longer for what it hears, or resolved.
StopsWaiting(kk, tt, v, S) == tt = [kk EXCEPT !.awaiting[v] = @ \ S]
LEMMA HeardGood ==
  ASSUME NEW kk, Base(kk), \A q \in Promises : Excess(kk, q) = 0,
         Orphans(kk) = {}, Unfit(kk) = {}, Early(kk) = {},
         NEW v \in Vats, NEW S, Unheard(kk) \subseteq {v} \X S,
         NEW tt, StopsWaiting(kk, tt, v, S)
  PROVE  Good(tt) /\ SameBudget(kk, tt)
<1>1. kk \in KernelState
  BY DEF Base
<1> DEFINE n == [kk.awaiting EXCEPT ![v] = @ \ S]
<1>2. n \in [Vats -> SUBSET Promises] /\ tt = [kk EXCEPT !.awaiting = n]
      /\ n[v] = kk.awaiting[v] \ S /\ \A w \in Vats : w # v => n[w] = kk.awaiting[w]
  BY <1>1 DEF KernelState, StopsWaiting
<1> HIDE DEF n
<1>3. Watches(kk, tt) /\ tt.awaiting = n /\ tt.live = kk.live
  BY <1>1, <1>2 DEF Watches, SameTable, KernelState
<1>4. /\ Base(tt) /\ SameBudget(kk, tt)
      /\ \A p \in Promises : Excess(tt, p) = Excess(kk, p)
      /\ Orphans(tt) = Orphans(kk) /\ Early(tt) = Early(kk) /\ Unfit(tt) = Unfit(kk)
      /\ \A w \in Vats, p \in Promises : Told(tt, w, p) <=> Told(kk, w, p)
  BY <1>3, WatchesGood
<1>5. Unheard(tt) = {}
  <2>1. SUFFICES ASSUME NEW d \in Unheard(tt) PROVE FALSE
    OBVIOUS
  <2>2. d \in Vats \X Promises /\ d[1] \in kk.live /\ d[2] \in n[d[1]] /\ ~Told(kk, d[1], d[2])
    BY <1>3, <1>4, <2>1 DEF Unheard
  <2>3. d[2] \in kk.awaiting[d[1]]
    BY <1>2, <2>2
  <2>4. d \in Unheard(kk)
    BY <2>2, <2>3 DEF Unheard
  <2>5. d[1] = v /\ d[2] \in S
    BY <2>4
  <2> QED
    BY <1>2, <2>2, <2>5
<1> QED
  BY <1>4, <1>5 DEF Good

\* What a live vat hears of leaves its c-list.
HeardAll(kk, v, ws) ==
  [DeleteCListEntries(TranslateAll(kk, v, ws), v, ws) EXCEPT !.awaiting[v] = @ \ ToSet(ws)]
LEMMA HeardAllGood ==
  ASSUME NEW kk, Base(kk), \A q \in Promises : Excess(kk, q) = 0,
         Orphans(kk) = {}, Unfit(kk) = {}, Early(kk) = {},
         NEW v \in Vats, NEW p, Unheard(kk) \subseteq {<<v, p>>},
         NEW ws, Chain(kk, p, ws)
  PROVE  Good(HeardAll(kk, v, ws)) /\ SameBudget(kk, HeardAll(kk, v, ws))
<1> DEFINE mm == TranslateAll(kk, v, ws)
           rr == DeleteCListEntries(mm, v, ws)
           S == {ws[i] : i \in 1..Len(ws)}
           tt == HeardAll(kk, v, ws)
<1>1. ws \in Seq(Promises) /\ Len(ws) \in Nat /\ Len(ws) >= 1 /\ ws[1] = p
      /\ \A i \in 1..Len(ws) : ws[i] \in Promises /\ Settled(kk, ws[i])
  BY DEF Chain
<1>2. ToSet(ws) = S
  BY <1>1 DEF ToSet
<1>3. PICK ps : MapStep(kk, mm, v, ps)
  <2>1. \A i \in 1..Len(ws) : HasKernelPromise(kk, ws[i])
    BY <1>1 DEF HasKernelPromise, Settled
  <2> QED
    BY <1>1, <2>1, TranslateAllGood
<1> HIDE DEF mm
<1>4. EntryStep(kk, mm) /\ Unheard(mm) \subseteq Unheard(kk) /\ Unfit(mm) \subseteq Unfit(kk)
  BY <1>3 DEF MapStep
<1>5. /\ Base(mm) /\ SameRowsButCounts(kk, mm) /\ SameBudget(kk, mm)
      /\ \A q \in Promises : Excess(mm, q) = 0
      /\ Orphans(mm) = {} /\ Early(mm) = {}
  BY <1>4 DEF EntryStep, Listing
<1>6. RetireStep(mm, rr, v, S)
  <2>1. \A i \in 1..Len(ws) : HasKernelPromise(mm, ws[i])
    BY <1>1, <1>5 DEF HasKernelPromise, Settled, SameRowsButCounts
  <2> QED
    BY <1>1, <1>5, <2>1, RetireGood
<1> HIDE DEF rr
<1>7. /\ EntryStep(mm, rr) /\ Unheard(rr) \subseteq Unheard(mm) \cup ({v} \X S)
      /\ Unfit(rr) \subseteq Unfit(mm) \cup ({v} \X S)
  BY <1>6 DEF RetireStep
<1>8. /\ Base(rr) /\ SameRowsButCounts(mm, rr) /\ SameBudget(mm, rr)
      /\ \A q \in Promises : Excess(rr, q) = 0
      /\ Orphans(rr) = {} /\ Early(rr) = {}
  BY <1>5, <1>7 DEF EntryStep, Listing
<1>9. Unfit(rr) = {}
  <2>1. SUFFICES ASSUME NEW d \in Unfit(rr) PROVE FALSE
    OBVIOUS
  <2>2. d[2] \in S /\ Decided(rr, d[1], d[2])
    BY <1>4, <1>7, <2>1 DEF Unfit
  <2>3. PICK i \in 1..Len(ws) : d[2] = ws[i]
    BY <2>2
  <2>4. d[2] \in Promises /\ Settled(rr, d[2])
    BY <1>1, <1>5, <1>8, <2>3 DEF Settled, SameRowsButCounts
  <2>5. rr.promises[d[2]].decider = NoVat
    BY <1>8, <2>4 DEF Base, TableOK, Settled
  <2> QED
    BY <2>2, <2>5 DEF Decided
<1>10. Unheard(rr) \subseteq {v} \X S
  <2>1. p \in S
    BY <1>1
  <2> QED
    BY <1>4, <1>7, <2>1
<1>11. StopsWaiting(rr, tt, v, S)
  BY <1>2 DEF HeardAll, rr, mm, StopsWaiting
<1> HIDE DEF S, tt
<1>12. Good(tt) /\ SameBudget(rr, tt)
  BY <1>8, <1>9, <1>10, <1>11, HeardGood
<1> QED
  BY <1>5, <1>8, <1>12 DEF SameBudget, tt

LEMMA DeliverNotifyGood ==
  ASSUME InvOf(k, saved, crank), DeliverNotify
  PROVE  InvOf(k', saved', crank')
<1> DEFINE e == Head(k.runQueue)
           v == e.vat
           p == e.kpid
           taken == TakeNext(k)
           released == DecrementRefCount(taken, p)
           targets == KpidsToRetire(k, p)
<1>1. Running /\ k.runQueue # <<>> /\ e.type = "notify"
  BY DEF DeliverNotify, RunQueueHead
<1>2. Good(k) /\ Base(k) /\ Within(k, 0) /\ crank \in CrankType /\ k \in KernelState
  BY <1>1, IdleIs
<1>3. TakeResult(k, taken, e) /\ taken.sends = k.sends /\ taken.promises = k.promises
  BY <1>1, <1>2, TakeNextGood
<1>4. e \in Notices(k) /\ v \in Vats /\ p \in Promises /\ Settled(k, p)
  <2>1. e \in Event /\ e \in Notices(k)
    BY <1>1, <1>3 DEF TakeResult
  <2>2. e \in Notification
    BY <1>1, <2>1, EventTypes
  <2>3. Settled(k, e.kpid)
    BY <1>2, <2>1 DEF Good, Early
  <2> QED
    BY <2>1, <2>2, <2>3 DEF Notification
<1>5. \/ ~(v \in k.live /\ p \in k.clist[v]) /\ FinishCrank(released)
      \/ v \in k.live /\ p \in k.clist[v] /\ BeginDelivery(HeardAll(released, v, targets), "notify", v, k)
  BY <1>4 DEF DeliverNotify, TakeNext, Dequeued, HeardAll, TranslateAll
<1> HIDE DEF taken, e
<1>6. /\ Base(taken) /\ e \in Event /\ SameButQueues(k, taken) /\ SameBudget(k, taken)
      /\ Orphans(taken) = {} /\ Unfit(taken) = {} /\ Early(taken) = {}
      /\ Unheard(taken) \subseteq {<<v, p>>}
  <2>1. Upgrading(taken) = Upgrading(k)
    <3>1. Upgrading(k) = Upgrading(taken) + 0
      BY <1>1, <1>3 DEF TakeResult, One
    <3>2. Upgrading(taken) \in Nat
      BY <1>3, SpareIs DEF TakeResult
    <3> QED
      BY <3>1, <3>2
  <2> QED
    BY <1>1, <1>2, <1>3, <2>1 DEF TakeResult, SameBudget, SameButQueues, Good
<1>7. \A q \in Promises : Excess(taken, q) = One(q = p)
  <2>1. \A q \in Promises : Owed(e, q) = One(q = p)
    BY <1>1 DEF Owed, One
  <2>2. \A q \in Promises : Excess(k, q) = 0 /\ One(q = p) \in Nat
    BY <1>2 DEF Good, One
  <2> QED
    BY <1>3, <2>1, <2>2 DEF TakeResult
<1>8. /\ Counts(taken, released)
      /\ \A q \in Promises : Excess(taken, q) = Excess(released, q) + One(q = p)
  <2>1. Excess(taken, p) >= 1
    BY <1>4, <1>7 DEF One
  <2> QED
    BY <1>4, <1>6, <2>1, DecrementGood
<1> HIDE DEF released, v, p
<1>9. /\ Base(released) /\ NoWorse(taken, released) /\ SameBudget(taken, released)
      /\ SameRowsButCounts(taken, released)
      /\ released.awaiting = taken.awaiting /\ released.clist = taken.clist
  BY <1>8 DEF Counts, Recounts, SameRest
<1>10. \A q \in Promises : Excess(released, q) = 0
  <2>1. SUFFICES ASSUME NEW q \in Promises PROVE Excess(released, q) = 0
    OBVIOUS
  <2>2. Excess(released, q) \in Int /\ One(q = p) \in Nat
    BY <1>9, ExcessType DEF One
  <2> QED
    BY <1>7, <1>8, <2>2
<1>11. /\ Orphans(released) = {} /\ Unfit(released) = {} /\ Early(released) = {}
       /\ Unheard(released) \subseteq {<<v, p>>}
  BY <1>6, <1>9 DEF NoWorse
<1>12. released.live = k.live /\ released.awaiting = k.awaiting
       /\ released.clist = k.clist /\ SameBudget(k, released)
  BY <1>6, <1>9 DEF SameBudget, SameButQueues
<1>13. CASE ~(v \in k.live /\ p \in k.clist[v]) /\ FinishCrank(released)
  <2>1. Unheard(released) = {}
    <3>1. SUFFICES ASSUME <<v, p>> \in Unheard(released) PROVE FALSE
      BY <1>11
    <3>2. v \in k.live /\ p \in k.awaiting[v]
      BY <1>12, <3>1 DEF Unheard
    <3>3. Told(k, v, p)
      <4>1. v \in Vats /\ p \in Promises
        BY <1>4 DEF v, p
      <4>2. ~Told(k, v, p) => <<v, p>> \in Unheard(k)
        BY <3>2, <4>1 DEF Unheard
      <4> QED
        BY <1>2, <4>2 DEF Good
    <3> QED
      BY <1>13, <3>2, <3>3 DEF Told
  <2>2. Good(released)
    BY <1>9, <1>10, <1>11, <2>1 DEF Good
  <2>3. Within(released, 0)
    BY <1>2, <1>12, WithinFollows
  <2> QED
    BY <1>2, <1>13, <2>2, <2>3, FinishGood
<1>14. CASE /\ v \in k.live /\ p \in k.clist[v]
            /\ BeginDelivery(HeardAll(released, v, targets), "notify", v, k)
  <2>1. Chain(k, p, targets)
    BY <1>2, <1>4, KpidsToRetireIs DEF p
  <2> HIDE DEF targets
  <2>2. Chain(released, p, targets)
    <3>1. \A q \in Promises : Settled(k, q) => Settled(released, q)
      BY <1>3, <1>9 DEF SameRowsButCounts, Settled
    <3>2. \A i \in 1..Len(targets) : targets[i] \in Promises
      BY <2>1 DEF Chain
    <3> QED
      BY <2>1, <3>1, <3>2 DEF Chain
  <2> DEFINE n == HeardAll(released, v, targets)
  <2>3. v \in Vats
    BY <1>4 DEF v
  <2>4. Good(n) /\ SameBudget(released, n)
    BY <1>9, <1>10, <1>11, <2>2, <2>3, HeardAllGood
  <2>5. BeginDelivery(n, "notify", v, k)
    BY <1>14
  <2> HIDE DEF n
  <2>6. Within(n, 0) /\ v \in n.live /\ One("notify" = "upgrade") = 0
    BY <1>2, <1>12, <1>14, <2>4, WithinFollows DEF One, SameBudget
  <2> QED
    BY <1>2, <1>14, <2>4, <2>5, <2>6, BeginGood
<1> QED
  BY <1>5, <1>13, <1>14 DEF v, p

-----------------------------------------------------------------------------
(* The syscalls.                                                           *)
LEMMA ListedIs ==
  ASSUME NEW kk, Base(kk), NEW v \in Vats, NEW p \in kk.clist[v]
  PROVE  p \in Promises /\ HasKernelPromise(kk, p)
<1>1. p \in Promises
  BY DEF Base, KernelState
<1> QED
  BY <1>1, AbsentIs, ReferredFrom

\* What a vat mentions, it has in its c-list afterwards, or knew before.
LEMMA MentionedIs ==
  ASSUME NEW kk, Base(kk), NEW v \in kk.live, NEW s \in Slot, s.type = "promise",
         s \in MayMention(kk, v), NEW tt, MentionStep(kk, tt, v, s)
  PROVE  s.id \in Promises /\ s = Promise(s.id) /\ HasKernelPromise(tt, s.id) /\ s.id \in tt.clist[v]
<1>1. s.id \in Promises /\ s = Promise(s.id) /\ v \in Vats
  BY SlotIs DEF Base, KernelState
<1>2. CASE s.id = kk.nextKpid
  <2>1. s.id \in IsNew(kk, s)
    BY <1>1, <1>2 DEF IsNew
  <2> QED
    BY <1>1, <2>1 DEF MentionStep, Unresolved, HasKernelPromise
<1>3. CASE s.id # kk.nextKpid
  <2>1. s.id \in kk.clist[v]
    BY <1>1, <1>3 DEF MayMention, Promise
  <2>2. HasKernelPromise(kk, s.id)
    BY <1>1, <2>1, ListedIs
  <2> QED
    BY <1>1, <2>1, <2>2 DEF MentionStep, Grows, HasKernelPromise
<1> QED
  BY <1>2, <1>3

LEMMA MentionStays ==
  ASSUME NEW kk, NEW tt, NEW v, NEW s, MentionStep(kk, tt, v, s), NEW q \in Promises,
         HasKernelPromise(kk, q)
  PROVE  HasKernelPromise(tt, q)
BY DEF MentionStep, Grows, HasKernelPromise

LEMMA MentionGood ==
  ASSUME NEW kk, Good(kk), NEW tt, NEW v, NEW s, MentionStep(kk, tt, v, s)
  PROVE  Good(tt) /\ tt.sends = kk.sends /\ tt.live = kk.live /\ Upgrading(tt) = Upgrading(kk)
BY DEF MentionStep, Good, NoWorse

\* A promise a vat decides, which is about to be the result of its send.
Yielded(kk, v, p) == ClearDecider(MapVatSlotToKernelSlot(kk, v, Promise(p)), p)
YieldResult(kk, tt, p) ==
  /\ Base(tt) /\ \A q \in Promises : Excess(tt, q) = 0
  /\ Orphans(tt) \subseteq {p} /\ Unfit(tt) = {} /\ Early(tt) = {} /\ Unheard(tt) = {}
  /\ tt.sends = kk.sends /\ tt.live = kk.live /\ Upgrading(tt) = Upgrading(kk)
  /\ \A q \in Promises : HasKernelPromise(kk, q) => HasKernelPromise(tt, q)
  /\ p # NoPromise => Undecided(tt, p) /\ \A e \in Sends(tt) : e.result # p
LEMMA YieldGood ==
  ASSUME NEW kk, Good(kk), NEW v \in kk.live, NEW p \in Promises,
         p = kk.nextKpid \/ (Unresolved(kk, p) /\ kk.promises[p].decider = v)
  PROVE  YieldResult(kk, Yielded(kk, v, p), p)
<1> DEFINE mm == MapVatSlotToKernelSlot(kk, v, Promise(p))
           tt == Yielded(kk, v, p)
<1>1. Base(kk) /\ v \in Vats /\ v # NoVat
  BY ConstantsAre DEF Good, Base, KernelState
<1>2. MentionStep(kk, mm, v, Promise(p))
  BY <1>1, PromiseSlotIs, MapVatSlotGood
<1>3. tt = ClearDecider(mm, p)
  BY DEF Yielded
<1> HIDE DEF mm, tt
<1>4. Good(mm) /\ mm.sends = kk.sends /\ mm.live = kk.live /\ Upgrading(mm) = Upgrading(kk)
  BY <1>2, MentionGood
<1>5. Unresolved(mm, p) /\ mm.promises[p].decider = v
  <2>1. CASE p = kk.nextKpid
    <3>1. p \in IsNew(kk, Promise(p))
      BY <2>1 DEF IsNew
    <3> QED
      BY <1>2, <3>1 DEF MentionStep
  <2>2. CASE Unresolved(kk, p) /\ kk.promises[p].decider = v
    BY <1>2, <2>2 DEF MentionStep, Grows, HasKernelPromise, Unresolved
  <2> QED
    BY <2>1, <2>2
<1>6. \A e \in Sends(mm) : e.result # p
  <2>1. SUFFICES ASSUME NEW e \in Sends(mm), e.result = p PROVE FALSE
    OBVIOUS
  <2>2. Undecided(mm, p)
    BY <1>4, <2>1, ConstantsAre DEF Good, Base, Resolvers
  <2> QED
    BY <1>1, <1>5, <2>2 DEF Undecided
<1>7. /\ RedecideResult(mm, tt, p) /\ RowStep(mm, tt, p) /\ Undecided(tt, p)
      /\ Orphans(tt) \subseteq Orphans(mm) \cup {p}
      /\ Unfit(tt) \subseteq Unfit(mm) /\ Unheard(tt) \subseteq Unheard(mm)
  BY <1>3, <1>4, <1>5, ClearDeciderGood DEF Good
<1>8. /\ Base(tt) /\ Sends(tt) = Sends(mm) /\ \A q \in Promises : Excess(tt, q) = 0
      /\ Early(tt) = {} /\ SameBudget(mm, tt)
  BY <1>4, <1>7 DEF RedecideResult, OthersAsBefore, Good
<1>9. \A q \in Promises : HasKernelPromise(kk, q) => HasKernelPromise(tt, q)
  <2>1. SUFFICES ASSUME NEW q \in Promises, HasKernelPromise(kk, q) PROVE HasKernelPromise(tt, q)
    OBVIOUS
  <2>2. HasKernelPromise(mm, q)
    BY <1>2, <2>1, MentionStays
  <2>3. q # p => tt.promises[q] = mm.promises[q]
    BY <1>7, <2>1 DEF RowStep
  <2> QED
    BY <1>7, <2>2, <2>3 DEF HasKernelPromise, Undecided, Unresolved
<1> QED
  BY <1>4, <1>6, <1>7, <1>8, <1>9 DEF YieldResult, Good, SameBudget, tt

HandsOn(kk, S) == [kk EXCEPT !.handedOn = @ \cup S]
LEMMA HandedOnGood ==
  ASSUME NEW kk, Good(kk), NEW S \in SUBSET Promises, NEW tt, tt = HandsOn(kk, S)
  PROVE  Good(tt) /\ SameBudget(kk, tt)
<1>1. kk \in KernelState
  BY DEF Good, Base
<1> DEFINE n == kk.handedOn \cup S
<1>2. n \in SUBSET Promises /\ tt = [kk EXCEPT !.handedOn = n]
  BY <1>1 DEF KernelState, HandsOn
<1> HIDE DEF n
<1>3. Watches(kk, tt) /\ tt.awaiting = kk.awaiting
  BY <1>1, <1>2 DEF Watches, SameTable, KernelState
<1> QED
  BY <1>3, WatchesStaysGood

\* A send goes out once its slots are in the table and its result is yielded.
LEMMA SentGood ==
  ASSUME NEW mm, NEW kk, NEW v \in Vats, NEW target \in Slot \ {NoSlot}, NEW arg \in Slot,
         NEW result \in Promises \cup {NoPromise}, YieldResult(mm, kk, result),
         target.type = "promise" => HasKernelPromise(kk, target.id),
         arg.type = "promise" => HasKernelPromise(kk, arg.id),
         kk.sends + 1 <= MaxSends, NEW S \in SUBSET Promises,
         NEW tt, tt = HandsOn(DoSend(kk, v, target, arg, result), S)
  PROVE  /\ Good(tt) /\ tt.live = kk.live /\ Upgrading(tt) = Upgrading(kk)
         /\ tt.nextKpid = kk.nextKpid /\ tt.sends = kk.sends + 1
<1> DEFINE s == DoSend(kk, v, target, arg, result)
<1>1. /\ Base(kk) /\ \A q \in Promises : Excess(kk, q) = 0
      /\ Orphans(kk) \subseteq {result} /\ Unfit(kk) = {} /\ Early(kk) = {} /\ Unheard(kk) = {}
      /\ result # NoPromise => Undecided(kk, result) /\ \A e \in Sends(kk) : e.result # result
  BY DEF YieldResult
<1>2. SendResult(kk, s, result)
  BY <1>1, DoSendGood
<1> HIDE DEF s
<1>3. Good(s) /\ s.live = kk.live /\ Upgrading(s) = Upgrading(kk)
      /\ s.nextKpid = kk.nextKpid /\ s.sends = kk.sends + 1
  BY <1>1, <1>2 DEF SendResult, Good
<1>4. tt = HandsOn(s, S)
  BY DEF s
<1>5. Good(tt) /\ SameBudget(s, tt)
  BY <1>3, <1>4, HandedOnGood
<1> QED
  BY <1>3, <1>5 DEF SameBudget

LEMMA SyscallSendGood ==
  ASSUME InvOf(k, saved, crank), NEW target \in Slot, NEW arg \in Slot,
         NEW result \in Promises \cup {NoPromise}, SyscallSend(target, arg, result)
  PROVE  InvOf(k', saved', crank')
<1> DEFINE v == crank.vat
           mapped == MapVatSlotToKernelSlot(k, v, arg)
           withResult == IF result = NoPromise THEN mapped ELSE Yielded(mapped, v, result)
           S == {result} \cap mapped.clist[v]
           tt == HandsOn(DoSend(withResult, v, target, arg, result), S)
<1>1. /\ Delivering /\ target \notin {NoSlot, Root(v)}
      /\ target.type = "promise" => target.id \in k.clist[v]
      /\ arg = NoSlot \/ arg \in MayMention(k, v)
      /\ \/ result \in {NoPromise, mapped.nextKpid}
         \/ Unresolved(mapped, result) /\ mapped.promises[result].decider = v
      /\ Room(withResult.nextKpid - k.nextKpid, 1)
      /\ Syscall(tt)
  BY DEF SyscallSend, Yielded, HandsOn
<1>2. /\ Good(k) /\ Base(k) /\ k \in KernelState /\ crank \in CrankType
      /\ Within(k, One(crank.type = "upgrade")) /\ v \in k.live /\ v \in Vats
      /\ Reserved = Spare(k) + One(crank.type = "upgrade") /\ Spare(k) \in Nat
      /\ One(crank.type = "upgrade") \in Nat
      /\ k.nextKpid \in Nat /\ k.sends \in Nat
  BY <1>1, BusyIs
<1>3. MentionStep(k, mapped, v, arg)
  BY <1>2, MapVatSlotGood
<1> HIDE DEF mapped
<1>4. Good(mapped) /\ mapped.sends = k.sends /\ mapped.live = k.live /\ Upgrading(mapped) = Upgrading(k)
  BY <1>2, <1>3, MentionGood
<1>5. YieldResult(mapped, withResult, result)
  <2>1. CASE result = NoPromise
    BY <1>4, <2>1 DEF YieldResult, Good
  <2>2. CASE result # NoPromise
    <3>1. withResult = Yielded(mapped, v, result) /\ result \in Promises
      BY <2>2
    <3>2. result = mapped.nextKpid \/ (Unresolved(mapped, result) /\ mapped.promises[result].decider = v)
      BY <1>1, <2>2
    <3> HIDE DEF withResult
    <3> QED
      BY <1>2, <1>4, <3>1, <3>2, YieldGood
  <2> QED
    BY <2>1, <2>2
<1> HIDE DEF withResult
<1>6. target.type = "promise" => HasKernelPromise(withResult, target.id)
  <2>1. SUFFICES ASSUME target.type = "promise" PROVE HasKernelPromise(withResult, target.id)
    OBVIOUS
  <2>2. target.id \in Promises /\ HasKernelPromise(k, target.id)
    BY <1>1, <1>2, <2>1, ListedIs
  <2>3. HasKernelPromise(mapped, target.id)
    BY <1>3, <2>2, MentionStays
  <2> QED
    BY <1>5, <2>2, <2>3 DEF YieldResult
<1>7. arg.type = "promise" => HasKernelPromise(withResult, arg.id)
  <2>1. SUFFICES ASSUME arg.type = "promise" PROVE HasKernelPromise(withResult, arg.id)
    OBVIOUS
  <2>2. arg \in MayMention(k, v)
    BY <1>1, <2>1 DEF NoSlot
  <2>3. arg.id \in Promises /\ HasKernelPromise(mapped, arg.id)
    BY <1>2, <1>3, <2>1, <2>2, MentionedIs
  <2> QED
    BY <1>5, <2>3 DEF YieldResult
<1>8. /\ withResult.nextKpid \in Nat /\ withResult.sends = k.sends /\ withResult.live = k.live
      /\ Upgrading(withResult) = Upgrading(k)
  BY <1>4, <1>5 DEF YieldResult, Base, KernelState
<1>9. /\ withResult.nextKpid + Spare(k) + One(crank.type = "upgrade") <= NPromises + 1
      /\ k.sends + 1 + Spare(k) + One(crank.type = "upgrade") <= MaxSends /\ k.sends + 1 <= MaxSends
  BY <1>1, <1>2, <1>8, ConstantsAre DEF Room
<1>10. withResult.nextKpid >= 1
  <2>1. mapped.nextKpid \in Nat /\ mapped.nextKpid >= 1
    BY <1>2, <1>3 DEF MentionStep, One, Within
  <2>2. withResult.nextKpid # 0
    <3>1. withResult.nextKpid >= mapped.nextKpid
      <4>1. CASE result = NoPromise
        BY <2>1, <4>1 DEF withResult
      <4>2. CASE result # NoPromise
        <5> DEFINE mm == MapVatSlotToKernelSlot(mapped, v, Promise(result))
        <5>1. MentionStep(mapped, mm, v, Promise(result))
          BY <1>2, <1>4, <4>2, PromiseSlotIs, MapVatSlotGood DEF Good
        <5>2. mm.nextKpid >= mapped.nextKpid
          BY <2>1, <5>1 DEF MentionStep, One
        <5>3. withResult.nextKpid = mm.nextKpid
          <6>1. withResult = ClearDecider(mm, result)
            BY <4>2 DEF withResult, Yielded
          <6> HIDE DEF mm
          <6>2. mm \in KernelState
            BY <5>1 DEF MentionStep, Base
          <6> QED
            BY <6>1, <6>2 DEF ClearDecider, KernelState
        <5> QED
          BY <5>2, <5>3
      <4> QED
        BY <4>1, <4>2
    <3> QED
      BY <2>1, <3>1
  <2> QED
    BY <1>8, <2>2
<1>11. S \in SUBSET Promises
  <2>1. mapped.clist[v] \in SUBSET Promises
    BY <1>2, <1>4 DEF Good, Base, KernelState
  <2> QED
    BY <2>1
<1> HIDE DEF S
<1>12. /\ Good(tt) /\ tt.live = withResult.live /\ Upgrading(tt) = Upgrading(withResult)
       /\ tt.nextKpid = withResult.nextKpid /\ tt.sends = withResult.sends + 1
  <2>1. target \in Slot \ {NoSlot} /\ withResult.sends + 1 <= MaxSends
    BY <1>1, <1>8, <1>9
  <2> QED
    BY <1>2, <1>5, <1>6, <1>7, <1>11, <2>1, SentGood
<1> HIDE DEF tt
<1>13. Spare(tt) = Spare(k) /\ tt.live = k.live
  BY <1>8, <1>12 DEF Spare
<1>14. Within(tt, One(crank.type = "upgrade"))
  BY <1>8, <1>9, <1>10, <1>12, <1>13 DEF Within
<1> QED
  BY <1>1, <1>2, <1>12, <1>13, <1>14, SyscallStaysGood

\* What a syscall leaves when it sends nothing.
LEMMA SyscallWithin ==
  ASSUME InvOf(k, saved, crank), Delivering, NEW mm, NEW n, n = mm.nextKpid - k.nextKpid,
         mm.nextKpid \in Nat, k.nextKpid <= mm.nextKpid, Room(n, 0),
         NEW tt, tt.nextKpid = mm.nextKpid, tt.sends = k.sends, tt.live = k.live,
         Upgrading(tt) = Upgrading(k)
  PROVE  Within(tt, One(crank.type = "upgrade"))
<1>1. /\ Good(k) /\ Base(k) /\ k \in KernelState /\ crank \in CrankType
      /\ Within(k, One(crank.type = "upgrade"))
      /\ Reserved = Spare(k) + One(crank.type = "upgrade") /\ Spare(k) \in Nat
      /\ One(crank.type = "upgrade") \in Nat
      /\ k.nextKpid \in Nat /\ k.sends \in Nat
  BY BusyIs
<1>2. Spare(tt) = Spare(k)
  BY DEF Spare
<1>3. tt.nextKpid + Spare(k) + One(crank.type = "upgrade") <= NPromises + 1
      /\ k.sends + Spare(k) + One(crank.type = "upgrade") <= MaxSends
      /\ tt.nextKpid >= 1
  <2> DEFINE o == One(crank.type = "upgrade")
  <2>1. k.nextKpid + n + (Spare(k) + o) <= NPromises + 1 /\ k.sends + Spare(k) + o <= MaxSends
        /\ k.nextKpid >= 1 /\ o \in Nat
    BY <1>1 DEF Room, Within
  <2> HIDE DEF o
  <2>2. tt.nextKpid + Spare(k) + o <= NPromises + 1 /\ k.sends + Spare(k) + o <= MaxSends
        /\ tt.nextKpid >= 1
    BY <1>1, <2>1, ConstantsAre
  <2> QED
    BY <2>2 DEF o
<1> QED
  BY <1>2, <1>3 DEF Within

\* A vat waits for a promise it will be told of.
StartsWaiting(kk, v, p) == [kk EXCEPT !.awaiting[v] = @ \cup {p}]
LEMMA WaitsGood ==
  ASSUME NEW kk, Good(kk), NEW v \in Vats, NEW p \in Promises, Told(kk, v, p),
         NEW tt, tt = StartsWaiting(kk, v, p)
  PROVE  Good(tt) /\ SameBudget(kk, tt)
<1>1. Base(kk) /\ kk \in KernelState
  BY DEF Good, Base
<1> DEFINE n == [kk.awaiting EXCEPT ![v] = @ \cup {p}]
<1>2. n \in [Vats -> SUBSET Promises] /\ tt = [kk EXCEPT !.awaiting = n]
      /\ n[v] = kk.awaiting[v] \cup {p} /\ \A w \in Vats : w # v => n[w] = kk.awaiting[w]
  BY <1>1 DEF KernelState, StartsWaiting
<1> HIDE DEF n
<1>3. Watches(kk, tt) /\ tt.awaiting = n /\ tt.live = kk.live
  BY <1>1, <1>2 DEF Watches, SameTable, KernelState
<1>4. /\ Base(tt) /\ SameBudget(kk, tt)
      /\ \A q \in Promises : Excess(tt, q) = Excess(kk, q)
      /\ Orphans(tt) = Orphans(kk) /\ Early(tt) = Early(kk) /\ Unfit(tt) = Unfit(kk)
      /\ \A w \in Vats, q \in Promises : Told(tt, w, q) <=> Told(kk, w, q)
  BY <1>1, <1>3, WatchesGood
<1>5. Unheard(tt) = {}
  <2>1. SUFFICES ASSUME NEW d \in Unheard(tt) PROVE FALSE
    OBVIOUS
  <2>2. d \in Vats \X Promises /\ d[1] \in kk.live /\ d[2] \in n[d[1]] /\ ~Told(kk, d[1], d[2])
    BY <1>3, <1>4, <2>1 DEF Unheard
  <2>3. d[2] \in kk.awaiting[d[1]]
    BY <1>2, <2>2
  <2>4. d \in Unheard(kk)
    BY <2>2, <2>3 DEF Unheard
  <2> QED
    BY <2>4 DEF Good
<1> QED
  BY <1>4, <1>5 DEF Good

LEMMA SyscallSubscribeGood ==
  ASSUME InvOf(k, saved, crank), NEW p \in Promises, SyscallSubscribe(p)
  PROVE  InvOf(k', saved', crank')
<1> DEFINE v == crank.vat
           mm == MapVatSlotToKernelSlot(k, v, Promise(p))
           told == DoSubscribe(mm, v, p)
           tt == StartsWaiting(told, v, p)
<1>1. Delivering /\ Promise(p) \in MayMention(k, v) /\ Room(New(k, Promise(p)), 0) /\ Syscall(tt)
  BY DEF SyscallSubscribe, StartsWaiting
<1>2. /\ Good(k) /\ Base(k) /\ k \in KernelState /\ crank \in CrankType
      /\ Within(k, One(crank.type = "upgrade")) /\ v \in k.live /\ v \in Vats
      /\ k.nextKpid \in Nat /\ k.sends \in Nat
  BY <1>1, BusyIs
<1>3. MentionStep(k, mm, v, Promise(p))
  BY <1>2, PromiseSlotIs, MapVatSlotGood
<1> HIDE DEF mm
<1>4. Good(mm) /\ Base(mm) /\ mm.sends = k.sends /\ mm.live = k.live /\ Upgrading(mm) = Upgrading(k)
  BY <1>2, <1>3, MentionGood DEF Good
<1>5. HasKernelPromise(mm, p) /\ p \in mm.clist[v]
  BY <1>1, <1>2, <1>3, PromiseSlotIs, MentionedIs
<1>6. Good(told) /\ SameBudget(mm, told) /\ Told(told, v, p)
  <2>1. CASE Unresolved(mm, p)
    <3>1. /\ RedecideResult(mm, told, p) /\ RowStep(mm, told, p)
          /\ told.promises[p].state = "unresolved" /\ v \in told.promises[p].subscribers
          /\ Orphans(told) \subseteq Orphans(mm) /\ Unfit(told) \subseteq Unfit(mm)
          /\ Unheard(told) \subseteq Unheard(mm)
      BY <1>2, <1>4, <2>1, SubscribeGood
    <3> HIDE DEF told
    <3>2. Good(told)
      BY <1>4, <3>1 DEF Good, RedecideResult
    <3>3. Told(told, v, p)
      BY <1>5, <3>1 DEF Told, Unresolved, RowStep
    <3> QED
      BY <3>1, <3>2, <3>3 DEF RedecideResult
  <2>2. CASE ~Unresolved(mm, p)
    <3>1. told = Notify(mm, v, p)
      BY <2>2 DEF DoSubscribe
    <3> HIDE DEF told
    <3>2. NoteResult(mm, told, p) /\ Notice(v, p) \in Notices(told)
      BY <1>2, <1>4, <1>5, <3>1, NotifyGood
    <3>3. Settled(mm, p)
      <4>1. mm.promises[p].state \in PromiseStates
        BY <1>4 DEF Base, KernelState, KernelPromise
      <4> QED
        BY <1>5, <2>2, <4>1 DEF PromiseStates, Settled, Unresolved, HasKernelPromise
    <3>4. Good(told)
      BY <1>4, <3>2, <3>3 DEF Good, NoteResult
    <3>5. Told(told, v, p)
      <4>1. told.clist = mm.clist /\ told.promises[p].state = mm.promises[p].state
        BY <3>2 DEF NoteResult, Notes, SameRowsButCounts
      <4>2. Notice(v, p).vat = v /\ Notice(v, p).kpid = p
        BY DEF Notice
      <4> QED
        BY <1>5, <2>2, <3>2, <4>1, <4>2 DEF Told, Unresolved
    <3> QED
      BY <3>2, <3>4, <3>5 DEF NoteResult, Notes
  <2> QED
    BY <2>1, <2>2
<1> HIDE DEF told
<1>7. Good(tt) /\ SameBudget(told, tt)
  BY <1>2, <1>6, WaitsGood
<1> HIDE DEF tt
<1>8. /\ tt.nextKpid = mm.nextKpid /\ tt.sends = k.sends /\ tt.live = k.live
      /\ Upgrading(tt) = Upgrading(k)
  BY <1>4, <1>6, <1>7 DEF SameBudget
<1>9. Within(tt, One(crank.type = "upgrade"))
  <2>1. New(k, Promise(p)) = mm.nextKpid - k.nextKpid /\ mm.nextKpid \in Nat /\ k.nextKpid <= mm.nextKpid
    BY <1>2, <1>3 DEF MentionStep, One, New
  <2> QED
    BY <1>1, <1>8, <2>1, SyscallWithin
<1> QED
  BY <1>1, <1>2, <1>7, <1>8, <1>9, SyscallStaysGood

\* The turns of the loops of syscall.resolve, for one and two resolutions.
ResolveOne(kk, v, r) == DoResolve(kk, v, r.kpid, r.state, r.data)
MapAll(kk, v, rs) == ForEach(LAMBDA acc, r : MapResolution(acc, v, r), kk, rs)
ResolveAll(kk, v, rs) == ForEach(LAMBDA acc, r : DoResolve(acc, v, r.kpid, r.state, r.data), kk, rs)
LEMMA MapAllOne ==
  ASSUME NEW kk, NEW v, NEW r
  PROVE  MapAll(kk, v, <<r>>) = MapResolution(kk, v, r)
<1> DEFINE Body(f) == [m \in 0..Len(<<r>>) |-> IF m = 0 THEN kk ELSE MapResolution(f[m - 1], v, <<r>>[m])]
           h == CHOOSE f : f = Body(f)
           g == [m \in 0..1 |-> IF m = 0 THEN kk ELSE MapResolution(kk, v, r)]
<1>1. Len(<<r>>) = 1 /\ <<r>>[1] = r /\ DOMAIN g = 0..1 /\ g = [m \in 0..1 |-> g[m]]
  OBVIOUS
<1>2. g[0] = kk /\ g[1] = MapResolution(kk, v, r)
  OBVIOUS
<1> HIDE DEF g
<1>3. g = Body(g)
  <2>1. \A m \in 0..1 : g[m] = Body(g)[m]
    <3>1. SUFFICES ASSUME NEW m \in 0..1 PROVE g[m] = Body(g)[m]
      OBVIOUS
    <3>2. CASE m = 0
      BY <1>1, <1>2, <3>2
    <3>3. CASE m = 1
      BY <1>1, <1>2, <3>3
    <3> QED
      BY <3>2, <3>3
  <2> QED
    BY <1>1, <2>1
<1>4. h = Body(h)
  BY <1>3
<1>5. MapAll(kk, v, <<r>>) = h[Len(<<r>>)]
  BY DEF MapAll, ForEach
<1> HIDE DEF h
<1>6. h[0] = kk
  BY <1>1, <1>4
<1>7. h[1] = MapResolution(h[0], v, r)
  BY <1>1, <1>4
<1> QED
  BY <1>1, <1>5, <1>6, <1>7

LEMMA MapAllTwo ==
  ASSUME NEW kk, NEW v, NEW r, NEW s
  PROVE  MapAll(kk, v, <<r, s>>) = MapResolution(MapResolution(kk, v, r), v, s)
<1> DEFINE Body(f) == [m \in 0..Len(<<r, s>>) |-> IF m = 0 THEN kk ELSE MapResolution(f[m - 1], v, <<r, s>>[m])]
           h == CHOOSE f : f = Body(f)
           a == MapResolution(kk, v, r)
           b == MapResolution(a, v, s)
           g == [m \in 0..2 |-> IF m = 0 THEN kk ELSE IF m = 1 THEN a ELSE b]
<1>1. Len(<<r, s>>) = 2 /\ <<r, s>>[1] = r /\ <<r, s>>[2] = s /\ g = [m \in 0..2 |-> g[m]]
  OBVIOUS
<1>2. g[0] = kk /\ g[1] = a /\ g[2] = b
  OBVIOUS
<1> HIDE DEF g
<1>3. g = Body(g)
  <2>1. \A m \in 0..2 : g[m] = Body(g)[m]
    <3>1. SUFFICES ASSUME NEW m \in 0..2 PROVE g[m] = Body(g)[m]
      OBVIOUS
    <3>2. CASE m = 0
      BY <1>1, <1>2, <3>2
    <3>3. CASE m = 1
      BY <1>1, <1>2, <3>3
    <3>4. CASE m = 2
      BY <1>1, <1>2, <3>4
    <3> QED
      BY <3>2, <3>3, <3>4
  <2> QED
    BY <1>1, <2>1
<1>4. h = Body(h)
  BY <1>3
<1>5. MapAll(kk, v, <<r, s>>) = h[Len(<<r, s>>)]
  BY DEF MapAll, ForEach
<1> HIDE DEF h
<1>6. h[0] = kk
  BY <1>1, <1>4
<1>7. h[1] = MapResolution(h[0], v, r)
  BY <1>1, <1>4
<1>8. h[2] = MapResolution(h[1], v, s)
  BY <1>1, <1>4
<1> QED
  BY <1>1, <1>5, <1>6, <1>7, <1>8

LEMMA ResolveAllOne ==
  ASSUME NEW kk, NEW v, NEW r
  PROVE  ResolveAll(kk, v, <<r>>) = ResolveOne(kk, v, r)
<1> DEFINE Body(f) == [m \in 0..Len(<<r>>) |-> IF m = 0 THEN kk ELSE ResolveOne(f[m - 1], v, <<r>>[m])]
           h == CHOOSE f : f = Body(f)
           g == [m \in 0..1 |-> IF m = 0 THEN kk ELSE ResolveOne(kk, v, r)]
<1>1. Len(<<r>>) = 1 /\ <<r>>[1] = r /\ DOMAIN g = 0..1 /\ g = [m \in 0..1 |-> g[m]]
  OBVIOUS
<1>2. g[0] = kk /\ g[1] = ResolveOne(kk, v, r)
  OBVIOUS
<1> HIDE DEF g
<1>3. g = Body(g)
  <2>1. \A m \in 0..1 : g[m] = Body(g)[m]
    <3>1. SUFFICES ASSUME NEW m \in 0..1 PROVE g[m] = Body(g)[m]
      OBVIOUS
    <3>2. CASE m = 0
      BY <1>1, <1>2, <3>2
    <3>3. CASE m = 1
      BY <1>1, <1>2, <3>3
    <3> QED
      BY <3>2, <3>3
  <2> QED
    BY <1>1, <2>1
<1>4. h = Body(h)
  BY <1>3
<1>5. ResolveAll(kk, v, <<r>>) = h[Len(<<r>>)]
  BY DEF ResolveAll, ForEach, ResolveOne
<1> HIDE DEF h
<1>6. h[0] = kk
  BY <1>1, <1>4
<1>7. h[1] = ResolveOne(h[0], v, r)
  BY <1>1, <1>4
<1> QED
  BY <1>1, <1>5, <1>6, <1>7

LEMMA ResolveAllTwo ==
  ASSUME NEW kk, NEW v, NEW r, NEW s
  PROVE  ResolveAll(kk, v, <<r, s>>) = ResolveOne(ResolveOne(kk, v, r), v, s)
<1> DEFINE Body(f) == [m \in 0..Len(<<r, s>>) |-> IF m = 0 THEN kk ELSE ResolveOne(f[m - 1], v, <<r, s>>[m])]
           h == CHOOSE f : f = Body(f)
           a == ResolveOne(kk, v, r)
           b == ResolveOne(a, v, s)
           g == [m \in 0..2 |-> IF m = 0 THEN kk ELSE IF m = 1 THEN a ELSE b]
<1>1. Len(<<r, s>>) = 2 /\ <<r, s>>[1] = r /\ <<r, s>>[2] = s /\ g = [m \in 0..2 |-> g[m]]
  OBVIOUS
<1>2. g[0] = kk /\ g[1] = a /\ g[2] = b
  OBVIOUS
<1> HIDE DEF g
<1>3. g = Body(g)
  <2>1. \A m \in 0..2 : g[m] = Body(g)[m]
    <3>1. SUFFICES ASSUME NEW m \in 0..2 PROVE g[m] = Body(g)[m]
      OBVIOUS
    <3>2. CASE m = 0
      BY <1>1, <1>2, <3>2
    <3>3. CASE m = 1
      BY <1>1, <1>2, <3>3
    <3>4. CASE m = 2
      BY <1>1, <1>2, <3>4
    <3> QED
      BY <3>2, <3>3, <3>4
  <2> QED
    BY <1>1, <2>1
<1>4. h = Body(h)
  BY <1>3
<1>5. ResolveAll(kk, v, <<r, s>>) = h[Len(<<r, s>>)]
  BY DEF ResolveAll, ForEach, ResolveOne
<1> HIDE DEF h
<1>6. h[0] = kk
  BY <1>1, <1>4
<1>7. h[1] = ResolveOne(h[0], v, r)
  BY <1>1, <1>4
<1>8. h[2] = ResolveOne(h[1], v, s)
  BY <1>1, <1>4
<1> QED
  BY <1>1, <1>5, <1>6, <1>7, <1>8

\* The promises T have left the c-list of v, and are yet to be resolved.
Resolving(kk, v, T) ==
  /\ Base(kk) /\ \A q \in Promises : Excess(kk, q) = 0
  /\ Orphans(kk) = {} /\ Early(kk) = {} /\ Unfit(kk) \subseteq {v} \X T
  /\ \A p \in T : Unresolved(kk, p) /\ kk.promises[p].decider = v
KeepsPromises(kk, tt) == \A q \in Promises : HasKernelPromise(kk, q) => HasKernelPromise(tt, q)
LEMMA ResolveOneGood ==
  ASSUME NEW kk, NEW v \in Vats, NEW T \in SUBSET Promises, Resolving(kk, v, T),
         NEW r \in Resolution, r.kpid \in T, r.data.type = "promise" => HasKernelPromise(kk, r.data.id)
  PROVE  LET tt == ResolveOne(kk, v, r)
         IN /\ Resolving(tt, v, T \ {r.kpid}) /\ SameBudget(kk, tt) /\ KeepsPromises(kk, tt)
            /\ Unheard(tt) \subseteq Unheard(kk)
<1> DEFINE p == r.kpid
           tt == ResolveOne(kk, v, r)
<1>1. /\ Base(kk) /\ p \in Promises /\ Unresolved(kk, p) /\ kk.promises[p].decider = v
      /\ r.state \in {"fulfilled", "rejected"} /\ r.data \in Slot
  BY DEF Resolving, Resolution
<1>2. \A e \in Sends(kk) : e.result # p
  <2>1. SUFFICES ASSUME NEW e \in Sends(kk), e.result = p PROVE FALSE
    OBVIOUS
  <2>2. Undecided(kk, p)
    BY <1>1, <2>1, ConstantsAre DEF Base, Resolvers
  <2> QED
    BY <1>1, <2>2, ConstantsAre DEF Undecided
<1>3. ResolveResult(kk, tt, p, r.data)
  BY <1>1, <1>2, DoResolveGood DEF ResolveOne
<1> HIDE DEF tt, p
<1>4. /\ Base(tt) /\ \A q \in Promises : Excess(tt, q) = 0
      /\ Orphans(tt) = {} /\ Early(tt) = {} /\ Unheard(tt) \subseteq Unheard(kk) /\ SameBudget(kk, tt)
  BY <1>3 DEF ResolveResult, Resolving
<1>5. Unfit(tt) \subseteq {v} \X (T \ {p})
  BY <1>3 DEF ResolveResult, Resolving
<1>6. \A q \in Promises : q # p => tt.promises[q].state = kk.promises[q].state
                                  /\ tt.promises[q].decider = kk.promises[q].decider
  BY <1>3 DEF ResolveResult, PromiseStep
<1>7. \A q \in T \ {p} : Unresolved(tt, q) /\ tt.promises[q].decider = v
  BY <1>6 DEF Resolving, Unresolved
<1>8. KeepsPromises(kk, tt)
  <2>1. HasKernelPromise(tt, p)
    BY <1>3 DEF ResolveResult, Settled, HasKernelPromise
  <2> QED
    BY <1>6, <2>1 DEF KeepsPromises, HasKernelPromise
<1> QED
  BY <1>4, <1>5, <1>7, <1>8 DEF Resolving, tt, p

\* The entries are deleted before the first promise is resolved.
Mapped(kk, tt, v) ==
  /\ Good(tt) /\ tt.sends = kk.sends /\ tt.live = kk.live /\ Upgrading(tt) = Upgrading(kk)
  /\ tt.nextKpid >= kk.nextKpid
StartsResolving(kk, tt, v, S) ==
  /\ Resolving(tt, v, S) /\ SameBudget(kk, tt) /\ KeepsPromises(kk, tt)
  /\ Unheard(tt) \subseteq {v} \X S
LEMMA ResolvingStarts ==
  ASSUME NEW kk, Good(kk), NEW v \in kk.live, NEW ws \in Seq(Promises),
         \A i \in 1..Len(ws) : HasKernelPromise(kk, ws[i]) /\ kk.promises[ws[i]].decider = v
  PROVE  StartsResolving(kk, DeleteCListEntries(kk, v, ws), v, {ws[i] : i \in 1..Len(ws)})
<1> DEFINE tt == DeleteCListEntries(kk, v, ws)
           S == {ws[i] : i \in 1..Len(ws)}
<1>1. Base(kk) /\ v \in Vats /\ v # NoVat
  BY ConstantsAre DEF Good, Base, KernelState
<1>2. RetireStep(kk, tt, v, S)
  BY <1>1, RetireGood
<1> HIDE DEF tt
<1>3. /\ Base(tt) /\ SameRowsButCounts(kk, tt) /\ SameBudget(kk, tt)
      /\ \A q \in Promises : Excess(tt, q) = 0
      /\ Orphans(tt) = {} /\ Early(tt) = {}
      /\ Unheard(tt) \subseteq {v} \X S /\ Unfit(tt) \subseteq {v} \X S
  BY <1>2 DEF RetireStep, EntryStep, Listing, Good
<1>4. \A p \in S : Unresolved(tt, p) /\ tt.promises[p].decider = v
  <2>1. SUFFICES ASSUME NEW p \in S PROVE Unresolved(tt, p) /\ tt.promises[p].decider = v
    OBVIOUS
  <2>2. p \in Promises /\ kk.promises[p].decider = v
    BY <2>1
  <2> HIDE DEF S
  <2>3. kk.promises[p].state = "unresolved"
    BY <1>1, <2>2 DEF Base, TableOK
  <2> QED
    BY <1>3, <2>2, <2>3 DEF SameRowsButCounts, Unresolved
<1>5. KeepsPromises(kk, tt)
  BY <1>3 DEF KeepsPromises, SameRowsButCounts, HasKernelPromise
<1> QED
  BY <1>3, <1>4, <1>5 DEF StartsResolving, Resolving, tt

\* All are resolved.
LEMMA ResolvedGood ==
  ASSUME NEW kk, NEW v \in Vats, Resolving(kk, v, {}), NEW S, Unheard(kk) \subseteq {v} \X S,
         NEW tt, StopsWaiting(kk, tt, v, S)
  PROVE  Good(tt) /\ SameBudget(kk, tt)
<1>1. /\ Base(kk) /\ \A q \in Promises : Excess(kk, q) = 0
      /\ Orphans(kk) = {} /\ Unfit(kk) = {} /\ Early(kk) = {}
  BY DEF Resolving
<1> QED
  BY <1>1, HeardGood

LEMMA MapResolutionGood ==
  ASSUME NEW kk, Good(kk), NEW v \in kk.live, NEW r \in Resolution, MayResolve(kk, v, r)
  PROVE  LET tt == MapResolution(kk, v, r)
         IN /\ Mapped(kk, tt, v) /\ Grows(kk, tt) /\ KeepsPromises(kk, tt)
            /\ r.data.type = "promise" => HasKernelPromise(tt, r.data.id)
            /\ r.data.type = "promise" => r.data.id \in Promises
            /\ r.kpid \in Promises /\ HasKernelPromise(kk, r.kpid) /\ kk.promises[r.kpid].decider = v
<1> DEFINE tt == MapResolution(kk, v, r)
<1>1. Base(kk) /\ v \in Vats /\ r.data \in Slot
  BY DEF Good, Base, KernelState, Resolution
<1>2. MentionStep(kk, tt, v, r.data)
  BY <1>1, MapVatSlotGood DEF MapResolution
<1> HIDE DEF tt
<1>3. Good(tt) /\ tt.sends = kk.sends /\ tt.live = kk.live /\ Upgrading(tt) = Upgrading(kk)
  BY <1>2, MentionGood
<1>4. tt.nextKpid >= kk.nextKpid
  BY <1>1, <1>2 DEF MentionStep, One, Base, KernelState
<1>5. r.data.type = "promise" => HasKernelPromise(tt, r.data.id) /\ r.data.id \in Promises
  <2>1. SUFFICES ASSUME r.data.type = "promise" PROVE HasKernelPromise(tt, r.data.id) /\ r.data.id \in Promises
    OBVIOUS
  <2>2. r.data \in MayMention(kk, v)
    BY <2>1 DEF MayResolve
  <2> QED
    BY <1>1, <1>2, <2>1, <2>2, MentionedIs
<1>6. r.kpid \in Promises /\ HasKernelPromise(kk, r.kpid) /\ kk.promises[r.kpid].decider = v
  BY <1>1, ListedIs DEF MayResolve
<1>7. Grows(kk, tt)
  BY <1>2 DEF MentionStep
<1>8. KeepsPromises(kk, tt)
  BY <1>7 DEF KeepsPromises, Grows, HasKernelPromise
<1> QED
  BY <1>3, <1>4, <1>5, <1>6, <1>7, <1>8 DEF Mapped, tt

LEMMA ResolvesEnd ==
  ASSUME InvOf(k, saved, crank), Delivering, NEW mm, Mapped(k, mm, crank.vat),
         Room(mm.nextKpid - k.nextKpid, 0), NEW tt, Good(tt), SameBudget(mm, tt), Syscall(tt)
  PROVE  InvOf(k', saved', crank')
<1>1. crank.vat \in k.live /\ k.nextKpid \in Nat
  BY BusyIs
<1>2. /\ tt.nextKpid = mm.nextKpid /\ tt.sends = k.sends /\ tt.live = k.live
      /\ Upgrading(tt) = Upgrading(k) /\ mm.nextKpid >= k.nextKpid
  BY DEF Mapped, SameBudget
<1>3. mm.nextKpid \in Nat
  BY DEF Mapped, Good, Base, KernelState
<1>4. k.nextKpid <= mm.nextKpid
  BY <1>1, <1>2, <1>3
<1> DEFINE n == mm.nextKpid - k.nextKpid
<1>5. n = mm.nextKpid - k.nextKpid /\ Room(n, 0)
  OBVIOUS
<1> HIDE DEF n
<1>6. Within(tt, One(crank.type = "upgrade"))
  BY <1>2, <1>3, <1>4, <1>5, SyscallWithin
<1> QED
  BY <1>1, <1>2, <1>6, SyscallStaysGood

\* The state after syscall.resolve.
KpidsOf(rs) == [i \in DOMAIN rs |-> rs[i].kpid]
Resolves(mm, tt, v, rs) ==
  tt = [ResolveAll(DeleteCListEntries(mm, v, KpidsOf(rs)), v, rs) EXCEPT
          !.awaiting[v] = @ \ ToSet(KpidsOf(rs))]
LEMMA SyscallResolveIs ==
  ASSUME NEW rs, SyscallResolve(rs)
  PROVE  LET mm == MapAll(k, crank.vat, rs)
         IN \E tt : /\ Delivering /\ Room(mm.nextKpid - k.nextKpid, 0)
                    /\ Resolves(mm, tt, crank.vat, rs) /\ Syscall(tt)
<1> DEFINE mm == MapAll(k, crank.vat, rs)
           rr == ResolveAll(DeleteCListEntries(mm, crank.vat, KpidsOf(rs)), crank.vat, rs)
           tt == [rr EXCEPT !.awaiting[crank.vat] = @ \ ToSet(KpidsOf(rs))]
<1>1. Delivering /\ Room(mm.nextKpid - k.nextKpid, 0) /\ Syscall(tt)
  BY DEF SyscallResolve, MapAll, ResolveAll, KpidsOf
<1>2. Resolves(mm, tt, crank.vat, rs)
  BY DEF Resolves
<1> QED
  BY <1>1, <1>2

LEMMA SyscallResolveOneGood ==
  ASSUME InvOf(k, saved, crank), NEW r \in Resolution, SyscallResolveOne(r)
  PROVE  InvOf(k', saved', crank')
<1> DEFINE v == crank.vat
           rs == <<r>>
           ws == KpidsOf(rs)
           mm == MapResolution(k, v, r)
           rr == DeleteCListEntries(mm, v, ws)
           dd == ResolveOne(rr, v, r)
<1>1. Delivering /\ MayResolve(k, v, r) /\ SyscallResolve(rs)
  BY DEF SyscallResolveOne
<1>2. Good(k) /\ v \in k.live /\ v \in Vats
  BY <1>1, BusyIs
<1>3. /\ Mapped(k, mm, v) /\ Grows(k, mm) /\ KeepsPromises(k, mm)
      /\ r.data.type = "promise" => HasKernelPromise(mm, r.data.id)
      /\ r.data.type = "promise" => r.data.id \in Promises
      /\ r.kpid \in Promises /\ HasKernelPromise(k, r.kpid) /\ k.promises[r.kpid].decider = v
  BY <1>1, <1>2, MapResolutionGood
<1>4. MapAll(k, v, rs) = mm
  BY MapAllOne
<1>5. /\ ws \in Seq(Promises) /\ Len(ws) = 1 /\ ws[1] = r.kpid
      /\ {ws[i] : i \in 1..Len(ws)} = {r.kpid} /\ ToSet(ws) = {r.kpid}
  <2>1. DOMAIN rs = 1..1 /\ rs[1] = r
    OBVIOUS
  <2>2. ws = [i \in 1..1 |-> rs[i].kpid]
    BY <2>1 DEF KpidsOf
  <2> HIDE DEF ws
  <2>3. DOMAIN ws = 1..1 /\ ws[1] = r.kpid
    BY <2>1, <2>2
  <2>4. ws = [i \in 1..1 |-> r.kpid]
    BY <2>1, <2>2
  <2>5. ws \in Seq(Promises) /\ Len(ws) = 1
    BY <1>3, <2>4
  <2> QED
    BY <2>3, <2>5 DEF ToSet
<1>6. PICK tt : /\ Room(mm.nextKpid - k.nextKpid, 0)
                /\ Resolves(mm, tt, v, rs) /\ Syscall(tt)
  BY <1>1, <1>4, SyscallResolveIs
<1> HIDE DEF mm, ws, rs
<1>7. /\ Resolving(rr, v, {r.kpid}) /\ SameBudget(mm, rr) /\ KeepsPromises(mm, rr)
      /\ Unheard(rr) \subseteq {v} \X {r.kpid}
  <2>1. HasKernelPromise(mm, r.kpid) /\ mm.promises[r.kpid].decider = v
    BY <1>3 DEF Grows, KeepsPromises
  <2>2. \A i \in 1..Len(ws) : HasKernelPromise(mm, ws[i]) /\ mm.promises[ws[i]].decider = v
    BY <1>5, <2>1
  <2>3. Good(mm) /\ v \in mm.live
    BY <1>2, <1>3 DEF Mapped
  <2>4. StartsResolving(mm, rr, v, {ws[i] : i \in 1..Len(ws)})
    BY <1>5, <2>2, <2>3, ResolvingStarts
  <2> QED
    BY <1>5, <2>4 DEF StartsResolving
<1> HIDE DEF rr
<1>8. /\ Resolving(dd, v, {r.kpid} \ {r.kpid}) /\ SameBudget(rr, dd)
      /\ Unheard(dd) \subseteq Unheard(rr)
  <2>1. r.data.type = "promise" => HasKernelPromise(rr, r.data.id)
    BY <1>3, <1>7 DEF KeepsPromises
  <2>2. {r.kpid} \in SUBSET Promises /\ r.kpid \in {r.kpid}
    BY <1>3
  <2> QED
    BY <1>2, <1>7, <2>1, <2>2, ResolveOneGood
<1>9. ResolveAll(rr, v, rs) = dd
  BY ResolveAllOne DEF rs
<1>10. StopsWaiting(dd, tt, v, {r.kpid})
  BY <1>5, <1>6, <1>9 DEF Resolves, StopsWaiting, rr, ws
<1> HIDE DEF dd
<1>11. Good(tt) /\ SameBudget(dd, tt)
  <2>1. Resolving(dd, v, {})
    BY <1>8
  <2>2. Unheard(dd) \subseteq {v} \X {r.kpid}
    BY <1>7, <1>8
  <2> QED
    BY <1>2, <1>10, <2>1, <2>2, ResolvedGood
<1>12. SameBudget(mm, tt)
  BY <1>7, <1>8, <1>11 DEF SameBudget
<1> QED
  BY <1>1, <1>3, <1>6, <1>11, <1>12, ResolvesEnd

LEMMA SyscallResolveTwoGood ==
  ASSUME InvOf(k, saved, crank), NEW r \in Resolution, SyscallResolveTwo(r)
  PROVE  InvOf(k', saved', crank')
<1>1. PICK s \in Resolution :
        /\ Delivering /\ MayResolve(k, crank.vat, r) /\ r.kpid # s.kpid
        /\ MayResolve(MapResolution(k, crank.vat, r), crank.vat, s)
        /\ SyscallResolve(<<r, s>>)
  BY DEF SyscallResolveTwo
<1> DEFINE v == crank.vat
           rs == <<r, s>>
           ws == KpidsOf(rs)
           m1 == MapResolution(k, v, r)
           mm == MapResolution(m1, v, s)
           rr == DeleteCListEntries(mm, v, ws)
           d1 == ResolveOne(rr, v, r)
           dd == ResolveOne(d1, v, s)
           S == {r.kpid, s.kpid}
<1>2. Good(k) /\ v \in k.live /\ v \in Vats
  BY <1>1, BusyIs
<1>3. /\ Mapped(k, m1, v) /\ Grows(k, m1) /\ KeepsPromises(k, m1)
      /\ r.data.type = "promise" => HasKernelPromise(m1, r.data.id)
      /\ r.data.type = "promise" => r.data.id \in Promises
      /\ r.kpid \in Promises /\ HasKernelPromise(k, r.kpid) /\ k.promises[r.kpid].decider = v
  BY <1>1, <1>2, MapResolutionGood
<1>4. MayResolve(m1, v, s)
  BY <1>1
<1>5. MapAll(k, v, rs) = mm
  BY MapAllTwo
<1> HIDE DEF m1
<1>6. Good(m1) /\ v \in m1.live
  BY <1>2, <1>3 DEF Mapped
<1>7. /\ Mapped(m1, mm, v) /\ Grows(m1, mm) /\ KeepsPromises(m1, mm)
      /\ s.data.type = "promise" => HasKernelPromise(mm, s.data.id)
      /\ s.data.type = "promise" => s.data.id \in Promises
      /\ s.kpid \in Promises /\ HasKernelPromise(m1, s.kpid) /\ m1.promises[s.kpid].decider = v
  BY <1>4, <1>6, MapResolutionGood
<1>8. /\ ws \in Seq(Promises) /\ Len(ws) = 2 /\ ws[1] = r.kpid /\ ws[2] = s.kpid
      /\ {ws[i] : i \in 1..Len(ws)} = S /\ ToSet(ws) = S
  <2>1. DOMAIN rs = 1..2 /\ rs[1] = r /\ rs[2] = s
    OBVIOUS
  <2>2. ws = [i \in 1..2 |-> rs[i].kpid]
    BY <2>1 DEF KpidsOf
  <2> HIDE DEF ws
  <2>3. DOMAIN ws = 1..2 /\ ws[1] = r.kpid /\ ws[2] = s.kpid
    BY <2>1, <2>2
  <2>4. ws = [i \in 1..2 |-> IF i = 1 THEN r.kpid ELSE s.kpid]
    BY <2>1, <2>2
  <2>5. ws \in Seq(Promises) /\ Len(ws) = 2
    BY <1>3, <1>7, <2>4
  <2>6. {ws[i] : i \in 1..2} = S
    <3>1. \A i : i \in 1..2 <=> i = 1 \/ i = 2
      OBVIOUS
    <3> QED
      BY <2>3, <3>1
  <2> QED
    BY <2>3, <2>5, <2>6 DEF ToSet
<1>9. PICK tt : /\ Room(mm.nextKpid - k.nextKpid, 0)
                /\ Resolves(mm, tt, v, rs) /\ Syscall(tt)
  BY <1>1, <1>5, SyscallResolveIs
<1> HIDE DEF mm, ws, rs
<1>10. Mapped(k, mm, v)
  <2>1. k.nextKpid \in Nat /\ m1.nextKpid \in Nat /\ mm.nextKpid \in Nat
    BY <1>2, <1>6, <1>7 DEF Mapped, Good, Base, KernelState
  <2>2. mm.nextKpid >= k.nextKpid
    BY <1>3, <1>7, <2>1 DEF Mapped
  <2> QED
    BY <1>3, <1>7, <2>2 DEF Mapped
<1>11. /\ Resolving(rr, v, S) /\ SameBudget(mm, rr) /\ KeepsPromises(mm, rr)
       /\ Unheard(rr) \subseteq {v} \X S
  <2>1. HasKernelPromise(m1, r.kpid) /\ m1.promises[r.kpid].decider = v
    BY <1>3 DEF Grows, KeepsPromises
  <2>2. HasKernelPromise(mm, r.kpid) /\ mm.promises[r.kpid].decider = v
    BY <1>3, <1>7, <2>1 DEF Grows, KeepsPromises
  <2>3. HasKernelPromise(mm, s.kpid) /\ mm.promises[s.kpid].decider = v
    BY <1>7 DEF Grows, KeepsPromises
  <2>4. \A i \in 1..Len(ws) : HasKernelPromise(mm, ws[i]) /\ mm.promises[ws[i]].decider = v
    <3>1. \A i : i \in 1..2 <=> i = 1 \/ i = 2
      OBVIOUS
    <3> QED
      BY <1>8, <2>2, <2>3, <3>1
  <2>5. Good(mm) /\ v \in mm.live
    BY <1>2, <1>10 DEF Mapped
  <2>6. StartsResolving(mm, rr, v, {ws[i] : i \in 1..Len(ws)})
    BY <1>8, <2>4, <2>5, ResolvingStarts
  <2> QED
    BY <1>8, <2>6 DEF StartsResolving
<1> HIDE DEF rr
<1>12. S \in SUBSET Promises
  BY <1>3, <1>7
<1>13. /\ Resolving(d1, v, S \ {r.kpid}) /\ SameBudget(rr, d1) /\ KeepsPromises(rr, d1)
       /\ Unheard(d1) \subseteq Unheard(rr)
  <2>1. r.data.type = "promise" => HasKernelPromise(rr, r.data.id)
    BY <1>3, <1>7, <1>11 DEF KeepsPromises
  <2>2. r.kpid \in S
    OBVIOUS
  <2> HIDE DEF S
  <2> QED
    BY <1>2, <1>11, <1>12, <2>1, <2>2, ResolveOneGood
<1> HIDE DEF d1
<1>14. /\ Resolving(dd, v, (S \ {r.kpid}) \ {s.kpid}) /\ SameBudget(d1, dd)
       /\ Unheard(dd) \subseteq Unheard(d1)
  <2>1. s.data.type = "promise" => HasKernelPromise(d1, s.data.id)
    BY <1>7, <1>11, <1>13 DEF KeepsPromises
  <2> DEFINE T == S \ {r.kpid}
  <2>2. s.kpid \in T /\ T \in SUBSET Promises
    BY <1>1, <1>12
  <2>3. Resolving(d1, v, T)
    BY <1>13
  <2> HIDE DEF S, T
  <2>4. /\ Resolving(dd, v, T \ {s.kpid}) /\ SameBudget(d1, dd)
        /\ Unheard(dd) \subseteq Unheard(d1)
    BY <1>2, <2>1, <2>2, <2>3, ResolveOneGood
  <2> QED
    BY <2>4 DEF T
<1>15. ResolveAll(rr, v, rs) = dd
  BY ResolveAllTwo DEF rs, d1
<1>16. StopsWaiting(dd, tt, v, S)
  BY <1>8, <1>9, <1>15 DEF Resolves, StopsWaiting, rr, ws
<1> HIDE DEF dd
<1>17. Good(tt) /\ SameBudget(dd, tt)
  <2>1. (S \ {r.kpid}) \ {s.kpid} = {}
    OBVIOUS
  <2>2. Resolving(dd, v, {})
    BY <1>14, <2>1
  <2>3. Unheard(dd) \subseteq {v} \X S
    BY <1>11, <1>13, <1>14
  <2> HIDE DEF S
  <2> QED
    BY <1>2, <1>16, <2>2, <2>3, ResolvedGood
<1>18. SameBudget(mm, tt)
  BY <1>11, <1>13, <1>14, <1>17 DEF SameBudget
<1> QED
  BY <1>1, <1>9, <1>10, <1>17, <1>18, ResolvesEnd

-----------------------------------------------------------------------------
(* The syscalls of vatAdmin.                                               *)

\* One vat less to be told of, one message more.
LEMMA TerminateWithin ==
  ASSUME NEW kk, Base(kk), NEW tt, NEW v, v \in kk.live, v # AdminVat, Terminations,
         TerminateResult(kk, tt, v), NEW n \in Nat, Within(kk, n)
  PROVE  Within(tt, n)
<1>1. /\ kk.nextKpid \in Nat /\ kk.sends \in Nat /\ Upgrading(kk) \in Nat
      /\ Cardinality(kk.live \ {AdminVat}) \in Nat /\ IsFiniteSet(kk.live)
  BY SpareIs
<1>2. /\ tt.live = kk.live \ {v} /\ Upgrading(tt) = Upgrading(kk)
      /\ tt.nextKpid = kk.nextKpid + 1 /\ tt.sends = kk.sends + 1
  BY DEF TerminateResult
<1>3. Cardinality(tt.live \ {AdminVat}) = Cardinality(kk.live \ {AdminVat}) - 1
  <2> DEFINE A == kk.live \ {AdminVat}
  <2>1. IsFiniteSet(A) /\ v \in A /\ tt.live \ {AdminVat} = A \ {v}
    BY <1>1, <1>2, FS_Subset
  <2> HIDE DEF A
  <2>2. Cardinality(A \ {v}) = Cardinality(A) - 1
    BY <2>1, FS_RemoveElement
  <2> QED
    BY <2>1, <2>2 DEF A
<1>4. Spare(tt) = Spare(kk) - 1 /\ Spare(kk) \in Nat
  BY <1>1, <1>2, <1>3 DEF Spare
<1> QED
  BY <1>1, <1>2, <1>4, ConstantsAre DEF Within

\* There is room for the message.
LEMMA TerminateRoom ==
  ASSUME NEW kk, Base(kk), NEW v, v \in kk.live, v # AdminVat, Terminations, NEW n \in Nat, Within(kk, n)
  PROVE  kk.nextKpid \in Promises /\ kk.sends + 1 <= MaxSends
<1>1. /\ kk.nextKpid \in Nat /\ kk.sends \in Nat /\ Upgrading(kk) \in Nat
      /\ Cardinality(kk.live \ {AdminVat}) \in Nat /\ IsFiniteSet(kk.live)
  BY SpareIs
<1>2. Cardinality(kk.live \ {AdminVat}) >= 1
  <2>1. v \in kk.live \ {AdminVat} /\ IsFiniteSet(kk.live \ {AdminVat})
    BY <1>1, FS_Subset
  <2>2. Cardinality(kk.live \ {AdminVat}) # 0
    BY <2>1, FS_EmptySet
  <2> QED
    BY <1>1, <2>2
<1>3. Spare(kk) >= 1 /\ Spare(kk) \in Nat
  BY <1>1, <1>2 DEF Spare
<1> DEFINE x == Spare(kk)
<1>4. kk.nextKpid >= 1 /\ kk.nextKpid + x + n <= NPromises + 1 /\ kk.sends + x + n <= MaxSends
  BY DEF Within
<1>5. x >= 1 /\ x \in Nat
  BY <1>3
<1> HIDE DEF x
<1>6. kk.nextKpid <= NPromises /\ kk.sends + 1 <= MaxSends
  BY <1>1, <1>4, <1>5, ConstantsAre
<1> QED
  BY <1>1, <1>4, <1>6 DEF Promises

LEMMA AdminTerminatesGood ==
  ASSUME InvOf(k, saved, crank), NEW v \in Vats, AdminTerminatesVat(v)
  PROVE  InvOf(k', saved', crank')
<1> DEFINE tt == TerminateVat(k, v)
           o == One(crank.type = "upgrade")
<1>1. /\ Terminations /\ Delivering /\ crank.vat = AdminVat /\ v \in k.live /\ v # AdminVat
      /\ Syscall(tt)
  BY DEF AdminTerminatesVat
<1>2. Good(k) /\ Base(k) /\ Within(k, o) /\ o \in Nat /\ crank.vat \in k.live
  BY <1>1, BusyIs
<1> HIDE DEF o
<1>3. k.nextKpid \in Promises /\ k.sends + 1 <= MaxSends
  BY <1>1, <1>2, TerminateRoom
<1>4. TerminateResult(k, tt, v)
  BY <1>1, <1>2, <1>3, TerminateGood
<1> HIDE DEF tt
<1>5. Within(tt, o)
  BY <1>1, <1>2, <1>4, TerminateWithin
<1>6. Good(tt) /\ crank.vat \in tt.live
  BY <1>1, <1>2, <1>4 DEF TerminateResult
<1> QED
  BY <1>1, <1>5, <1>6, SyscallStaysGood DEF o

UpgradeOf(v) == [type |-> "upgrade-vat", vat |-> v]
Enqueued(kk, e) == [kk EXCEPT !.acceptanceQueue = Append(@, e)]
LEMMA AdminUpgradesGood ==
  ASSUME InvOf(k, saved, crank), NEW v \in Vats, AdminUpgradesVat(v)
  PROVE  InvOf(k', saved', crank')
<1> DEFINE e == UpgradeOf(v)
           tt == Enqueued(k, e)
           o == One(crank.type = "upgrade")
<1>1. /\ Delivering /\ Room(1, 1) /\ Syscall(tt)
  BY DEF AdminUpgradesVat, UpgradeOf, Enqueued
<1>2. /\ Good(k) /\ Base(k) /\ k \in KernelState /\ Within(k, o) /\ o \in Nat /\ crank.vat \in k.live
      /\ Reserved = Spare(k) + o /\ Spare(k) \in Nat /\ k.nextKpid \in Nat /\ k.sends \in Nat
  BY <1>1, BusyIs
<1> HIDE DEF o
<1>3. e \in Event /\ e.type = "upgrade-vat"
  BY DEF Event, UpgradeEvent, UpgradeOf
<1> HIDE DEF e
<1>4. Accepted(k, tt, e) /\ tt.sends = k.sends
  <2> DEFINE n == Append(k.acceptanceQueue, e)
  <2>1. n \in Seq(Event) /\ tt = [k EXCEPT !.acceptanceQueue = n]
    BY <1>2, <1>3 DEF KernelState, Enqueued
  <2> HIDE DEF n, tt
  <2>2. tt \in KernelState /\ tt.acceptanceQueue = n
        /\ tt.promises = k.promises /\ tt.clist = k.clist /\ tt.runQueue = k.runQueue
        /\ tt.nextKpid = k.nextKpid /\ tt.live = k.live /\ tt.terminated = k.terminated
        /\ tt.external = k.external /\ tt.awaiting = k.awaiting /\ tt.failed = k.failed
        /\ tt.sends = k.sends
    BY <1>2, <2>1 DEF KernelState
  <2> QED
    BY <2>2 DEF Accepted, n
<1> HIDE DEF tt
<1>5. \A p \in Promises : Owed(e, p) = 0 /\ Excess(k, p) = 0
  BY <1>2, <1>3 DEF Owed, Good
<1>6. /\ Base(tt)
      /\ \A p \in Promises : Excess(k, p) = Excess(tt, p) + Owed(e, p)
      /\ Orphans(tt) \subseteq Orphans(k)
      /\ Unfit(tt) = Unfit(k) /\ Unheard(tt) \subseteq Unheard(k)
      /\ Early(tt) \subseteq Early(k)
      /\ Upgrading(tt) = Upgrading(k) + 1
      /\ SameButQueues(k, tt)
  <2>1. Ready(k, e) /\ (e.type = "send" => e.number <= tt.sends) /\ k.sends <= tt.sends
    BY <1>2, <1>3, <1>4 DEF Ready
  <2>2. \A p \in Promises : Excess(k, p) >= Owed(e, p)
    BY <1>5
  <2>3. /\ Base(tt)
        /\ \A p \in Promises : Excess(k, p) = Excess(tt, p) + Owed(e, p)
        /\ Orphans(tt) \subseteq {p \in Orphans(k) : ~(e.type = "send" /\ e.result = p)}
        /\ Unfit(tt) = Unfit(k) /\ Unheard(tt) \subseteq Unheard(k)
        /\ Early(tt) \subseteq Early(k) \cup {f \in {e} : e.type = "notify" /\ ~Settled(k, e.kpid)}
        /\ Upgrading(tt) = Upgrading(k) + One(e.type = "upgrade-vat")
        /\ SameButQueues(k, tt)
    BY <1>2, <1>3, <1>4, <2>1, <2>2, AcceptedGood
  <2> QED
    BY <1>3, <2>3 DEF One
<1>7. \A p \in Promises : Excess(tt, p) = 0
  <2>1. SUFFICES ASSUME NEW p \in Promises PROVE Excess(tt, p) = 0
    OBVIOUS
  <2>2. Excess(tt, p) \in Int
    BY <1>6, ExcessType
  <2> QED
    BY <1>5, <1>6, <2>2
<1>8. Good(tt)
  BY <1>2, <1>6, <1>7 DEF Good
<1>9. tt.nextKpid = k.nextKpid /\ tt.live = k.live
  BY <1>4 DEF Accepted
<1>10. Spare(tt) = Spare(k) + 1
  <2>1. Upgrading(k) \in Nat /\ Cardinality(k.live \ {AdminVat}) \in Nat
    BY <1>2, SpareIs
  <2> QED
    BY <1>6, <1>9, <2>1 DEF Spare
<1>11. Within(tt, o)
  <2>1. k.nextKpid + 1 + (Spare(k) + o) <= NPromises + 1 /\ k.sends + 1 + (Spare(k) + o) <= MaxSends
        /\ k.nextKpid >= 1
    BY <1>1, <1>2 DEF Room, Within
  <2> QED
    BY <1>2, <1>4, <1>9, <1>10, <2>1, ConstantsAre DEF Within
<1> QED
  BY <1>1, <1>2, <1>8, <1>9, <1>11, SyscallStaysGood DEF o

-----------------------------------------------------------------------------
(* The end of a delivery.                                                  *)
LEMMA ReportGood ==
  ASSUME crank \in CrankType, NEW kk, Good(kk), Within(kk, One(crank.type = "upgrade"))
  PROVE  Good(ReportUpgrade(kk)) /\ Within(ReportUpgrade(kk), 0)
<1>1. CASE crank.type # "upgrade"
  BY <1>1 DEF ReportUpgrade, One
<1>2. CASE crank.type = "upgrade"
  <2> DEFINE tt == QueueToKref(kk, Root(AdminVat))
  <2>1. /\ kk.nextKpid \in Nat /\ kk.sends \in Nat /\ Spare(kk) \in Nat /\ Base(kk)
    BY SpareIs DEF Good
  <2>2. Within(kk, 1)
    BY <1>2 DEF One
  <2>3. kk.nextKpid >= 1 /\ kk.nextKpid + Spare(kk) + 1 <= NPromises + 1 /\ kk.sends + Spare(kk) + 1 <= MaxSends
    BY <2>2 DEF Within
  <2>4. kk.nextKpid \in Promises /\ kk.sends + 1 <= MaxSends
    <3> DEFINE x == Spare(kk)
    <3>1. x \in Nat /\ kk.nextKpid + x + 1 <= NPromises + 1 /\ kk.sends + x + 1 <= MaxSends
      BY <2>1, <2>3
    <3> HIDE DEF x
    <3>2. kk.nextKpid <= NPromises /\ kk.sends + 1 <= MaxSends
      BY <2>1, <3>1, ConstantsAre
    <3> QED
      BY <2>1, <2>3, <3>2 DEF Promises
  <2>5. KrefResult(kk, tt)
    BY <2>1, <2>4, ConstantsAre, QueueToKrefGood
  <2>6. ReportUpgrade(kk) = tt
    BY <1>2 DEF ReportUpgrade
  <2> HIDE DEF tt
  <2>7. Good(tt)
    BY <2>5 DEF Good, KrefResult, NoWorse
  <2>8. Spare(tt) = Spare(kk)
    BY <2>5 DEF KrefResult, Spare
  <2>9. Within(tt, 0)
    BY <2>1, <2>3, <2>5, <2>8, ConstantsAre DEF Within, KrefResult
  <2> QED
    BY <2>6, <2>7, <2>9
<1> QED
  BY <1>1, <1>2

LEMMA CompleteGood ==
  ASSUME InvOf(k, saved, crank), CompleteDelivery
  PROVE  InvOf(k', saved', crank')
<1> DEFINE tt == ReportUpgrade(k)
<1>1. Delivering /\ FinishCrank(tt)
  BY DEF CompleteDelivery
<1>2. Good(k) /\ crank \in CrankType /\ Within(k, One(crank.type = "upgrade"))
  BY <1>1, BusyIs
<1>3. Good(tt) /\ Within(tt, 0)
  BY <1>2, ReportGood
<1> HIDE DEF tt
<1> QED
  BY <1>1, <1>2, <1>3, FinishGood

\* The vat of a delivery ends.
LEMMA VatEnds ==
  ASSUME crank \in CrankType, Terminations, crank.type # "upgrade", crank.vat # AdminVat,
         NEW kk, Good(kk), crank.vat \in kk.live, Within(kk, 0), FinishCrank(TerminateVat(kk, crank.vat))
  PROVE  InvOf(k', saved', crank')
<1> DEFINE v == crank.vat
           tt == TerminateVat(kk, v)
<1>1. Base(kk) /\ 0 \in Nat
  BY DEF Good
<1>2. kk.nextKpid \in Promises /\ kk.sends + 1 <= MaxSends
  BY <1>1, TerminateRoom
<1>3. TerminateResult(kk, tt, v)
  BY <1>2, TerminateGood
<1>4. FinishCrank(tt)
  OBVIOUS
<1> HIDE DEF tt
<1>5. Within(tt, 0)
  BY <1>1, <1>3, TerminateWithin
<1>6. Good(tt)
  BY <1>3 DEF TerminateResult
<1> QED
  BY <1>4, <1>5, <1>6, FinishGood

LEMMA ExitGood ==
  ASSUME InvOf(k, saved, crank), ExitDelivery
  PROVE  InvOf(k', saved', crank')
<1>1. /\ Terminations /\ Delivering /\ crank.type # "upgrade" /\ crank.vat # AdminVat
      /\ FinishCrank(TerminateVat(k, crank.vat))
  BY DEF ExitDelivery
<1>2. Good(k) /\ crank \in CrankType /\ Within(k, One(crank.type = "upgrade")) /\ crank.vat \in k.live
  BY <1>1, BusyIs
<1>3. Within(k, 0)
  BY <1>1, <1>2 DEF One
<1> QED
  BY <1>1, <1>2, <1>3, VatEnds

LEMMA RollbackGood ==
  ASSUME InvOf(k, saved, crank), Delivering
  PROVE  /\ Good(RollbackCrank) /\ Within(RollbackCrank, One(crank.type = "upgrade"))
         /\ crank.vat \in RollbackCrank.live /\ crank \in CrankType
<1> DEFINE tt == RollbackCrank
<1>1. /\ Good(saved) /\ saved \in KernelState /\ Within(saved, One(crank.type = "upgrade"))
      /\ crank.vat \in saved.live /\ crank \in CrankType
  BY DEF InvOf, Delivering, Good, Base
<1>2. k.maybeFree \in Seq(Promises)
  BY DEF InvOf, Good, Base, KernelState
<1>3. Watches(saved, tt) /\ tt.awaiting = saved.awaiting
  BY <1>1, <1>2, SweepForgotten DEF RollbackCrank
<1> HIDE DEF tt
<1>4. Good(tt) /\ SameBudget(saved, tt)
  BY <1>1, <1>3, WatchesStaysGood
<1>5. Within(tt, One(crank.type = "upgrade")) /\ tt.live = saved.live
  BY <1>1, <1>4, WithinFollows DEF SameBudget
<1> QED
  BY <1>1, <1>4, <1>5 DEF tt

LEMMA AbortGood ==
  ASSUME InvOf(k, saved, crank), AbortDelivery
  PROVE  InvOf(k', saved', crank')
<1> DEFINE tt == RollbackCrank
<1>1. /\ Terminations /\ Delivering /\ crank.type # "upgrade" /\ crank.vat # AdminVat
      /\ FinishCrank(TerminateVat(tt, crank.vat))
  BY DEF AbortDelivery
<1>2. Good(tt) /\ Within(tt, One(crank.type = "upgrade")) /\ crank.vat \in tt.live /\ crank \in CrankType
  BY <1>1, RollbackGood
<1>3. Within(tt, 0)
  BY <1>1, <1>2 DEF One
<1> HIDE DEF tt
<1> QED
  BY <1>1, <1>2, <1>3, VatEnds

LEMMA AbortUpgradeGood ==
  ASSUME InvOf(k, saved, crank), AbortUpgrade
  PROVE  InvOf(k', saved', crank')
<1> DEFINE back == RollbackCrank
           tt == ReportUpgrade(back)
<1>1. Delivering /\ FinishCrank(tt)
  BY DEF AbortUpgrade
<1>2. Good(back) /\ Within(back, One(crank.type = "upgrade")) /\ crank \in CrankType
  BY <1>1, RollbackGood
<1> HIDE DEF back
<1>3. Good(tt) /\ Within(tt, 0)
  BY <1>2, ReportGood
<1> HIDE DEF tt
<1> QED
  BY <1>1, <1>2, <1>3, FinishGood

-----------------------------------------------------------------------------
(* The invariant holds.                                                    *)
LEMMA StepsKeepInv ==
  ASSUME PromisesInv, [Next]_vars
  PROVE  PromisesInv'
<1>0. InvOf(k, saved, crank)
  BY DEF PromisesInv
<1>1. SUFFICES InvOf(k', saved', crank')
  BY DEF PromisesInv
<1>2. CASE UNCHANGED vars
  BY <1>0, <1>2 DEF vars
<1>3. CASE KernelStep
  BY <1>0, <1>3, ProcessAcceptanceGood, CleanupGood, DeliverSendGood, DeliverNotifyGood,
     DeliverUpgradeVatGood DEF KernelStep
<1>4. CASE VatStep
  BY <1>0, <1>4, SyscallSendGood, SyscallSubscribeGood, SyscallResolveOneGood,
     SyscallResolveTwoGood, AdminTerminatesGood, AdminUpgradesGood DEF VatStep
<1>5. CASE EndDelivery
  BY <1>0, <1>5, CompleteGood, ExitGood, AbortGood, AbortUpgradeGood DEF EndDelivery
<1>6. CASE HostStep
  BY <1>0, <1>6, RestartGood, QueueToVatRootGood, KpResolutionGood DEF HostStep
<1> QED
  BY <1>2, <1>3, <1>4, <1>5, <1>6 DEF Next

\* The first state: nothing is queued, and there is no promise.
Empty(kk) ==
  /\ kk \in KernelState /\ kk.failed = FALSE
  /\ \A p \in Promises : kk.promises[p] = Absent /\ kk.external[p] = 0
  /\ \A v \in Vats : kk.clist[v] = {} /\ kk.awaiting[v] = {}
  /\ kk.acceptanceQueue = <<>> /\ kk.runQueue = <<>> /\ kk.terminated = <<>>
  /\ kk.nextKpid = 1 /\ kk.sends = 0 /\ kk.live = Vats

LEMMA InitIsEmpty ==
  ASSUME Init
  PROVE  Empty(k)
<1>1. Absent \in KernelPromise
  <2>1. <<>> \in Seq(Send) /\ 0 \in Nat
    OBVIOUS
  <2> QED
    BY <2>1, NoSlotIs DEF Absent, KernelPromise, PromiseStates
<1>2. <<>> \in Seq(Event) /\ <<>> \in Seq(Vats) /\ <<>> \in Seq(Promises) /\ 0 \in Nat /\ 1 \in Nat
  OBVIOUS
<1> DEFINE ps == [p \in Promises |-> Absent]
           cs == [v \in Vats |-> {}]
           es == [p \in Promises |-> 0]
<1>3. /\ ps \in [Promises -> KernelPromise] /\ cs \in [Vats -> SUBSET Promises]
      /\ es \in [Promises -> Nat]
      /\ \A p \in Promises : ps[p] = Absent /\ es[p] = 0
      /\ \A v \in Vats : cs[v] = {}
  BY <1>1
<1>4. k = [ promises |-> ps, clist |-> cs,
           acceptanceQueue |-> <<>>, runQueue |-> <<>>, nextKpid |-> 1,
           live |-> Vats, terminated |-> <<>>, sends |-> 0, hostSends |-> 0,
           external |-> es, awaiting |-> cs,
           handedOn |-> {}, maybeFree |-> <<>>, failed |-> FALSE ]
  BY DEF Init
<1> HIDE DEF ps, cs, es
<1>5. k \in KernelState
  BY <1>2, <1>3, <1>4 DEF KernelState
<1> QED
  BY <1>3, <1>4, <1>5 DEF Empty

LEMMA EmptyQueues ==
  ASSUME NEW kk, Empty(kk)
  PROVE  /\ \A i \in QueueIds : Queues(kk)[i] = <<>>
         /\ DOMAIN Queues(kk) = QueueIds
         /\ Unique(Queues(kk)) /\ Family(Queues(kk))
         /\ \A type : Of(Queues(kk), type) = {}
         /\ \A S : Tally(Queues(kk), S) = 0
<1>1. kk \in KernelState
  BY DEF Empty
<1>2. \A i \in QueueIds : Queues(kk)[i] = <<>>
  <2>1. SUFFICES ASSUME NEW i \in QueueIds PROVE Queues(kk)[i] = <<>>
    OBVIOUS
  <2>2. i = -1 \/ i = 0 \/ i \in Promises
    BY ConstantsAre DEF QueueIds, Promises
  <2> QED
    BY <1>1, <2>2, QueuesAre DEF Empty, Absent
<1>3. DOMAIN Queues(kk) = QueueIds
  BY DEF Queues
<1>4. Unique(Queues(kk))
  BY <1>2, <1>3 DEF Unique
<1>5. \A type : Of(Queues(kk), type) = {}
  <2>1. \A i \in QueueIds : ToSet(Queues(kk)[i]) = {}
    BY <1>2 DEF ToSet
  <2> QED
    BY <1>3, <2>1 DEF Of
<1>6. \A S : Tally(Queues(kk), S) = 0
  <2>1. SUFFICES ASSUME NEW S PROVE Tally(Queues(kk), S) = 0
    OBVIOUS
  <2>2. CountIn(<<>>, S) = 0
    <3>1. <<>> \in Seq({}) /\ S \cap {} = {}
      OBVIOUS
    <3> QED
      BY <3>1, CountNone
  <2> QED
    BY <1>2, <2>2, ConstantsAre DEF Tally
<1> QED
  BY <1>1, <1>2, <1>3, <1>4, <1>5, <1>6, FamilyIs

LEMMA EmptyRefs ==
  ASSUME NEW kk, Empty(kk), NEW p \in Promises
  PROVE  Excess(kk, p) = 0
<1>1. Cardinality({}) = 0
  BY FS_EmptySet
<1>2. HeldBy(kk, p) = 0
  <2>1. {v \in Vats : p \in kk.clist[v]} = {}
    BY DEF Empty
  <2> QED
    BY <1>1, <2>1 DEF HeldBy
<1>3. DataRefs(kk, p) = 0
  <2>1. {q \in Promises : kk.promises[q].data = Promise(p)} = {}
    <3>1. \A q \in Promises : kk.promises[q].data = NoSlot
      BY DEF Empty, Absent
    <3> QED
      BY <3>1, NoSlotIs
  <2> QED
    BY <1>1, <2>1 DEF DataRefs
<1>4. QueueRefs(Queues(kk), p) = 0
  <2>1. Of(Queues(kk), "send") = {} /\ Tally(Queues(kk), NoticesOf(p)) = 0
    BY EmptyQueues
  <2>2. TargetRefs({}, p) = 0 /\ ArgRefs({}, p) = 0 /\ ResultRefs({}, p) = 0
    <3>1. {e \in {} : e.target = Promise(p)} = {} /\ {e \in {} : e.arg = Promise(p)} = {}
          /\ {e \in {} : e.result = p} = {}
      OBVIOUS
    <3> QED
      BY <1>1, <3>1 DEF TargetRefs, ArgRefs, ResultRefs
  <2> QED
    BY <2>1, <2>2 DEF QueueRefs
<1>5. kk.external[p] = 0 /\ kk.promises[p].refCount = 0
  BY DEF Empty, Absent
<1> QED
  BY <1>2, <1>3, <1>4, <1>5 DEF Refs, Excess

LEMMA EmptyGood ==
  ASSUME NEW kk, Empty(kk)
  PROVE  Good(kk) /\ Within(kk, 0)
<1>1. /\ kk \in KernelState /\ kk.failed = FALSE /\ Unique(Queues(kk))
      /\ Sends(kk) = {} /\ Notices(kk) = {} /\ Upgrading(kk) = 0
  BY EmptyQueues DEF Empty, Sends, Notices, Upgrading
<1>2. \A p \in Promises : Excess(kk, p) = 0
  BY EmptyRefs
<1>3. \A p \in Promises : /\ kk.promises[p].state = "absent" /\ kk.promises[p].refCount = 0
                          /\ kk.promises[p].data = NoSlot /\ kk.promises[p].decider = NoVat
                          /\ kk.promises[p].subscribers = {} /\ kk.promises[p].queue = <<>>
  BY DEF Empty, Absent
<1>4. TableOK(kk)
  BY <1>3 DEF TableOK
<1>5. Numbered(kk) /\ Resolvers(kk)
  BY <1>1 DEF Numbered, Resolvers
<1>6. Ended(kk)
  BY DEF Ended, Empty
<1>7. Base(kk)
  BY <1>1, <1>2, <1>4, <1>5, <1>6 DEF Base
<1>8. Orphans(kk) = {} /\ Early(kk) = {}
  BY <1>1, <1>3 DEF Orphans, Early, Undecided, Unresolved
<1>9. Unfit(kk) = {}
  BY <1>3 DEF Unfit, Decided
<1>10. Unheard(kk) = {}
  BY DEF Unheard, Empty
<1>11. Within(kk, 0)
  <2>1. Cardinality(Vats \ {AdminVat}) = NVats - 1
    <3>1. IsFiniteSet(Vats) /\ AdminVat \in Vats
      BY ConstantsAre
    <3>2. Cardinality(Vats) = NVats
      <4>1. 1 \in Int /\ NVats \in Int /\ 1 <= NVats
        BY SizesAssumption
      <4>2. Cardinality(1..NVats) = NVats - 1 + 1
        BY <4>1, FS_Interval
      <4> QED
        BY <4>1, <4>2 DEF Vats
    <3> QED
      BY <3>1, <3>2, FS_RemoveElement
  <2>2. kk.live = Vats /\ kk.nextKpid = 1 /\ kk.sends = 0
    BY DEF Empty
  <2>3. NVats \in Nat \ {0} /\ NPromises \in Nat /\ MaxSends \in Nat
    BY SizesAssumption
  <2>4. Spare(kk) = IF Terminations THEN NVats - 1 ELSE 0
    BY <1>1, <2>1, <2>2, <2>3 DEF Spare
  <2> QED
    BY <2>2, <2>3, <2>4, RoomAssumption DEF Within
<1> QED
  BY <1>2, <1>7, <1>8, <1>9, <1>10, <1>11 DEF Good

LEMMA InitGood == Init => PromisesInv
<1>1. SUFFICES ASSUME Init PROVE InvOf(k, saved, crank)
  BY DEF PromisesInv
<1>2. Good(k) /\ Within(k, 0) /\ saved = k
  BY <1>1, InitIsEmpty, EmptyGood DEF Init
<1>3. crank \in CrankType /\ crank.type = "idle"
  <2>1. 0 \in 0..MaxSyscalls
    BY SizesAssumption
  <2> QED
    BY <1>1, <2>1 DEF Init, CrankType
<1>4. One(crank.type = "upgrade") = 0
  BY <1>3 DEF One
<1> QED
  BY <1>2, <1>3, <1>4 DEF InvOf

\* The inductive invariant: between two steps of the kernel nothing is left to
\* put right, in the state and in the savepoint a failed delivery goes back to
\* (abortCrank), what the delivery in progress still has to do is known, and
\* there is room for what vatAdmin is yet to be told (terminateVat).
THEOREM PromisesInvHolds == Spec => []PromisesInv
<1>1. PromisesInv /\ [Next]_vars => PromisesInv'
  BY StepsKeepInv
<1> QED
  BY InitGood, <1>1, PTL DEF Spec

-----------------------------------------------------------------------------
(* What the invariant says in the words of the properties.                 *)
LEMMA QueuedIs ==
  ASSUME NEW kk, Base(kk)
  PROVE  QueuedSends(kk) = Sends(kk) /\ Notifications(kk) = Notices(kk)
<1>1. kk \in KernelState
  BY DEF Base
<1>2. /\ DOMAIN Queues(kk) = QueueIds
      /\ Queues(kk)[0] = kk.acceptanceQueue /\ Queues(kk)[-1] = kk.runQueue
      /\ \A p \in Promises : Queues(kk)[p] = kk.promises[p].queue /\ kk.promises[p].queue \in Seq(Send)
  BY <1>1, QueuesAre
<1>3. \A i : i \in QueueIds <=> i = 0 \/ i = -1 \/ i \in Promises
  BY ConstantsAre DEF QueueIds, Promises
<1>4. \A p \in Promises : \A e \in ToSet(kk.promises[p].queue) : e.type = "send"
  <2>1. SUFFICES ASSUME NEW p \in Promises, NEW e \in ToSet(kk.promises[p].queue) PROVE e.type = "send"
    OBVIOUS
  <2>2. e \in Send
    BY <1>2, <2>1 DEF ToSet
  <2> QED
    BY <2>2 DEF Send
<1>5. \A e : e \in UNION {ToSet(Queues(kk)[i]) : i \in DOMAIN Queues(kk)}
               <=> e \in ToSet(kk.acceptanceQueue) \/ e \in ToSet(kk.runQueue)
                   \/ \E p \in Promises : e \in ToSet(kk.promises[p].queue)
  BY <1>2, <1>3
<1>6. QueuedSends(kk) = Sends(kk)
  BY <1>4, <1>5 DEF QueuedSends, QueuedEvents, Sends, Of
<1>7. Notifications(kk) = Notices(kk)
  BY <1>4, <1>5 DEF Notifications, QueuedEvents, Notices, Of
<1> QED
  BY <1>6, <1>7

LEMMA ReferencesAre ==
  ASSUME NEW kk, Base(kk), NEW p \in Promises
  PROVE  References(kk, p) = Refs(kk, p)
<1>1. kk \in KernelState /\ Family(Queues(kk))
  BY FamilyIs DEF Base, Numbered
<1>2. QueuedSends(kk) = Sends(kk)
  BY QueuedIs
<1>3. Queues(kk)[0] = kk.acceptanceQueue /\ Queues(kk)[-1] = kk.runQueue
  BY <1>1, QueuesAre
<1>4. CountNotifications(kk, p) = Tally(Queues(kk), NoticesOf(p))
  BY <1>3 DEF CountNotifications, Tally, NoticesOf
<1> DEFINE a == HeldBy(kk, p)
           b == TargetRefs(Sends(kk), p)
           c == ArgRefs(Sends(kk), p)
           d == ResultRefs(Sends(kk), p)
           n == Tally(Queues(kk), NoticesOf(p))
           x == kk.external[p]
           y == DataRefs(kk, p)
<1>5. References(kk, p) = a + b + c + d + n + x + y
  BY <1>2, <1>4 DEF References, HeldBy, TargetRefs, ArgRefs, ResultRefs, DataRefs
<1>6. Refs(kk, p) = a + (b + c + d + n) + x + y
  BY DEF Refs, QueueRefs, Sends
<1>7. a \in Nat /\ b \in Nat /\ c \in Nat /\ d \in Nat /\ x \in Nat /\ y \in Nat
  BY <1>1, QueueRefsType, RefsType DEF Base, Numbered, Sends
<1>8. n \in Nat
  BY <1>1, QueueRefsType DEF Tally
<1> HIDE DEF a, b, c, d, n, x, y
<1> QED
  BY <1>5, <1>6, <1>7, <1>8

LEMMA InvMeans ==
  ASSUME PromisesInv
  PROVE  TypeOK /\ KernelNeverFails /\ PromiseRefCountsExact /\ OneResolver /\ NoLostNotification
<1>1. Good(k) /\ Good(saved) /\ crank \in CrankType
  BY DEF PromisesInv, InvOf
<1>2. Base(k) /\ k \in KernelState /\ saved \in KernelState
  BY <1>1 DEF Good, Base
<1>3. TypeOK
  BY <1>1, <1>2 DEF TypeOK
<1>4. KernelNeverFails
  BY <1>2 DEF KernelNeverFails, Base
<1>5. QueuedSends(k) = Sends(k) /\ Notifications(k) = Notices(k)
  BY <1>2, QueuedIs
<1>6. PromiseRefCountsExact
  <2>1. SUFFICES ASSUME NEW p \in Promises PROVE k.promises[p].refCount = References(k, p)
    BY DEF PromiseRefCountsExact
  <2>2. Refs(k, p) \in Nat /\ k.promises[p].refCount = Refs(k, p) + Excess(k, p)
    BY <1>2, ExcessType
  <2>3. Excess(k, p) = 0
    BY <1>1 DEF Good
  <2> QED
    BY <1>2, <2>2, <2>3, ReferencesAre
<1>7. OneResolver
  <2>1. SUFFICES ASSUME NEW p \in Promises
        PROVE  LET v == k.promises[p].decider
               IN /\ Unresolved(k, p) =>
                       Cardinality({e \in Sends(k) : e.result = p}) + (IF v = NoVat THEN 0 ELSE 1) = 1
                  /\ v # NoVat => v \in k.live /\ p \in k.clist[v]
    BY <1>5 DEF OneResolver
  <2> DEFINE v == k.promises[p].decider
             R == {e \in Sends(k) : e.result = p}
  <2>2. v \in Vats \cup {NoVat}
    BY <1>2 DEF KernelState, KernelPromise
  <2>3. v # NoVat => v \in k.live /\ p \in k.clist[v]
    <3>1. SUFFICES ASSUME v # NoVat PROVE v \in k.live /\ p \in k.clist[v]
      OBVIOUS
    <3>2. <<v, p>> \in Vats \X Promises /\ Decided(k, v, p)
      BY <2>2, <3>1 DEF Decided
    <3> QED
      BY <1>1, <3>2 DEF Good, Unfit
  <2>4. ASSUME Unresolved(k, p), v # NoVat PROVE Cardinality(R) = 0
    <3>1. R = {}
      <4>1. SUFFICES ASSUME NEW e \in R PROVE FALSE
        OBVIOUS
      <4>2. Undecided(k, p)
        BY <1>2, <4>1, ConstantsAre DEF Base, Resolvers
      <4> QED
        BY <2>4, <4>2 DEF Undecided
    <3> QED
      BY <3>1, FS_EmptySet
  <2>5. ASSUME Unresolved(k, p), v = NoVat PROVE Cardinality(R) = 1
    <3>1. PICK e \in Sends(k) : e.result = p
      BY <1>1, <2>5 DEF Good, Orphans, Undecided
    <3>2. \A f \in Sends(k) : f.result = p => f = e
      BY <1>2, <3>1, ConstantsAre DEF Base, Resolvers
    <3>3. R = {e}
      BY <3>1, <3>2
    <3> QED
      BY <3>3, FS_Singleton
  <2> HIDE DEF v, R
  <2>6. Unresolved(k, p) => Cardinality(R) + (IF v = NoVat THEN 0 ELSE 1) = 1
    BY <2>4, <2>5
  <2> QED
    BY <2>3, <2>6 DEF v, R
<1>8. NoLostNotification
  <2>1. SUFFICES ASSUME NEW v \in k.live, NEW p \in k.awaiting[v]
        PROVE  Told(k, v, p)
    BY <1>5 DEF NoLostNotification, Told
  <2>2. v \in Vats /\ p \in Promises
    BY <1>2 DEF KernelState
  <2>3. ~Told(k, v, p) => <<v, p>> \in Unheard(k)
    BY <2>2 DEF Unheard
  <2> QED
    BY <1>1, <2>3 DEF Good
<1> QED
  BY <1>3, <1>4, <1>6, <1>7, <1>8

\* The kernel state has its type: what kernelPromise rows, c-lists and the
\* queues of the kernelKeeper hold is what its readers expect, whatever the
\* number of vats, of promises and of messages.
THEOREM TypeOKHolds == Spec => []TypeOK
BY PromisesInvHolds, InvMeans, PTL

\* No throw of the kernel's own code is reached: no count is decremented below
\* zero (decrementRefCount), nothing but an unresolved promise is decided,
\* resolved or sent a message to (setDecider, doResolve,
\* addMessageToPromiseQueue), a message to a promise goes to the vat that
\* decides it (translateMessage), and no notify is spurious (processNotify).
THEOREM KernelNeverFailsHolds == Spec => []KernelNeverFails
BY PromisesInvHolds, InvMeans, PTL

\* The refcount of a promise is the number of references to it from c-lists,
\* queues, resolution data and pins (incrementRefCount, decrementRefCount), so
\* none is deleted while it is referred to and none is kept for nothing.
THEOREM PromiseRefCountsExactHolds == Spec => []PromiseRefCountsExact
BY PromisesInvHolds, InvMeans, PTL

\* An unresolved promise has one resolver: the live vat that decides it, with
\* the promise in its c-list, or the one queued send whose result it is.
THEOREM OneResolverHolds == Spec => []OneResolver
BY PromisesInvHolds, InvMeans, PTL

\* A live vat that waits for a promise is among its subscribers, or has its
\* notification on a queue (subscribe, resolveKernelPromise, notify).
THEOREM NoLostNotificationHolds == Spec => []NoLostNotification
BY PromisesInvHolds, InvMeans, PTL

=============================================================================

-------------------------- MODULE EvalHistoryProofs --------------------------
(***************************************************************************)
(* EvalHistory for every number of scores, versions, decisions and faults, *)
(* and every size of the rings the assumptions allow.                      *)
(***************************************************************************)
EXTENDS EvalHistory, SequenceTheorems, FiniteSetTheorems, WellFoundedInduction, TLAPS

(***************************************************************************)
(* Induction over the natural numbers, of a set instead of a predicate.    *)
(***************************************************************************)

\* The loops count up from zero, and this is what is known of a count once it is
\* known of zero and passes from each number to the next.
LEMMA SetInduction ==
    ASSUME NEW T, 0 \in T, \A n \in Nat : n \in T => n + 1 \in T
    PROVE  Nat \subseteq T
<1>. DEFINE U == Nat \ T
<1>. DEFINE R == OpToRel(<, Nat)
<1>1. SUFFICES ASSUME U # {} PROVE FALSE
  OBVIOUS
<1>2. IsWellFoundedOn(R, Nat)
  BY NatLessThanWellFounded
<1>3. \A x, y \in Nat : x < y => <<x, y>> \in R
  BY DEF OpToRel
<1>4. U \subseteq Nat
  OBVIOUS
<1>. HIDE DEF R, U
<1>5. PICK x \in U : \A y \in U : ~(<<y, x>> \in R)
  BY <1>1, <1>2, <1>4, WFMin
<1>6. x # 0
  BY <1>5 DEF U
<1>7. x - 1 \in Nat /\ x - 1 < x /\ x \in Nat
  BY <1>5, <1>6 DEF U
<1>8. x - 1 \in T
  BY <1>7, <1>5, <1>3 DEF U
<1>9. x \in T
  BY <1>7, <1>8
<1>. QED
  BY <1>9, <1>5 DEF U

\* The same for the turns of a loop that ends after n of them.
LEMMA TurnInduction ==
    ASSUME NEW n \in Nat, NEW T, 0 \in T, \A k \in 1..n : k - 1 \in T => k \in T
    PROVE  0..n \subseteq T
<1>. DEFINE U == {k \in Nat : k <= n => k \in T}
<1>1. 0 \in U
  OBVIOUS
<1>2. \A k \in Nat : k \in U => k + 1 \in U
  <2>. SUFFICES ASSUME NEW k \in Nat, k \in U, k + 1 <= n PROVE k + 1 \in T
    OBVIOUS
  <2>1. k \in T /\ k + 1 \in 1..n /\ (k + 1) - 1 = k
    OBVIOUS
  <2>. QED
    BY <2>1
<1>. HIDE DEF U
<1>3. Nat \subseteq U
  BY <1>1, <1>2, SetInduction
<1>. QED
  BY <1>3 DEF U

\* g holds what a loop of n turns computes: first, then a step at each turn.
Loop(g, S, n, first, step) ==
    /\ g \in [0..n -> S] /\ g[0] = first
    /\ \A k \in 1..n : g[k] = step[<<k, g[k - 1]>>]

\* A loop with a first value and a step from each turn to the next computes
\* something at every turn.
LEMMA LoopRuns ==
    ASSUME NEW S, NEW n \in Nat, NEW first \in S, NEW step \in [(1..n) \X S -> S]
    PROVE  \E g : Loop(g, S, n, first, step)
<1>. DEFINE Run(m, g) == Loop(g, S, m, first, step)
<1>. USE DEF Loop
<1>. DEFINE T == {m \in Nat : \E g : Run(m, g)}
<1>1. 0 \in T
  <2>. DEFINE g == [k \in 0..0 |-> first]
  <2>1. Run(0, g)
    OBVIOUS
  <2>. QED
    BY <2>1
<1>2. \A m \in 1..n : m - 1 \in T => m \in T
  <2>. SUFFICES ASSUME NEW m \in 1..n, m - 1 \in T PROVE m \in T
    OBVIOUS
  <2>1. PICK g : Run(m - 1, g)
    OBVIOUS
  <2>. DEFINE next == step[<<m, g[m - 1]>>]
  <2>. DEFINE h == [k \in 0..m |-> IF k = m THEN next ELSE g[k]]
  <2>2. g[m - 1] \in S
    BY <2>1
  <2>3. next \in S
    BY <2>2
  <2>4. h \in [0..m -> S] /\ h[0] = first
    BY <2>1, <2>3
  <2>5. ASSUME NEW k \in 1..m PROVE h[k] = step[<<k, h[k - 1]>>]
    <3>1. CASE k = m
      <4>1. m \in 0..m /\ m - 1 \in 0..m /\ m - 1 # m
        OBVIOUS
      <4>2. h[m] = next /\ h[m - 1] = g[m - 1]
        BY <4>1
      <4>. QED
        BY <4>2, <3>1
    <3>2. CASE k # m
      <4>1. k \in 1..(m - 1) /\ k - 1 # m /\ k - 1 \in 0..m /\ k \in 0..m
        BY <3>2
      <4>2. h[k] = g[k] /\ h[k - 1] = g[k - 1]
        BY <4>1, <3>2
      <4>. QED
        BY <4>1, <4>2, <2>1
    <3>. QED
      BY <3>1, <3>2
  <2>6. Run(m, h)
    BY <2>4, <2>5
  <2>. HIDE DEF h, Run
  <2>. QED
    BY <2>6
<1>. HIDE DEF T
<1>3. n \in T
  BY <1>1, <1>2, TurnInduction
<1>. QED
  BY <1>3 DEF T

(***************************************************************************)
(* Sums.                                                                   *)
(***************************************************************************)

\* The running sums a loop over seq passes through.
LEMMA TotalRuns ==
    ASSUME NEW s \in Seq(Int)
    PROVE  \E g \in [0..Len(s) -> Int] :
               /\ g[0] = 0 /\ \A k \in 1..Len(s) : g[k] = g[k - 1] + s[k]
               /\ Total(s) = g[Len(s)]
<1>. DEFINE n == Len(s)
<1>. DEFINE Sums(f) == f = [k \in 0..n |-> IF k = 0 THEN 0 ELSE f[k - 1] + s[k]]
<1>. DEFINE step == [p \in (1..n) \X Int |-> p[2] + s[p[1]]]
<1>1. n \in Nat /\ \A k \in 1..n : s[k] \in Int
  OBVIOUS
<1>2. step \in [(1..n) \X Int -> Int]
  BY <1>1
<1>3. \A k \in 1..n, x \in Int : step[<<k, x>>] = x + s[k]
  OBVIOUS
<1>. HIDE DEF step, n
<1>4. PICK g \in [0..n -> Int] : g[0] = 0 /\ \A k \in 1..n : g[k] = step[<<k, g[k - 1]>>]
  <2>1. 0 \in Int
    OBVIOUS
  <2>2. \E g : Loop(g, Int, n, 0, step)
    BY <1>1, <1>2, <2>1, LoopRuns
  <2>. QED
    BY <2>2 DEF Loop
<1>5. \A k \in 1..n : g[k] = g[k - 1] + s[k]
  <2>. SUFFICES ASSUME NEW k \in 1..n PROVE g[k] = g[k - 1] + s[k]
    OBVIOUS
  <2>1. k - 1 \in 0..n
    BY <1>1
  <2>2. g[k - 1] \in Int
    BY <2>1, <1>4
  <2>. QED
    BY <2>2, <1>3, <1>4
<1>6. Sums(g)
  BY <1>1, <1>4, <1>5
<1>. DEFINE c == CHOOSE f : Sums(f)
<1>7. Sums(c)
  <2>. HIDE DEF Sums
  <2>. QED
    BY <1>6, Zenon
<1>8. Total(s) = c[n]
  BY Zenon DEF Total, n
<1>. HIDE DEF c
<1>9. c[0] = 0 /\ \A k \in 1..n : c[k] = c[k - 1] + s[k]
  BY <1>7, <1>1
<1>. DEFINE T == {k \in 0..n : c[k] = g[k]}
<1>10. 0..n \subseteq T
  <2>1. 0 \in T
    BY <1>1, <1>4, <1>9
  <2>2. \A k \in 1..n : k - 1 \in T => k \in T
    BY <1>1, <1>5, <1>9
  <2>. HIDE DEF T
  <2>. QED
    BY <2>1, <2>2, <1>1, TurnInduction
<1>11. c[n] = g[n]
  BY <1>10, <1>1
<1>. QED
  BY <1>4, <1>5, <1>8, <1>11 DEF n

\* A sum of integers is one.
LEMMA TotalType ==
    ASSUME NEW s \in Seq(Int)
    PROVE  Total(s) \in Int
<1>1. PICK g \in [0..Len(s) -> Int] : Total(s) = g[Len(s)]
  BY TotalRuns
<1>2. Len(s) \in 0..Len(s)
  OBVIOUS
<1>. QED
  BY <1>1, <1>2

\* What is larger place by place has the larger sum.
LEMMA TotalMonotone ==
    ASSUME NEW s \in Seq(Int), NEW r \in Seq(Int), Len(s) = Len(r),
           \A k \in 1..Len(s) : s[k] <= r[k]
    PROVE  Total(s) <= Total(r)
<1>. DEFINE n == Len(s)
<1>1. PICK g \in [0..n -> Int] : /\ g[0] = 0 /\ \A k \in 1..n : g[k] = g[k - 1] + s[k]
                                 /\ Total(s) = g[n]
  BY TotalRuns
<1>2. PICK h \in [0..n -> Int] : /\ h[0] = 0 /\ \A k \in 1..n : h[k] = h[k - 1] + r[k]
                                 /\ Total(r) = h[n]
  BY TotalRuns
<1>3. n \in Nat /\ \A k \in 1..n : s[k] \in Int /\ r[k] \in Int /\ s[k] <= r[k]
  OBVIOUS
<1>. HIDE DEF n
<1>. DEFINE T == {k \in 0..n : g[k] <= h[k]}
<1>4. 0 \in T
  BY <1>1, <1>2, <1>3
<1>5. \A k \in 1..n : k - 1 \in T => k \in T
  <2>. SUFFICES ASSUME NEW k \in 1..n, k - 1 \in T PROVE k \in T
    OBVIOUS
  <2>1. k \in 0..n /\ k - 1 \in 0..n
    BY <1>3
  <2>2. g[k - 1] \in Int /\ h[k - 1] \in Int /\ g[k - 1] <= h[k - 1]
    BY <2>1
  <2>3. g[k] = g[k - 1] + s[k] /\ h[k] = h[k - 1] + r[k]
    BY <1>1, <1>2
  <2>4. s[k] \in Int /\ r[k] \in Int /\ s[k] <= r[k]
    BY <1>3
  <2>5. g[k] <= h[k]
    BY <2>2, <2>3, <2>4
  <2>. QED
    BY <2>1, <2>5
<1>6. 0..n \subseteq T
  <2>. HIDE DEF T
  <2>. QED
    BY <1>3, <1>4, <1>5, TurnInduction
<1>. QED
  BY <1>1, <1>2, <1>3, <1>6

\* What has the same value c on a set of places, and 0 elsewhere, adds up to c times
\* their number.
LEMMA TotalOn ==
    ASSUME NEW n \in Nat, NEW side \in SUBSET (1..n), NEW c \in Int
    PROVE  Total([k \in 1..n |-> IF k \in side THEN c ELSE 0]) = c * Cardinality(side)
<1>. DEFINE s == [k \in 1..n |-> IF k \in side THEN c ELSE 0]
<1>1. s \in Seq(Int) /\ Len(s) = n
  OBVIOUS
<1>2. PICK g \in [0..n -> Int] : /\ g[0] = 0 /\ \A k \in 1..n : g[k] = g[k - 1] + s[k]
                                 /\ Total(s) = g[n]
  BY <1>1, TotalRuns
<1>. DEFINE T == {k \in 0..n : g[k] = c * Cardinality(side \cap 1..k)}
<1>3. 0 \in T
  <2>1. side \cap 1..0 = {}
    OBVIOUS
  <2>2. Cardinality(side \cap 1..0) = 0
    BY <2>1, FS_EmptySet
  <2>. QED
    BY <2>2, <1>2
<1>4. \A k \in 1..n : k - 1 \in T => k \in T
  <2>. SUFFICES ASSUME NEW k \in 1..n, k - 1 \in T PROVE k \in T
    OBVIOUS
  <2>. DEFINE before == side \cap 1..(k - 1)
  <2>1. IsFiniteSet(before) /\ Cardinality(before) \in Nat
    <3>1. IsFiniteSet(1..(k - 1))
      BY FS_Interval
    <3>2. before \subseteq 1..(k - 1)
      OBVIOUS
    <3>3. IsFiniteSet(before)
      BY <3>1, <3>2, FS_Subset
    <3>. QED
      BY <3>3, FS_CardinalityType
  <2>2. g[k] = g[k - 1] + s[k] /\ g[k - 1] = c * Cardinality(before) /\ g[k - 1] \in Int
    BY <1>2
  <2>3. CASE k \in side
    <3>1. side \cap 1..k = before \cup {k} /\ k \notin before
      BY <2>3
    <3>2. Cardinality(before \cup {k}) = Cardinality(before) + 1
      BY <2>1, <3>1, FS_AddElement
    <3>3. s[k] = c
      BY <2>3
    <3>4. c * (Cardinality(before) + 1) = c * Cardinality(before) + c
      BY <2>1
    <3>5. g[k] = c * Cardinality(side \cap 1..k)
      BY <2>2, <3>1, <3>2, <3>3, <3>4
    <3>. QED
      BY <3>5
  <2>4. CASE k \notin side
    <3>1. side \cap 1..k = before
      BY <2>4
    <3>2. s[k] = 0
      BY <2>4
    <3>. HIDE DEF s, before
    <3>3. g[k] = g[k - 1]
      BY <2>2, <3>2
    <3>4. g[k] = c * Cardinality(side \cap 1..k)
      BY <2>2, <3>1, <3>3
    <3>. QED
      BY <3>4
  <2>. QED
    BY <2>3, <2>4
<1>5. 0..n \subseteq T
  <2>. HIDE DEF T
  <2>. QED
    BY <1>3, <1>4, TurnInduction, Zenon
<1>6. side \cap 1..n = side
  <2>. HIDE DEF T, s
  <2>. QED
    OBVIOUS
<1>7. n \in 0..n
  OBVIOUS
<1>. QED
  BY <1>2, <1>5, <1>6, <1>7

\* n times the same value add up to n times it.
LEMMA TotalConstant ==
    ASSUME NEW s \in Seq(Int), NEW c \in Int, \A k \in 1..Len(s) : s[k] = c
    PROVE  Total(s) = c * Len(s)
<1>. DEFINE n == Len(s)
<1>. DEFINE r == [k \in 1..n |-> IF k \in 1..n THEN c ELSE 0]
<1>1. n \in Nat /\ s = r
  OBVIOUS
<1>2. Cardinality(1..n) = n
  BY <1>1, FS_Interval
<1>3. Total(r) = c * Cardinality(1..n)
  BY <1>1, TotalOn
<1>. HIDE DEF r
<1>. QED
  BY <1>1, <1>2, <1>3

(***************************************************************************)
(* The ring.                                                               *)
(***************************************************************************)

\* What SizesAssumption says of the query and the ring.
LEMMA Sizes ==
    /\ QueryLimit \in Nat /\ QueryLimit >= 1
    /\ MaxEvalHistory \in Nat /\ MaxEvalHistory >= 2 * QueryLimit - 1
    /\ SampleSize \in Nat /\ SampleSize >= 1
    /\ MinSnapshots \in Nat /\ MinSnapshots >= 1
    /\ MaxSnapshots \in Nat /\ MaxSnapshots >= 1
    /\ TrendWindow \in Nat /\ TrendWindow >= 1
    /\ MinSide \in Nat /\ MinSide >= 1
  BY SizesAssumption

\* The n last elements are those of the sequence, in its order.
LEMMA LastOfElements ==
    ASSUME NEW S, NEW s \in Seq(S), NEW n \in Nat, n >= 1
    PROVE  /\ LastOf(s, n) \in Seq(S)
           /\ Len(LastOf(s, n)) = IF Len(s) > n THEN n ELSE Len(s)
           /\ \A k \in 1..Len(LastOf(s, n)) :
                  /\ LastOf(s, n)[k] = s[Len(s) - Len(LastOf(s, n)) + k]
                  /\ Len(s) - Len(LastOf(s, n)) + k \in 1..Len(s)
<1>. DEFINE m == IF Len(s) > n THEN Len(s) - n + 1 ELSE 1
<1>. DEFINE r == SubSeq(s, m, Len(s))
<1>1. m \in 1..Len(s) + 1 /\ Len(s) \in Nat
  OBVIOUS
<1>2. LastOf(s, n) = r
  BY DEF LastOf
<1>3. Len(s) - m + 1 = IF Len(s) > n THEN n ELSE Len(s)
  OBVIOUS
<1>. HIDE DEF m
<1>4. r \in Seq(S)
  BY <1>1
<1>5. Len(r) = Len(s) - m + 1
  BY <1>1
<1>6. \A k \in 1..Len(r) : r[k] = s[m + k - 1]
  BY <1>1, <1>5
<1>. HIDE DEF r
<1>7. \A k \in 1..Len(r) : r[k] = s[Len(s) - Len(r) + k] /\ Len(s) - Len(r) + k \in 1..Len(s)
  <2>. SUFFICES ASSUME NEW k \in 1..Len(r)
                PROVE  r[k] = s[Len(s) - Len(r) + k] /\ Len(s) - Len(r) + k \in 1..Len(s)
    OBVIOUS
  <2>1. Len(s) - Len(r) + k = m + k - 1
    BY <1>1, <1>5
  <2>. QED
    BY <2>1, <1>1, <1>5, <1>6
<1>. QED
  BY <1>2, <1>3, <1>4, <1>5, <1>7

\* The scores that have a version, by their place.
Places == {i \in DOMAIN judged : judged[i].ver # NoVersion}

\* The history's entries are scores with a version, no two alike, and none was
\* already out of the query's reach when an entry before it had been judged.
Ring(h) ==
    /\ h \in Seq(Places) /\ Len(h) <= MaxEvalHistory
    /\ \A k, l \in DOMAIN h : Key(h[k]) = Key(h[l]) => k = l
    /\ \A k, l \in DOMAIN h : k < l => h[l] > h[k] - QueryLimit

\* One more entry keeps the ring's shape, and moves every entry one place at most.
\* The entry it evicts is out of the query's reach: the ring has at least 2 *
\* QueryLimit - 1 more entries by then, and only QueryLimit - 1 of them are older.
LEMMA RingPush ==
    ASSUME judged \in Seq(Scores),
           NEW h, Ring(h), NEW i \in Latest, \A k \in DOMAIN h : Key(h[k]) # Key(i)
    PROVE  LET g == AppendEvalHistory(h, i)
           IN  /\ Ring(g)
               /\ \E d \in {0, 1} :
                    /\ Len(g) = Len(h) + 1 - d
                    /\ g[Len(g)] = i
                    /\ \A p \in 1..Len(g) - 1 : g[p] = h[p + d]
                    /\ d = 1 => Len(h) = MaxEvalHistory /\ h[1] <= Len(judged) - QueryLimit
<1>. DEFINE N == Len(judged)
<1>. DEFINE a == Append(h, i)
<1>. DEFINE g == AppendEvalHistory(h, i)
<1>1. /\ N \in Nat /\ DOMAIN judged = 1..N
      /\ i \in Places /\ i \in 1..N /\ i > N - QueryLimit /\ Places \subseteq 1..N
  BY DEF Latest, Places
<1>2. /\ h \in Seq(Places) /\ Len(h) \in Nat /\ DOMAIN h = 1..Len(h) /\ Len(h) <= MaxEvalHistory
      /\ \A k \in 1..Len(h) : h[k] \in Places
  BY DEF Ring
<1>3. /\ a \in Seq(Places) /\ Len(a) = Len(h) + 1 /\ a[Len(h) + 1] = i
      /\ \A k \in 1..Len(h) : a[k] = h[k]
  BY <1>1, <1>2
<1>. HIDE DEF a
<1>4. \A k \in 1..Len(a) : a[k] \in Places /\ a[k] \in 1..N
  <2>1. \A k \in 1..Len(a) : a[k] \in Places
    BY <1>3
  <2>. QED
    BY <2>1, <1>1
<1>5. \A k, l \in 1..Len(a) : Key(a[k]) = Key(a[l]) => k = l
  <2>1. \A k \in 1..Len(h) : Key(a[k]) # Key(i)
    BY <1>2, <1>3
  <2>2. \A k, l \in 1..Len(h) : Key(a[k]) = Key(a[l]) => k = l
    BY <1>2, <1>3 DEF Ring
  <2>3. \A k \in 1..Len(a) : k \in 1..Len(h) \/ k = Len(h) + 1
    BY <1>2, <1>3
  <2>. QED
    BY <2>1, <2>2, <2>3, <1>3
<1>6. \A k, l \in 1..Len(a) : k < l => a[l] > a[k] - QueryLimit
  <2>. SUFFICES ASSUME NEW k \in 1..Len(a), NEW l \in 1..Len(a), k < l
                PROVE  a[l] > a[k] - QueryLimit
    OBVIOUS
  <2>1. k \in 1..Len(h) /\ a[k] = h[k] /\ a[k] \in 1..N
    BY <1>2, <1>3, <1>4
  <2>2. CASE l = Len(h) + 1
    <3>1. a[l] = i
      BY <2>2, <1>3
    <3>. QED
      BY <3>1, <2>1, <1>1, Sizes
  <2>3. CASE l # Len(h) + 1
    <3>1. l \in 1..Len(h) /\ a[l] = h[l]
      BY <2>3, <1>2, <1>3
    <3>. QED
      BY <3>1, <2>1, <1>2 DEF Ring
  <2>. QED
    BY <2>2, <2>3
<1>7. Len(a) = MaxEvalHistory + 1 => a[1] <= N - QueryLimit
  <2>. SUFFICES ASSUME Len(a) = MaxEvalHistory + 1, a[1] > N - QueryLimit PROVE FALSE
    BY <1>1, <1>4, Sizes
  <2>. DEFINE low == a[1] - QueryLimit + 1
  <2>1. a[1] \in 1..N /\ low \in Int
    BY <1>4, Sizes
  <2>2. ASSUME NEW k \in 1..Len(a) PROVE a[k] \in low..N
    <3>1. k = 1 \/ 1 < k
      BY <2>2, <1>2, <1>3
    <3>2. a[k] \in 1..N
      BY <1>4
    <3>3. 1 < k => a[k] > a[1] - QueryLimit
      BY <1>6, <1>2, <1>3
    <3>. QED
      BY <3>1, <3>2, <3>3, <2>1, Sizes
  <2>. DEFINE f == [k \in 1..Len(a) |-> a[k]]
  <2>3. f \in [1..Len(a) -> low..N]
    BY <2>2
  <2>4. IsFiniteSet(1..Len(a)) /\ Cardinality(1..Len(a)) = MaxEvalHistory + 1
    BY <1>2, <1>3, Sizes, FS_Interval
  <2>5. IsFiniteSet(low..N) /\ Cardinality(low..N) = N - low + 1
    <3>1. low <= N /\ N \in Int
      BY <2>1, <1>1, Sizes
    <3>. HIDE DEF low
    <3>. QED
      BY <3>1, <2>1, FS_Interval
  <2>6. Cardinality(low..N) < Cardinality(1..Len(a))
    BY <2>4, <2>5, <2>1, <1>1, Sizes
  <2>. HIDE DEF f, low
  <2>7. PICK k, l \in 1..Len(a) : k # l /\ f[k] = f[l]
    BY <2>3, <2>4, <2>5, <2>6, FS_PigeonHole
  <2>8. a[k] = a[l]
    BY <2>7 DEF f
  <2>. QED
    BY <2>7, <2>8, <1>5
<1>8. /\ g \in Seq(Places)
      /\ Len(g) = IF Len(a) > MaxEvalHistory THEN MaxEvalHistory ELSE Len(a)
      /\ \A k \in 1..Len(g) : /\ g[k] = a[Len(a) - Len(g) + k]
                              /\ Len(a) - Len(g) + k \in 1..Len(a)
  <2>1. g = LastOf(a, MaxEvalHistory)
    BY DEF AppendEvalHistory, a
  <2>2. MaxEvalHistory \in Nat /\ MaxEvalHistory >= 1
    BY Sizes
  <2>. HIDE DEF g
  <2>. DEFINE r == LastOf(a, MaxEvalHistory)
  <2>3. a \in Seq(Places)
    BY <1>3
  <2>4. /\ r \in Seq(Places)
        /\ Len(r) = IF Len(a) > MaxEvalHistory THEN MaxEvalHistory ELSE Len(a)
        /\ \A k \in 1..Len(r) : /\ r[k] = a[Len(a) - Len(r) + k]
                                /\ Len(a) - Len(r) + k \in 1..Len(a)
    BY <2>2, <2>3, LastOfElements
  <2>5. g = r
    BY <2>1
  <2>. HIDE DEF r
  <2>. QED
    BY <2>4, <2>5
<1>. HIDE DEF g
<1>9. PICK d \in {0, 1} :
         /\ Len(g) \in Nat /\ Len(g) >= 1 /\ Len(g) <= MaxEvalHistory /\ DOMAIN g = 1..Len(g)
         /\ Len(g) + d = Len(a) /\ Len(a) = Len(h) + 1 /\ Len(h) \in Nat
         /\ (d = 1 => Len(a) = MaxEvalHistory + 1)
  <2>1. Len(g) \in Nat /\ DOMAIN g = 1..Len(g) /\ Len(a) = Len(h) + 1 /\ Len(h) \in Nat
    BY <1>2, <1>3, <1>8
  <2>2. CASE Len(a) > MaxEvalHistory
    <3>1. Len(a) = MaxEvalHistory + 1 /\ Len(g) = MaxEvalHistory /\ MaxEvalHistory >= 1
      BY <2>1, <2>2, <1>2, <1>8, Sizes
    <3>. QED
      BY <3>1, <2>1, Sizes
  <2>3. CASE ~(Len(a) > MaxEvalHistory)
    <3>1. Len(g) = Len(a)
      BY <2>3, <1>8
    <3>2. Len(g) + 0 = Len(a) /\ Len(g) >= 1 /\ Len(g) <= MaxEvalHistory
      BY <3>1, <2>1, <2>3, Sizes
    <3>. QED
      BY <3>2, <2>1
  <2>. QED
    BY <2>2, <2>3
<1>10. \A k \in 1..Len(g) : g[k] = a[k + d] /\ k + d \in 1..Len(a)
  <2>. SUFFICES ASSUME NEW k \in 1..Len(g) PROVE g[k] = a[k + d] /\ k + d \in 1..Len(a)
    OBVIOUS
  <2>1. Len(a) - Len(g) + k = k + d
    BY <1>9
  <2>2. g[k] = a[Len(a) - Len(g) + k] /\ Len(a) - Len(g) + k \in 1..Len(a)
    BY <1>8
  <2>. QED
    BY <2>1, <2>2
<1>11. Ring(g)
  <2>1. ASSUME NEW k \in DOMAIN g, NEW l \in DOMAIN g
        PROVE  /\ Key(g[k]) = Key(g[l]) => k = l
               /\ k < l => g[l] > g[k] - QueryLimit
    <3>1. /\ k \in 1..Len(g) /\ l \in 1..Len(g)
          /\ k + d \in 1..Len(a) /\ l + d \in 1..Len(a)
          /\ g[k] = a[k + d] /\ g[l] = a[l + d]
      BY <1>9, <1>10
    <3>2. d \in Int /\ (k + d = l + d => k = l) /\ (k < l => k + d < l + d)
      BY <3>1, <1>9
    <3>3. Key(a[k + d]) = Key(a[l + d]) => k + d = l + d
      BY <3>1, <1>5
    <3>4. k + d < l + d => a[l + d] > a[k + d] - QueryLimit
      BY <3>1, <1>6
    <3>. QED
      BY <3>1, <3>2, <3>3, <3>4
  <2>. QED
    BY <2>1, <1>8, <1>9 DEF Ring
<1>12. g[Len(g)] = i
  <2>1. Len(g) \in 1..Len(g)
    BY <1>9
  <2>2. Len(g) + d = Len(h) + 1
    <3>. QED
      BY <1>9
  <2>. QED
    BY <2>1, <2>2, <1>10, <1>3
<1>13. \A p \in 1..Len(g) - 1 : g[p] = h[p + d]
  <2>. SUFFICES ASSUME NEW p \in 1..Len(g) - 1 PROVE g[p] = h[p + d]
    OBVIOUS
  <2>1. p \in 1..Len(g) /\ p + d \in 1..Len(h)
    BY <1>9, <1>2
  <2>. QED
    BY <2>1, <1>10, <1>3
<1>14. d = 1 => Len(h) = MaxEvalHistory /\ h[1] <= N - QueryLimit
  <2>. SUFFICES ASSUME d = 1 PROVE Len(h) = MaxEvalHistory /\ h[1] <= N - QueryLimit
    OBVIOUS
  <2>1. Len(a) = MaxEvalHistory + 1
    BY <1>9
  <2>2. Len(h) = MaxEvalHistory
    BY <2>1, <1>9, Sizes
  <2>3. 1 \in 1..Len(h)
    BY <2>2, <1>2, Sizes
  <2>. QED
    BY <2>1, <2>2, <2>3, <1>7, <1>3
<1>15. Len(g) = Len(h) + 1 - d
  BY <1>9
<1>16. \E e \in {0, 1} :
         /\ Len(g) = Len(h) + 1 - e
         /\ g[Len(g)] = i
         /\ \A p \in 1..Len(g) - 1 : g[p] = h[p + e]
         /\ e = 1 => Len(h) = MaxEvalHistory /\ h[1] <= N - QueryLimit
  BY <1>12, <1>13, <1>14, <1>15
<1>. QED
  BY <1>11, <1>16 DEF g

\* What the loop over a batch starts from.
Started(h) == [history |-> h, seen |-> {Key(h[n]) : n \in DOMAIN h}]

\* The histories and the scores seen that the loop over a batch passes through.
LEMMA WithScoresRuns ==
    ASSUME judged \in Seq(Scores), NEW h \in Seq(Nat), NEW batch \in Seq(DOMAIN judged),
           \A n \in DOMAIN h : h[n] \in DOMAIN judged
    PROVE  \E c : /\ c[0] = Started(h)
                  /\ \A k \in 1..Len(batch) : c[k] = WithScore(c[k - 1], batch[k])
                  /\ WithScores(h, batch) = c[Len(batch)].history
<1>. DEFINE n == Len(batch)
<1>. DEFINE Runs(f) == f = [k \in 0..n |-> IF k = 0 THEN Started(h)
                                             ELSE WithScore(f[k - 1], batch[k])]
<1>. DEFINE Keys == {Key(i) : i \in DOMAIN judged}
<1>. DEFINE S == [history : Seq(Nat), seen : SUBSET Keys]
<1>. DEFINE step == [p \in (1..n) \X S |-> WithScore(p[2], batch[p[1]])]
<1>1. n \in Nat /\ \A k \in 1..n : batch[k] \in DOMAIN judged /\ batch[k] \in Nat
  <2>1. DOMAIN judged \subseteq Nat
    OBVIOUS
  <2>. QED
    BY <2>1
<1>2. Started(h) \in S
  BY DEF Started
<1>3. ASSUME NEW k \in 1..n, NEW acc \in S PROVE WithScore(acc, batch[k]) \in S
  <2>. DEFINE i == batch[k]
  <2>1. i \in DOMAIN judged /\ i \in Nat
    BY <1>1
  <2>2. acc.history \in Seq(Nat) /\ acc.seen \in SUBSET Keys
    OBVIOUS
  <2>3. AppendEvalHistory(acc.history, i) \in Seq(Nat)
    <3>1. Append(acc.history, i) \in Seq(Nat)
      BY <2>1, <2>2
    <3>2. MaxEvalHistory \in Nat /\ MaxEvalHistory >= 1
      BY Sizes
    <3>. HIDE DEF i
    <3>. QED
      BY <3>1, <3>2, LastOfElements DEF AppendEvalHistory
  <2>4. acc.seen \cup {Key(i)} \in SUBSET Keys
    BY <2>1, <2>2
  <2>. HIDE DEF i, Keys
  <2>. QED
    BY <2>3, <2>4 DEF WithScore, i
<1>. HIDE DEF S
<1>4. step \in [(1..n) \X S -> S]
  BY <1>3
<1>5. \A k \in 1..n, acc \in S : step[<<k, acc>>] = WithScore(acc, batch[k])
  OBVIOUS
<1>. HIDE DEF step, n
<1>6. PICK g : Loop(g, S, n, Started(h), step)
  BY <1>1, <1>2, <1>4, LoopRuns
<1>7. \A k \in 1..n : g[k] = WithScore(g[k - 1], batch[k])
  <2>. SUFFICES ASSUME NEW k \in 1..n PROVE g[k] = WithScore(g[k - 1], batch[k])
    OBVIOUS
  <2>1. k - 1 \in 0..n
    BY <1>1
  <2>2. g[k - 1] \in S
    BY <2>1, <1>6 DEF Loop
  <2>3. g[k] = step[<<k, g[k - 1]>>]
    BY <1>6 DEF Loop
  <2>. QED
    BY <2>2, <2>3, <1>5
<1>8. Runs(g)
  <2>1. g \in [0..n -> S] /\ g[0] = Started(h)
    BY <1>6 DEF Loop
  <2>2. \A k \in 0..n : g[k] = IF k = 0 THEN Started(h) ELSE WithScore(g[k - 1], batch[k])
    <3>1. \A k \in 0..n : k = 0 \/ k \in 1..n
      BY <1>1
    <3>2. 0 \notin 1..n
      BY <1>1
    <3>. QED
      BY <3>1, <3>2, <2>1, <1>7
  <2>. QED
    BY <2>1, <2>2
<1>. DEFINE c == CHOOSE f : Runs(f)
<1>9. Runs(c)
  <2>. HIDE DEF Runs
  <2>. QED
    BY <1>8, Zenon
<1>10. WithScores(h, batch) = c[n].history
  BY Zenon DEF WithScores, Started, n
<1>. HIDE DEF c
<1>11. c[0] = Started(h) /\ \A k \in 1..n : c[k] = WithScore(c[k - 1], batch[k])
  <2>1. 0 \in 0..n /\ \A k \in 1..n : k \in 0..n /\ k # 0
    BY <1>1
  <2>. QED
    BY <2>1, <1>9
<1>. QED
  BY <1>10, <1>11 DEF n

\* What is known after k turns of the loop over a batch that found history h: every
\* score seen was in h or is among the k last entries, and an entry of h that is gone
\* is out of the query's reach.
Turned(acc, h, batch, k) ==
    /\ Ring(acc.history)
    /\ \A p \in DOMAIN acc.history : Key(acc.history[p]) \in acc.seen
    /\ \A p \in DOMAIN acc.history : acc.history[p] \in Range(h) \cup Latest
    /\ \A i \in Range(h) : i \in Range(acc.history) \/ i <= Len(judged) - QueryLimit
    /\ h # <<>> => acc.history # <<>>
    /\ \A key \in acc.seen :
         \/ \E p \in DOMAIN h : Key(h[p]) = key
         \/ \E p \in DOMAIN acc.history :
              Key(acc.history[p]) = key /\ p > Len(acc.history) - k
    /\ \A j \in 1..k : Key(batch[j]) \in acc.seen

\* The loop starts with nothing lost and nothing new.
LEMMA TurnedFirst ==
    ASSUME judged \in Seq(Scores), NEW h, Ring(h), NEW batch
    PROVE  Turned(Started(h), h, batch, 0)
<1>1. Started(h).history = h /\ Started(h).seen = {Key(h[n]) : n \in DOMAIN h}
  BY DEF Started
<1>2. 1..0 = {}
  OBVIOUS
<1>. QED
  BY <1>1, <1>2 DEF Turned, Range

\* One turn keeps it: no score that was just added is evicted, since a batch is
\* shorter than the ring.
LEMMA TurnedNext ==
    ASSUME judged \in Seq(Scores), NEW h, NEW batch \in Seq(Latest), NEW acc,
           NEW k \in 1..Len(batch), k <= QueryLimit, Turned(acc, h, batch, k - 1)
    PROVE  Turned(WithScore(acc, batch[k]), h, batch, k)
<1>. DEFINE i == batch[k]
<1>. DEFINE new == WithScore(acc, batch[k])
<1>. DEFINE a == acc.history
<1>1. i \in Latest /\ k \in Nat /\ k >= 1 /\ 1..k = 1..(k - 1) \cup {k}
  OBVIOUS
<1>2. /\ Ring(a) /\ Len(a) \in Nat /\ DOMAIN a = 1..Len(a) /\ Len(a) <= MaxEvalHistory
      /\ \A p \in 1..Len(a) : Key(a[p]) \in acc.seen /\ a[p] \in Range(h) \cup Latest
      /\ \A j \in Range(h) : j \in Range(a) \/ j <= Len(judged) - QueryLimit
      /\ h # <<>> => a # <<>>
      /\ \A key \in acc.seen :
           \/ \E p \in DOMAIN h : Key(h[p]) = key
           \/ \E p \in 1..Len(a) : Key(a[p]) = key /\ p > Len(a) - (k - 1)
      /\ \A j \in 1..(k - 1) : Key(batch[j]) \in acc.seen
  <2>1. Ring(a)
    BY DEF Turned
  <2>2. Len(a) \in Nat /\ DOMAIN a = 1..Len(a) /\ Len(a) <= MaxEvalHistory
    BY <2>1 DEF Ring
  <2>3. \A p \in 1..Len(a) : Key(a[p]) \in acc.seen /\ a[p] \in Range(h) \cup Latest
    BY <2>2 DEF Turned
  <2>4. \A key \in acc.seen :
           \/ \E p \in DOMAIN h : Key(h[p]) = key
           \/ \E p \in 1..Len(a) : Key(a[p]) = key /\ p > Len(a) - (k - 1)
    BY <2>2 DEF Turned
  <2>. QED
    BY <2>1, <2>2, <2>3, <2>4 DEF Turned
<1>3. CASE Key(i) \in acc.seen
  <2>1. new = acc
    BY <1>3 DEF WithScore
  <2>2. \A p \in 1..Len(a) : p > Len(a) - (k - 1) => p > Len(a) - k
    BY <1>1, <1>2
  <2>3. \A key \in acc.seen :
           \/ \E p \in DOMAIN h : Key(h[p]) = key
           \/ \E p \in 1..Len(a) : Key(a[p]) = key /\ p > Len(a) - k
    BY <2>2, <1>2
  <2>4. \A j \in 1..k : Key(batch[j]) \in acc.seen
    BY <1>1, <1>2, <1>3
  <2>. QED
    BY <2>1, <2>3, <2>4, <1>2 DEF Turned
<1>4. CASE Key(i) \notin acc.seen
  <2>. DEFINE g == AppendEvalHistory(a, i)
  <2>1. new.history = g /\ new.seen = acc.seen \cup {Key(i)}
    BY <1>4 DEF WithScore
  <2>2. \A p \in DOMAIN a : Key(a[p]) # Key(i)
    BY <1>2, <1>4
  <2>3. Ring(g)
    BY <1>1, <1>2, <2>2, RingPush
  <2>4. PICK d \in {0, 1} :
          /\ Len(g) = Len(a) + 1 - d
          /\ g[Len(g)] = i
          /\ \A p \in 1..Len(g) - 1 : g[p] = a[p + d]
          /\ d = 1 => Len(a) = MaxEvalHistory /\ a[1] <= Len(judged) - QueryLimit
    BY <1>1, <1>2, <2>2, RingPush
  <2>. HIDE DEF g, new, a, i
  <2>5. Len(g) \in Nat /\ Len(g) >= 1 /\ DOMAIN g = 1..Len(g) /\ Len(g) \in 1..Len(g)
    <3>1. Len(g) \in Nat /\ DOMAIN g = 1..Len(g)
      BY <2>3 DEF Ring
    <3>2. Len(g) >= 1
      <4>1. Len(g) = Len(a) + 1 - d /\ (d = 1 => Len(a) = MaxEvalHistory) /\ Len(a) \in Nat
        BY <2>4, <1>2
      <4>2. MaxEvalHistory \in Nat /\ MaxEvalHistory >= 1
        BY Sizes
      <4>. QED
        BY <4>1, <4>2
    <3>. QED
      BY <3>1, <3>2
  <2>6. \A p \in 1..Len(g) - 1 : p + d \in 1..Len(a) /\ g[p] = a[p + d]
    <3>1. Len(g) = Len(a) + 1 - d /\ Len(a) \in Nat /\ Len(g) \in Nat
      BY <2>4, <2>5, <1>2
    <3>2. \A p \in 1..Len(g) - 1 : p + d \in 1..Len(a)
      BY <3>1
    <3>. QED
      BY <3>2, <2>4
  <2>7. \A p \in 1..Len(g) : p = Len(g) \/ p \in 1..Len(g) - 1
    <3>1. Len(g) \in Nat
      BY <2>5
    <3>. QED
      BY <3>1
  <2>8. \A p \in DOMAIN g : Key(g[p]) \in new.seen /\ g[p] \in Range(h) \cup Latest
    BY <2>1, <2>4, <2>5, <2>6, <2>7, <1>1, <1>2
  <2>9. \A p \in 1..Len(a) : (d = 1 /\ p = 1) \/ p - d \in 1..Len(g) - 1
    <3>1. Len(g) = Len(a) + 1 - d /\ Len(a) \in Nat /\ Len(g) \in Nat
      BY <2>4, <2>5, <1>2
    <3>. QED
      BY <3>1
  <2>10. \A j \in Range(h) : j \in Range(g) \/ j <= Len(judged) - QueryLimit
    <3>. SUFFICES ASSUME NEW j \in Range(h), ~(j <= Len(judged) - QueryLimit)
                  PROVE  j \in Range(g)
      OBVIOUS
    <3>1. PICK p \in 1..Len(a) : a[p] = j
      BY <1>2 DEF Range
    <3>2. p - d \in 1..Len(g) - 1
      BY <3>1, <2>9, <2>4
    <3>3. g[p - d] = j /\ p - d \in DOMAIN g
      BY <3>1, <3>2, <2>6, <2>5
    <3>. QED
      BY <3>3 DEF Range
  <2>11. g # <<>>
    BY <2>5
  <2>12. \A key \in new.seen :
           \/ \E p \in DOMAIN h : Key(h[p]) = key
           \/ \E p \in DOMAIN g : Key(g[p]) = key /\ p > Len(g) - k
    <3>. SUFFICES ASSUME NEW key \in new.seen, ~ \E p \in DOMAIN h : Key(h[p]) = key
                  PROVE  \E p \in DOMAIN g : Key(g[p]) = key /\ p > Len(g) - k
      OBVIOUS
    <3>1. CASE key = Key(i)
      BY <3>1, <2>4, <2>5, <1>1
    <3>2. CASE key \in acc.seen
      <4>1. PICK p \in 1..Len(a) : Key(a[p]) = key /\ p > Len(a) - (k - 1)
        BY <3>2, <1>2
      <4>2. ~(d = 1 /\ p = 1)
        BY <4>1, <2>4, <1>1, Sizes
      <4>3. p - d \in 1..Len(g) - 1 /\ (p - d) + d = p
        BY <4>1, <4>2, <2>9
      <4>4. g[p - d] = a[p] /\ p - d \in DOMAIN g
        BY <4>3, <2>6, <2>5
      <4>5. p - d > Len(g) - k
        BY <4>1, <2>4, <1>1, <1>2
      <4>. QED
        BY <4>1, <4>4, <4>5
    <3>. QED
      BY <3>1, <3>2, <2>1
  <2>13. \A j \in 1..k : Key(batch[j]) \in new.seen
    BY <2>1, <1>1, <1>2 DEF i
  <2>. QED
    BY <2>1, <2>3, <2>8, <2>10, <2>11, <2>12, <2>13 DEF Turned, new
<1>. QED
  BY <1>3, <1>4

\* What Langfuse answers with is no longer than the query asked for.
LEMMA BatchLength ==
    ASSUME judged \in Seq(Scores), NEW batch \in Batches
    PROVE  /\ batch \in Seq(Latest) /\ Len(batch) \in Nat /\ Len(batch) <= QueryLimit
           /\ \A i \in Latest : \E k \in 1..Len(batch) : batch[k] = i
<1>. DEFINE N == Len(judged)
<1>. DEFINE c == Cardinality(Latest)
<1>1. N \in Nat /\ DOMAIN judged = 1..N /\ QueryLimit \in Nat /\ QueryLimit >= 1
  BY Sizes
<1>. DEFINE low == N - QueryLimit + 1
<1>2. Latest \subseteq low..N
  BY <1>1 DEF Latest
<1>3. IsFiniteSet(low..N) /\ Cardinality(low..N) = QueryLimit
  <2>1. low \in Int /\ low <= N /\ N - low + 1 = QueryLimit
    BY <1>1
  <2>. HIDE DEF low
  <2>. QED
    BY <2>1, <1>1, FS_Interval
<1>4. c \in Nat /\ c <= QueryLimit
  BY <1>2, <1>3, FS_Subset, FS_CardinalityType
<1>. HIDE DEF c
<1>5. batch \in [1..c -> Latest] /\ Range(batch) = Latest
  BY DEF Batches, c
<1>6. batch \in Seq(Latest) /\ Len(batch) = c
  BY <1>4, <1>5
<1>. QED
  BY <1>4, <1>5, <1>6 DEF Range

\* A ring's entries are places in the sequence of scores.
LEMMA RingType ==
    ASSUME judged \in Seq(Scores), NEW h, Ring(h)
    PROVE  /\ h \in Seq(Places) /\ h \in Seq(Nat) /\ Len(h) \in Nat /\ DOMAIN h = 1..Len(h)
           /\ \A n \in DOMAIN h : h[n] \in Places /\ h[n] \in DOMAIN judged /\ h[n] \in Nat
<1>1. h \in Seq(Places)
  BY DEF Ring
<1>2. Places \subseteq DOMAIN judged /\ Places \subseteq Nat
  BY DEF Places
<1>. QED
  BY <1>1, <1>2

\* What becomes of a history when Langfuse answers: it keeps its shape, gains only
\* scores among the latest, loses only scores that are out of the query's reach, and
\* of the latest misses none it did not know before.
LEMMA BatchKept ==
    ASSUME judged \in Seq(Scores), NEW h, Ring(h), NEW batch \in Batches
    PROVE  LET r == WithScores(h, batch)
           IN  /\ Ring(r) /\ (h # <<>> => r # <<>>)
               /\ \A p \in DOMAIN r : r[p] \in Range(h) \cup Latest
               /\ \A i \in Range(h) : i \in Range(r) \/ i <= Len(judged) - QueryLimit
               /\ \A i \in Latest : \E j \in Range(h) \cup Range(r) : Key(j) = Key(i)
<1>. DEFINE r == WithScores(h, batch)
<1>. DEFINE n == Len(batch)
<1>1. /\ batch \in Seq(Latest) /\ n \in Nat /\ n <= QueryLimit
      /\ \A i \in Latest : \E k \in 1..n : batch[k] = i
  BY BatchLength
<1>2. batch \in Seq(DOMAIN judged)
  <2>1. Latest \subseteq DOMAIN judged
    BY DEF Latest
  <2>. QED
    BY <2>1, <1>1
<1>3. PICK c : /\ c[0] = Started(h)
               /\ \A k \in 1..n : c[k] = WithScore(c[k - 1], batch[k])
               /\ r = c[n].history
  BY <1>2, RingType, WithScoresRuns
<1>. HIDE DEF r, n
<1>. DEFINE T == {k \in 0..n : Turned(c[k], h, batch, k)}
<1>4. 0 \in T
  BY <1>1, <1>3, TurnedFirst
<1>5. \A k \in 1..n : k - 1 \in T => k \in T
  <2>. SUFFICES ASSUME NEW k \in 1..n, k - 1 \in T PROVE k \in T
    OBVIOUS
  <2>1. Turned(c[k - 1], h, batch, k - 1) /\ k <= QueryLimit /\ k \in 0..n
    BY <1>1, Sizes
  <2>2. Turned(WithScore(c[k - 1], batch[k]), h, batch, k)
    BY <2>1, <1>1, TurnedNext DEF n
  <2>. QED
    BY <2>1, <2>2, <1>3
<1>6. n \in T
  <2>. HIDE DEF T
  <2>1. 0..n \subseteq T
    BY <1>1, <1>4, <1>5, TurnInduction
  <2>. QED
    BY <2>1, <1>1
<1>7. Turned(c[n], h, batch, n)
  BY <1>6
<1>8. /\ Ring(r) /\ (h # <<>> => r # <<>>)
      /\ \A p \in DOMAIN r : r[p] \in Range(h) \cup Latest
      /\ \A i \in Range(h) : i \in Range(r) \/ i <= Len(judged) - QueryLimit
  BY <1>3, <1>7 DEF Turned
<1>9. ASSUME NEW i \in Latest PROVE \E j \in Range(h) \cup Range(r) : Key(j) = Key(i)
  <2>1. PICK k \in 1..n : batch[k] = i
    BY <1>1
  <2>2. Key(i) \in c[n].seen
    BY <2>1, <1>7 DEF Turned
  <2>3. \/ \E p \in DOMAIN h : Key(h[p]) = Key(i)
        \/ \E p \in DOMAIN r : Key(r[p]) = Key(i)
    BY <2>2, <1>3, <1>7 DEF Turned
  <2>. QED
    BY <2>3 DEF Range
<1>. QED
  BY <1>8, <1>9 DEF r

(***************************************************************************)
(* The signals.                                                            *)
(***************************************************************************)

\* A set of integers that is not empty and has a bound has a largest one.
LEMMA MaxIsOne ==
    ASSUME NEW S \in SUBSET Int, S # {}, NEW n \in Int, \A x \in S : x <= n
    PROVE  Max(S) \in S /\ \A x \in S : x <= Max(S)
<1>. DEFINE U == {n - x : x \in S}
<1>. DEFINE R == OpToRel(<, Nat)
<1>1. U \subseteq Nat /\ U # {}
  <2>1. \A x \in S : n - x \in Nat
    OBVIOUS
  <2>2. PICK x \in S : TRUE
    OBVIOUS
  <2>3. n - x \in U
    OBVIOUS
  <2>. QED
    BY <2>1, <2>3
<1>2. IsWellFoundedOn(R, Nat)
  BY NatLessThanWellFounded
<1>3. \A x, y \in Nat : x < y => <<x, y>> \in R
  BY DEF OpToRel
<1>. HIDE DEF R, U
<1>4. PICK u \in U : \A y \in U : ~(<<y, u>> \in R)
  BY <1>1, <1>2, WFMin
<1>5. PICK m \in S : u = n - m
  BY <1>4 DEF U
<1>6. ASSUME NEW x \in S PROVE x <= m
  <2>1. n - x \in U /\ n - x \in Nat /\ u \in Nat
    BY <1>1, <1>4 DEF U
  <2>2. ~(n - x < u)
    BY <2>1, <1>3, <1>4
  <2>. QED
    BY <2>1, <2>2, <1>5
<1>. QED
  BY <1>6 DEF Max

\* A score that has a version lies between 0 and 100.
LEMMA ValueType ==
    ASSUME judged \in Seq(Scores), NEW i \in Places
    PROVE  judged[i].val \in Nat /\ judged[i].val <= 100
<1>1. judged[i] \in Scores /\ judged[i].ver # NoVersion
  BY DEF Places
<1>2. judged[i].val \in Values
  <2>1. \/ judged[i] \in [ver : Versions, val : Values]
        \/ judged[i] = [ver |-> NoVersion, val |-> 0]
    BY <1>1 DEF Scores
  <2>2. judged[i] # [ver |-> NoVersion, val |-> 0]
    BY <1>1
  <2>. QED
    BY <2>1, <2>2
<1>3. \A v \in 0..100 : v \in Nat /\ v <= 100
  OBVIOUS
<1>4. judged[i].val \in 0..100
  BY <1>2, ScoresAssumption, Zenon
<1>. QED
  BY <1>3, <1>4

\* The sum of some entries' scores is a natural number, and when they are all the
\* same it is that score times their number.
LEMMA ValueSumFacts ==
    ASSUME judged \in Seq(Scores), NEW e \in Seq(Places)
    PROVE  /\ ValueSum(e) \in Nat
           /\ \A v \in Nat : (\A k \in 1..Len(e) : judged[e[k]].val = v) =>
                                 ValueSum(e) = v * Len(e)
<1>. DEFINE s == [k \in DOMAIN e |-> judged[e[k]].val]
<1>. DEFINE z == [k \in DOMAIN e |-> 0]
<1>1. DOMAIN e = 1..Len(e) /\ Len(e) \in Nat
  OBVIOUS
<1>2. \A k \in 1..Len(e) : judged[e[k]].val \in Nat
  <2>1. \A k \in 1..Len(e) : e[k] \in Places
    OBVIOUS
  <2>. QED
    BY <2>1, ValueType
<1>3. /\ s \in Seq(Int) /\ Len(s) = Len(e)
      /\ \A k \in 1..Len(s) : s[k] = judged[e[k]].val /\ 0 <= s[k]
  BY <1>1, <1>2
<1>4. z \in Seq(Int) /\ Len(z) = Len(e) /\ \A k \in 1..Len(z) : z[k] = 0
  BY <1>1
<1>5. ValueSum(e) = Total(s)
  BY DEF ValueSum
<1>. HIDE DEF s, z
<1>6. Total(z) = 0
  <2>1. Total(z) = 0 * Len(z)
    BY <1>4, TotalConstant
  <2>. QED
    BY <2>1, <1>4, <1>1
<1>7. Total(z) <= Total(s)
  BY <1>3, <1>4, TotalMonotone
<1>8. Total(s) \in Int
  BY <1>3, TotalType
<1>9. ASSUME NEW v \in Nat, \A k \in 1..Len(e) : judged[e[k]].val = v
      PROVE  Total(s) = v * Len(e)
  <2>1. ASSUME NEW k \in 1..Len(s) PROVE s[k] = v
    <3>1. s[k] = judged[e[k]].val
      BY <1>3
    <3>2. k \in 1..Len(e)
      BY <1>3
    <3>3. judged[e[k]].val = v
      BY <3>2, <1>9
    <3>. QED
      BY <3>1, <3>3
  <2>2. v \in Int
    OBVIOUS
  <2>3. Total(s) = v * Len(s)
    BY <2>1, <2>2, <1>3, TotalConstant
  <2>. QED
    BY <2>3, <1>3
<1>. QED
  BY <1>5, <1>6, <1>7, <1>8, <1>9

\* The mean of the latest entries is a whole number, and when they are all the same it
\* is that score, in the unit of the means.
LEMMA RecentMeanFacts ==
    ASSUME judged \in Seq(Scores), NEW h \in Seq(Places), h # <<>>
    PROVE  /\ RecentMean(h) \in Nat
           /\ \A v \in Nat : (\A k \in 1..Len(h) : judged[h[k]].val = v) =>
                                 RecentMean(h) = v * Scale
<1>. DEFINE e == LastOf(h, SampleSize)
<1>. DEFINE n == Len(e)
<1>1. /\ e \in Seq(Places)
      /\ n = IF Len(h) > SampleSize THEN SampleSize ELSE Len(h)
      /\ \A k \in 1..n : e[k] = h[Len(h) - n + k] /\ Len(h) - n + k \in 1..Len(h)
  BY Sizes, LastOfElements
<1>. HIDE DEF e
<1>2. n \in Nat /\ n >= 1
  <2>1. Len(h) \in Nat /\ Len(h) >= 1
    OBVIOUS
  <2>. QED
    BY <2>1, <1>1, Sizes
<1>3. RecentMean(h) = (ValueSum(e) * Scale) \div n /\ Scale \in Nat
  BY ScaleAssumption DEF RecentMean, e
<1>4. ValueSum(e) \in Nat
  BY <1>1, ValueSumFacts
<1>. HIDE DEF n
<1>5. \A a, b \in Nat : a * b \in Nat
  OBVIOUS
<1>6. \A a \in Nat : a \div n \in Nat
  BY <1>2
<1>7. RecentMean(h) \in Nat
  BY <1>3, <1>4, <1>5, <1>6
<1>8. ASSUME NEW v \in Nat, \A k \in 1..Len(h) : judged[h[k]].val = v
      PROVE  RecentMean(h) = v * Scale
  <2>1. \A k \in 1..Len(e) : judged[e[k]].val = v
    BY <1>1, <1>8 DEF n
  <2>2. ValueSum(e) = v * n
    BY <2>1, <1>1, ValueSumFacts DEF n
  <2>3. (v * n) * Scale = (v * Scale) * n /\ v * Scale \in Nat
    BY <1>2, <1>3
  <2>4. \A a \in Nat : (a * n) \div n = a
    BY <1>2
  <2>. QED
    BY <2>2, <2>3, <2>4, <1>3
<1>. QED
  BY <1>7, <1>8

\* Drift is only reported when some snapshot is below an earlier one: place by place
\* the newer half would otherwise not be below the older.
LEMMA DriftedDeclines ==
    ASSUME NEW snaps \in Seq(Nat), Drifted(snaps)
    PROVE  \E k, l \in DOMAIN snaps : k < l /\ snaps[l] < snaps[k]
<1>. SUFFICES ASSUME \A k, l \in DOMAIN snaps : k < l => ~(snaps[l] < snaps[k])
              PROVE  FALSE
  OBVIOUS
<1>. DEFINE n == Len(snaps)
<1>. DEFINE half == n \div 2
<1>. DEFINE older == SubSeq(snaps, 1, half)
<1>. DEFINE newer == LastOf(snaps, half)
<1>1. n \in Nat /\ n >= 1 /\ half \in Nat /\ 2 * half <= n /\ DOMAIN snaps = 1..n
      /\ \A k \in 1..n : snaps[k] \in Nat
  <2>1. n \in Nat /\ DOMAIN snaps = 1..n /\ \A k \in 1..n : snaps[k] \in Nat
    OBVIOUS
  <2>2. n >= MinSnapshots
    BY DEF Drifted
  <2>. HIDE DEF n
  <2>3. n >= 1
    BY <2>1, <2>2, Sizes
  <2>4. half \in Nat /\ 2 * half <= n
    BY <2>1
  <2>. QED
    BY <2>1, <2>3, <2>4
<1>2. 10 * Total(newer) < 9 * Total(older)
  BY DEF Drifted
<1>. HIDE DEF n, half
<1>3. older \in Seq(Int) /\ Len(older) = half /\ \A k \in 1..half : older[k] = snaps[k]
  BY <1>1 DEF n
<1>4. newer \in Seq(Int) /\ Len(newer) = half
      /\ \A k \in 1..half : newer[k] = snaps[(n - half) + k]
  <2>1. newer = SubSeq(snaps, IF n > half THEN n - half + 1 ELSE 1, n)
    BY DEF LastOf, n
  <2>2. n > half
    BY <1>1
  <2>3. newer = SubSeq(snaps, n - half + 1, n)
    BY <2>1, <2>2
  <2>4. n - half + 1 \in 1..n + 1
    BY <1>1
  <2>. QED
    BY <2>3, <2>4, <1>1 DEF n
<1>. HIDE DEF older, newer
<1>5. \A k \in 1..half : older[k] <= newer[k] /\ older[k] \in Nat
  <2>. SUFFICES ASSUME NEW k \in 1..half PROVE older[k] <= newer[k] /\ older[k] \in Nat
    OBVIOUS
  <2>1. k \in 1..n /\ (n - half) + k \in 1..n /\ k < (n - half) + k
    BY <1>1
  <2>2. ~(snaps[(n - half) + k] < snaps[k])
    BY <2>1, <1>1
  <2>. QED
    BY <2>1, <2>2, <1>1, <1>3, <1>4
<1>6. Total(older) <= Total(newer)
  BY <1>3, <1>4, <1>5, TotalMonotone
<1>7. 0 <= Total(older)
  <2>. DEFINE z == [k \in 1..half |-> 0]
  <2>1. z \in Seq(Int) /\ Len(z) = half /\ \A k \in 1..half : z[k] = 0
    BY <1>1
  <2>. HIDE DEF z
  <2>2. Total(z) = 0 * half
    BY <2>1, TotalConstant
  <2>3. Len(z) = Len(older) /\ \A k \in 1..Len(z) : z[k] <= older[k]
    BY <2>1, <1>3, <1>5
  <2>4. Total(z) <= Total(older)
    BY <2>1, <2>3, <1>3, TotalMonotone
  <2>. QED
    BY <2>2, <2>4, <1>1
<1>8. Total(older) \in Int /\ Total(newer) \in Int
  BY <1>3, <1>4, TotalType
<1>. QED
  BY <1>2, <1>6, <1>7, <1>8

\* With every value of one side at most v and every value of the other at least v, the
\* cross-multiplied means are in the same order.
LEMMA MeansInOrder ==
    ASSUME NEW a \in Nat, NEW b \in Nat, NEW v \in Nat, NEW low \in Int, NEW high \in Int,
           low <= v * a, high >= v * b
    PROVE  ~(10 * high * a < 9 * low * b)
<1>1. low * b <= (v * a) * b
  OBVIOUS
<1>2. high * a >= (v * b) * a
  OBVIOUS
<1>3. (v * a) * b = (v * b) * a /\ (v * a) * b >= 0 /\ (v * a) * b \in Int
  OBVIOUS
<1>4. 10 * high * a = 10 * (high * a) /\ 9 * low * b = 9 * (low * b)
  OBVIOUS
<1>5. low * b \in Int /\ high * a \in Int
  OBVIOUS
<1>. DEFINE x == low * b
<1>. DEFINE y == high * a
<1>. DEFINE z == (v * a) * b
<1>6. x \in Int /\ y \in Int /\ z \in Int /\ z >= 0 /\ x <= z /\ y >= z
  BY <1>1, <1>2, <1>3, <1>5
<1>7. ~(10 * y < 9 * x)
  <2>. HIDE DEF x, y, z
  <2>. QED
    BY <1>6
<1>. QED
  BY <1>4, <1>7

\* The sum over one side of a promotion, against a value that bounds that side.
LEMMA SideSumBounds ==
    ASSUME judged \in Seq(Scores), NEW h \in Seq(Places), NEW side \in SUBSET (1..Len(h)),
           NEW v \in Nat
    PROVE  /\ SideSum(h, side) \in Int
           /\ (\A k \in side : judged[h[k]].val <= v) =>
                  SideSum(h, side) <= v * Cardinality(side)
           /\ (\A k \in side : judged[h[k]].val >= v) =>
                  SideSum(h, side) >= v * Cardinality(side)
<1>. DEFINE n == Len(h)
<1>. DEFINE s == [k \in DOMAIN h |-> IF k \in side THEN judged[h[k]].val ELSE 0]
<1>. DEFINE r == [k \in 1..n |-> IF k \in side THEN v ELSE 0]
<1>1. n \in Nat /\ DOMAIN h = 1..n
  OBVIOUS
<1>2. \A k \in 1..n : judged[h[k]].val \in Nat
  <2>1. \A k \in 1..n : h[k] \in Places
    OBVIOUS
  <2>. QED
    BY <2>1, ValueType
<1>3. /\ s \in Seq(Int) /\ Len(s) = n
      /\ \A k \in 1..n : s[k] = IF k \in side THEN judged[h[k]].val ELSE 0
  BY <1>1, <1>2
<1>4. r \in Seq(Int) /\ Len(r) = n /\ \A k \in 1..n : r[k] = IF k \in side THEN v ELSE 0
  BY <1>1
<1>5. SideSum(h, side) = Total(s)
  BY DEF SideSum
<1>6. Total(r) = v * Cardinality(side)
  <2>1. v \in Int
    OBVIOUS
  <2>. QED
    BY <1>1, <2>1, TotalOn
<1>. HIDE DEF s, r, n
<1>7. Total(s) \in Int
  BY <1>3, TotalType
<1>8. ASSUME \A k \in side : judged[h[k]].val <= v PROVE Total(s) <= Total(r)
  <2>1. ASSUME NEW k \in 1..n PROVE s[k] <= r[k]
    <3>1. CASE k \in side
      BY <3>1, <1>3, <1>4, <1>8
    <3>2. CASE k \notin side
      <4>1. s[k] = 0 /\ r[k] = 0
        BY <3>2, <1>3, <1>4
      <4>. QED
        BY <4>1
    <3>. QED
      BY <3>1, <3>2
  <2>. QED
    BY <2>1, <1>3, <1>4, TotalMonotone
<1>9. ASSUME \A k \in side : judged[h[k]].val >= v PROVE Total(s) >= Total(r)
  <2>1. ASSUME NEW k \in 1..n PROVE r[k] <= s[k]
    <3>1. CASE k \in side
      <4>1. judged[h[k]].val \in Nat /\ judged[h[k]].val >= v
        BY <3>1, <1>2, <1>9
      <4>2. s[k] = judged[h[k]].val /\ r[k] = v
        BY <3>1, <1>3, <1>4
      <4>. QED
        BY <4>1, <4>2
    <3>2. CASE k \notin side
      <4>1. s[k] = 0 /\ r[k] = 0
        BY <3>2, <1>3, <1>4
      <4>. QED
        BY <4>1
    <3>. QED
      BY <3>1, <3>2
  <2>2. Total(r) <= Total(s)
    BY <2>1, <1>3, <1>4, TotalMonotone
  <2>3. Total(r) \in Int
    BY <1>4, TotalType
  <2>. QED
    BY <2>2, <2>3, <1>7
<1>. QED
  BY <1>5, <1>6, <1>7, <1>8, <1>9

\* A regression is only reported when some entry after the promotion has a lower score
\* than some entry before it.
LEMMA RegressedDeclines ==
    ASSUME judged \in Seq(Scores), NEW h \in Seq(Places), NEW pivot \in Int,
           Regressed(h, pivot)
    PROVE  \E k, l \in DOMAIN h :
               h[k] <= pivot /\ pivot < h[l] /\ judged[h[l]].val < judged[h[k]].val
<1>. SUFFICES ASSUME \A k, l \in DOMAIN h : h[k] <= pivot /\ pivot < h[l] =>
                         ~(judged[h[l]].val < judged[h[k]].val)
              PROVE  FALSE
  OBVIOUS
<1>. DEFINE pre == {k \in DOMAIN h : h[k] <= pivot}
<1>. DEFINE post == DOMAIN h \ pre
<1>. DEFINE a == Cardinality(pre)
<1>. DEFINE b == Cardinality(post)
<1>1. DOMAIN h = 1..Len(h) /\ Len(h) \in Nat /\ IsFiniteSet(DOMAIN h)
  BY FS_Interval
<1>2. /\ a >= MinSide
      /\ 10 * SideSum(h, post) * a < 9 * SideSum(h, pre) * b
  BY DEF Regressed
<1>3. pre \in SUBSET (1..Len(h)) /\ post \in SUBSET (1..Len(h))
  BY <1>1
<1>4. \A k \in DOMAIN h : h[k] \in Places /\ h[k] \in Int
  <2>1. \A i \in Places : i \in Int
    BY DEF Places
  <2>2. \A k \in DOMAIN h : h[k] \in Places
    OBVIOUS
  <2>. QED
    BY <2>1, <2>2
<1>5. \A k \in pre, l \in post : judged[h[l]].val >= judged[h[k]].val
  <2>. SUFFICES ASSUME NEW k \in pre, NEW l \in post
                PROVE  judged[h[l]].val >= judged[h[k]].val
    OBVIOUS
  <2>1. h[k] <= pivot /\ pivot < h[l]
    BY <1>4
  <2>2. judged[h[l]].val \in Nat /\ judged[h[k]].val \in Nat
    BY <1>4, ValueType
  <2>. QED
    BY <2>1, <2>2
<1>6. a \in Nat /\ b \in Nat
  BY <1>1, <1>3, FS_Subset, FS_CardinalityType
<1>7. \A k \in DOMAIN h : judged[h[k]].val \in Nat /\ judged[h[k]].val <= 100
  BY <1>4, ValueType
<1>. HIDE DEF pre, post
<1>. DEFINE V == {judged[h[k]].val : k \in pre}
<1>8. V # {} /\ V \in SUBSET Int /\ \A x \in V : x <= 100 /\ x \in Nat
  <2>1. Cardinality(pre) # 0
    <3>1. MinSide \in Nat /\ MinSide >= 1
      BY Sizes
    <3>. QED
      BY <3>1, <1>2, <1>6
  <2>2. PICK k \in pre : TRUE
    BY <2>1, FS_EmptySet
  <2>3. judged[h[k]].val \in V
    OBVIOUS
  <2>4. \A j \in pre : j \in DOMAIN h
    BY <1>1, <1>3
  <2>5. \A j \in pre : judged[h[j]].val \in Nat /\ judged[h[j]].val <= 100
    BY <2>4, <1>7
  <2>6. \A x \in V : \E j \in pre : x = judged[h[j]].val
    OBVIOUS
  <2>. HIDE DEF V
  <2>7. \A x \in V : x <= 100 /\ x \in Nat
    BY <2>5, <2>6
  <2>8. V \in SUBSET Int
    BY <2>7
  <2>. QED
    BY <2>3, <2>7, <2>8
<1>. DEFINE v == Max(V)
<1>9. v \in V /\ \A x \in V : x <= v
  <2>1. 100 \in Int /\ \A x \in V : x <= 100
    BY <1>8
  <2>2. V # {} /\ V \in SUBSET Int
    BY <1>8
  <2>. HIDE DEF V
  <2>. QED
    BY <2>1, <2>2, MaxIsOne
<1>10. v \in Nat
  BY <1>8, <1>9
<1>11. PICK m \in pre : v = judged[h[m]].val
  BY <1>9
<1>12. \A k \in pre : judged[h[k]].val <= v
  BY <1>9
<1>13. \A k \in post : judged[h[k]].val >= v
  BY <1>5, <1>11
<1>. HIDE DEF v, V
<1>14. SideSum(h, pre) \in Int /\ SideSum(h, pre) <= v * a
  BY <1>3, <1>10, <1>12, SideSumBounds
<1>15. SideSum(h, post) \in Int /\ SideSum(h, post) >= v * b
  BY <1>3, <1>10, <1>13, SideSumBounds
<1>. HIDE DEF a, b
<1>16. ~(10 * SideSum(h, post) * a < 9 * SideSum(h, pre) * b)
  BY <1>6, <1>10, <1>14, <1>15, MeansInOrder
<1>. QED
  BY <1>2, <1>16

(***************************************************************************)
(* The inductive invariant.                                                *)
(***************************************************************************)

\* The judge has always given the same score.
Steady == \A i, j \in Places : judged[i].val = judged[j].val

\* What is true of either copy of the status: the history is a ring, no promotion is
\* in the future, a snapshot is of something, the signals are quiet under a steady
\* judge, and otherwise have a decline behind them.
Good(status) ==
    /\ status \in Statuses
    /\ Ring(status.history)
    /\ \A k \in DOMAIN status.lineage : status.lineage[k].at <= Len(judged)
    /\ status.snaps # <<>> => status.history # <<>>
    /\ Steady =>
         /\ \A k \in DOMAIN status.snaps, i \in Places :
                status.snaps[k] = judged[i].val * Scale
         /\ ~status.drifted /\ ~status.regressed /\ status.trend = "stable"
    /\ status.drifted =>
         \E k, l \in DOMAIN status.snaps : k < l /\ status.snaps[l] < status.snaps[k]
    /\ status.regressed =>
         \E k \in DOMAIN status.lineage, i, j \in DOMAIN judged :
             /\ status.lineage[k].promoted
             /\ i <= status.lineage[k].at /\ status.lineage[k].at < j
             /\ judged[j].val < judged[i].val

\* The variables other than the two copies.
RestOK ==
    /\ judged \in Seq(Scores) /\ Len(judged) <= MaxScores
    /\ pc \in Steps
    /\ faults \in 0..MaxFaults /\ recorded \subseteq DOMAIN judged

\* A score that was stored is still there, or out of the query's reach; and the copy
\* Reconcile holds has no stored score back that the status had lost.
Reach ==
    /\ \A i \in recorded : i \in Range(stored.history) \/ i <= Len(judged) - QueryLimit
    /\ pc # "idle" =>
         /\ \A i \in recorded : i \in Range(me.history) \/ i <= Len(judged) - QueryLimit
         /\ \A i \in Range(me.history) : i \in recorded => i \in Range(stored.history)

IInv == RestOK /\ Good(stored) /\ Good(me) /\ Reach

\* Under a steady judge the ring's entries all have one score.
LEMMA SteadyRing ==
    ASSUME judged \in Seq(Scores), Steady, NEW e \in Seq(Places), NEW i \in Places
    PROVE  judged[i].val \in Nat /\ \A k \in 1..Len(e) : judged[e[k]].val = judged[i].val
<1>1. \A k \in 1..Len(e) : e[k] \in Places
  OBVIOUS
<1>. QED
  BY <1>1, ValueType DEF Steady

\* A new agent's status.
LEMMA GoodNewStatus ==
    ASSUME judged \in Seq(Scores)
    PROVE  Good(NewStatus)
<1>1. NewStatus \in Statuses
  BY DEF NewStatus, Statuses, Trends
<1>2. /\ NewStatus.history = <<>> /\ NewStatus.snaps = <<>> /\ NewStatus.lineage = <<>>
      /\ ~NewStatus.drifted /\ ~NewStatus.regressed /\ NewStatus.trend = "stable"
  BY DEF NewStatus
<1>3. Ring(<<>>)
  BY Sizes DEF Ring
<1>. HIDE DEF NewStatus
<1>. QED
  BY <1>1, <1>2, <1>3 DEF Good

\* The eval history step.
LEMMA GoodHistory ==
    ASSUME judged \in Seq(Scores), NEW s, Good(s), NEW batch \in Batches
    PROVE  Good([s EXCEPT !.history = WithScores(s.history, batch)])
<1>. DEFINE r == WithScores(s.history, batch)
<1>. DEFINE n == [s EXCEPT !.history = r]
<1>1. s \in Statuses /\ Ring(s.history)
  BY DEF Good
<1>2. Ring(r) /\ (s.history # <<>> => r # <<>>)
  BY <1>1, BatchKept
<1>. HIDE DEF r
<1>3. r \in Seq(Nat)
  BY <1>2, RingType
<1>4. /\ n.history = r /\ n.snaps = s.snaps /\ n.drifted = s.drifted /\ n.lineage = s.lineage
      /\ n.trend = s.trend /\ n.regressed = s.regressed
  BY <1>1 DEF Statuses
<1>5. n \in Statuses
  BY <1>1, <1>3 DEF Statuses
<1>. HIDE DEF n
<1>. QED
  BY <1>2, <1>4, <1>5 DEF Good, n, r

\* The decisions on experiments.
LEMMA GoodDecision ==
    ASSUME judged \in Seq(Scores), NEW s, Good(s), NEW n \in 0..2,
           NEW decided \in [1..n -> [promoted : BOOLEAN, at : {Len(judged)}]]
    PROVE  Good([s EXCEPT !.lineage = s.lineage \o decided])
<1>. DEFINE r == s.lineage \o decided
<1>. DEFINE new == [s EXCEPT !.lineage = r]
<1>1. s \in Statuses /\ s.lineage \in Seq(Decisions)
  BY DEF Good, Statuses
<1>2. decided \in Seq(Decisions) /\ Len(decided) = n /\ n \in Nat
      /\ \A k \in 1..n : decided[k].at = Len(judged)
  <2>1. Len(judged) \in Nat
    OBVIOUS
  <2>2. \A k \in 1..n : decided[k] \in Decisions /\ decided[k].at = Len(judged)
    BY <2>1 DEF Decisions
  <2>. QED
    BY <2>2
<1>3. /\ r \in Seq(Decisions) /\ Len(r) = Len(s.lineage) + n /\ DOMAIN r = 1..Len(r)
      /\ DOMAIN s.lineage = 1..Len(s.lineage) /\ Len(s.lineage) \in Nat
      /\ \A k \in 1..Len(s.lineage) : r[k] = s.lineage[k]
      /\ \A k \in 1..Len(r) : k > Len(s.lineage) =>
             k - Len(s.lineage) \in 1..n /\ r[k] = decided[k - Len(s.lineage)]
  <2>. DEFINE line == s.lineage
  <2>1. line \in Seq(Decisions)
    BY <1>1
  <2>. HIDE DEF line
  <2>2. /\ r \in Seq(Decisions) /\ Len(r) = Len(line) + n /\ DOMAIN r = 1..Len(r)
        /\ DOMAIN line = 1..Len(line) /\ Len(line) \in Nat
    BY <2>1, <1>2 DEF line
  <2>3. \A k \in 1..Len(r) : r[k] = IF k <= Len(line) THEN line[k] ELSE decided[k - Len(line)]
    BY <2>1, <1>2 DEF line
  <2>4. \A k \in 1..Len(line) : k \in 1..Len(r) /\ k <= Len(line)
    BY <2>2, <1>2
  <2>5. \A k \in 1..Len(r) : k > Len(line) => k - Len(line) \in 1..n /\ ~(k <= Len(line))
    BY <2>2, <1>2
  <2>. HIDE DEF r
  <2>6. \A k \in 1..Len(line) : r[k] = line[k]
    BY <2>3, <2>4
  <2>7. \A k \in 1..Len(r) : k > Len(line) =>
             k - Len(line) \in 1..n /\ r[k] = decided[k - Len(line)]
    BY <2>3, <2>5
  <2>. QED
    BY <2>2, <2>6, <2>7 DEF line
<1>. HIDE DEF r
<1>4. /\ new.history = s.history /\ new.snaps = s.snaps /\ new.drifted = s.drifted
      /\ new.lineage = r /\ new.trend = s.trend /\ new.regressed = s.regressed
  BY <1>1 DEF Statuses
<1>5. new \in Statuses
  BY <1>1, <1>3 DEF Statuses
<1>. HIDE DEF new
<1>6. \A k \in DOMAIN r : r[k].at <= Len(judged)
  <2>. SUFFICES ASSUME NEW k \in 1..Len(r) PROVE r[k].at <= Len(judged)
    BY <1>3
  <2>1. CASE k > Len(s.lineage)
    BY <2>1, <1>2, <1>3
  <2>2. CASE ~(k > Len(s.lineage))
    <3>1. k \in 1..Len(s.lineage)
      BY <2>2, <1>3
    <3>. QED
      BY <3>1, <1>3 DEF Good
  <2>. QED
    BY <2>1, <2>2
<1>7. \A k \in DOMAIN s.lineage : k \in DOMAIN r /\ r[k] = s.lineage[k]
  BY <1>2, <1>3
<1>8. s.regressed =>
         \E k \in DOMAIN r, i, j \in DOMAIN judged :
             /\ r[k].promoted
             /\ i <= r[k].at /\ r[k].at < j
             /\ judged[j].val < judged[i].val
  BY <1>7 DEF Good
<1>. QED
  BY <1>4, <1>5, <1>6, <1>8 DEF Good, new, r

\* The memory step, whether or not a snapshot is due.
LEMMA GoodMemory ==
    ASSUME judged \in Seq(Scores), NEW s, Good(s), NEW snaps,
           \/ snaps = s.snaps
           \/ s.history # <<>> /\ snaps = WithSnapshot(s.snaps, RecentMean(s.history))
    PROVE  Good([s EXCEPT !.snaps = snaps, !.drifted = Drifted(snaps)])
<1>. DEFINE new == [s EXCEPT !.snaps = snaps, !.drifted = Drifted(snaps)]
<1>1. s \in Statuses /\ s.snaps \in Seq(Nat) /\ Ring(s.history)
  BY DEF Good, Statuses
<1>2. s.history \in Seq(Places)
  BY <1>1, RingType
<1>3. /\ snaps \in Seq(Nat)
      /\ snaps # <<>> => s.history # <<>>
      /\ Steady => \A k \in DOMAIN snaps, i \in Places : snaps[k] = judged[i].val * Scale
  <2>1. CASE snaps = s.snaps
    BY <2>1, <1>1 DEF Good
  <2>2. CASE s.history # <<>> /\ snaps = WithSnapshot(s.snaps, RecentMean(s.history))
    <3>. DEFINE mean == RecentMean(s.history)
    <3>. DEFINE a == Append(s.snaps, mean)
    <3>1. mean \in Nat
      BY <2>2, <1>2, RecentMeanFacts
    <3>2. Steady => \A i \in Places : mean = judged[i].val * Scale
      BY <2>2, <1>2, SteadyRing, RecentMeanFacts
    <3>. HIDE DEF mean
    <3>3. /\ a \in Seq(Nat) /\ Len(a) = Len(s.snaps) + 1 /\ Len(s.snaps) \in Nat
          /\ \A k \in 1..Len(a) : a[k] = mean \/ (k \in DOMAIN s.snaps /\ a[k] = s.snaps[k])
      BY <3>1, <1>1
    <3>4. Steady => \A k \in 1..Len(a), i \in Places : a[k] = judged[i].val * Scale
      BY <3>2, <3>3 DEF Good
    <3>5. snaps = LastOf(a, MaxSnapshots) /\ MaxSnapshots \in Nat /\ MaxSnapshots >= 1
      BY <2>2, Sizes DEF WithSnapshot, mean
    <3>. HIDE DEF a
    <3>6. /\ snaps \in Seq(Nat)
          /\ \A k \in 1..Len(snaps) : \E m \in 1..Len(a) : snaps[k] = a[m]
      <4>1. /\ LastOf(a, MaxSnapshots) \in Seq(Nat)
            /\ \A k \in 1..Len(LastOf(a, MaxSnapshots)) :
                 /\ LastOf(a, MaxSnapshots)[k] = a[Len(a) - Len(LastOf(a, MaxSnapshots)) + k]
                 /\ Len(a) - Len(LastOf(a, MaxSnapshots)) + k \in 1..Len(a)
        BY <3>3, <3>5, LastOfElements
      <4>. QED
        BY <4>1, <3>5
    <3>7. Steady => \A k \in DOMAIN snaps, i \in Places : snaps[k] = judged[i].val * Scale
      BY <3>4, <3>6
    <3>. QED
      BY <2>2, <3>6, <3>7
  <2>. QED
    BY <2>1, <2>2
<1>4. Drifted(snaps) => \E k, l \in DOMAIN snaps : k < l /\ snaps[l] < snaps[k]
  BY <1>3, DriftedDeclines
<1>5. Steady => ~Drifted(snaps)
  <2>. SUFFICES ASSUME Steady, Drifted(snaps) PROVE FALSE
    OBVIOUS
  <2>1. PICK k, l \in DOMAIN snaps : k < l /\ snaps[l] < snaps[k]
    BY <1>4
  <2>2. snaps # <<>>
    BY <2>1, <1>3
  <2>3. s.history[1] \in Places
    BY <2>2, <1>2, <1>3
  <2>. DEFINE c == judged[s.history[1]].val * Scale
  <2>4. snaps[l] = c /\ snaps[k] = c
    BY <2>3, <1>3
  <2>5. c \in Nat
    BY <2>4, <1>3
  <2>. HIDE DEF c
  <2>. QED
    BY <2>1, <2>4, <2>5
<1>6. Drifted(snaps) \in BOOLEAN
  BY DEF Drifted
<1>7. /\ new.history = s.history /\ new.snaps = snaps /\ new.drifted = Drifted(snaps)
      /\ new.lineage = s.lineage /\ new.trend = s.trend /\ new.regressed = s.regressed
  BY <1>1 DEF Statuses
<1>8. new \in Statuses
  BY <1>1, <1>3, <1>6 DEF Statuses
<1>. HIDE DEF new
<1>. QED
  BY <1>3, <1>4, <1>5, <1>7, <1>8 DEF Good, new

\* The trend is one of three, and stable under a steady judge.
LEMMA TrendFacts ==
    ASSUME judged \in Seq(Scores), NEW h \in Seq(Places)
    PROVE  QualityTrend(h) \in Trends /\ (Steady => QualityTrend(h) = "stable")
<1>. DEFINE n == TrendWindow
<1>. DEFINE recent == LastOf(h, n)
<1>. DEFINE older == SubSeq(h, Len(h) - 2 * n + 1, Len(h) - n)
<1>1. QualityTrend(h) \in Trends
  BY DEF QualityTrend, Trends
<1>2. ASSUME Steady PROVE QualityTrend(h) = "stable"
  <2>1. CASE Len(h) < 2 * n
    BY <2>1 DEF QualityTrend
  <2>2. CASE ~(Len(h) < 2 * n)
    <3>1. n \in Nat /\ n >= 1 /\ Len(h) \in Nat /\ Len(h) > n
      BY <2>2, Sizes
    <3>2. recent \in Seq(Places) /\ Len(recent) = n
      BY <3>1, LastOfElements
    <3>3. older \in Seq(Places) /\ Len(older) = n
      <4>1. /\ Len(h) - 2 * n + 1 \in 1..Len(h) + 1 /\ Len(h) - n \in 0..Len(h)
            /\ (Len(h) - n) - (Len(h) - 2 * n + 1) + 1 = n
        BY <3>1, <2>2
      <4>. QED
        BY <4>1, <3>1
    <3>4. h[1] \in Places
      BY <3>1
    <3>. DEFINE v == judged[h[1]].val
    <3>. HIDE DEF recent, older
    <3>5. ValueSum(recent) = v * n
      <4>1. v \in Nat /\ \A k \in 1..Len(recent) : judged[recent[k]].val = v
        BY <1>2, <3>2, <3>4, SteadyRing
      <4>. HIDE DEF v
      <4>. QED
        BY <4>1, <3>2, ValueSumFacts
    <3>6. ValueSum(older) = v * n
      <4>1. v \in Nat /\ \A k \in 1..Len(older) : judged[older[k]].val = v
        BY <1>2, <3>3, <3>4, SteadyRing
      <4>. HIDE DEF v
      <4>. QED
        BY <4>1, <3>3, ValueSumFacts
    <3>7. v * n \in Nat
      BY <1>2, <3>2, <3>4, <3>1, SteadyRing
    <3>. DEFINE diff == ValueSum(recent) - ValueSum(older)
    <3>8. diff = 0
      BY <3>5, <3>6, <3>7
    <3>9. ~(diff > 2 * n) /\ ~(diff < -(2 * n))
      <4>. HIDE DEF diff
      <4>. QED
        BY <3>1, <3>8
    <3>. QED
      BY <2>2, <3>9 DEF QualityTrend, recent, older
  <2>. QED
    BY <2>1, <2>2
<1>. QED
  BY <1>1, <1>2

\* The last promotion is one of the lineage's.
LEMMA LastPromotionIsOne ==
    ASSUME judged \in Seq(Scores), NEW s, Good(s), LastPromotion(s.lineage) # -1
    PROVE  \E k \in DOMAIN s.lineage :
               s.lineage[k].promoted /\ s.lineage[k].at = LastPromotion(s.lineage)
<1>. DEFINE P == {k \in DOMAIN s.lineage : s.lineage[k].promoted}
<1>. DEFINE S == {s.lineage[k].at : k \in P} \cup {-1}
<1>1. s.lineage \in Seq(Decisions) /\ \A k \in DOMAIN s.lineage : s.lineage[k].at <= Len(judged)
  BY DEF Good, Statuses
<1>2. \A k \in P : s.lineage[k].at \in Nat /\ s.lineage[k].at <= Len(judged)
  <2>1. \A k \in DOMAIN s.lineage : s.lineage[k] \in Decisions
    BY <1>1
  <2>. QED
    BY <2>1, <1>1 DEF Decisions
<1>3. Len(judged) \in Int /\ Len(judged) >= 0
  OBVIOUS
<1>4. -1 \in S /\ \A x \in S : x = -1 \/ \E k \in P : x = s.lineage[k].at
  OBVIOUS
<1>5. LastPromotion(s.lineage) = Max(S)
  BY DEF LastPromotion
<1>. HIDE DEF S
<1>6. S \in SUBSET Int /\ S # {} /\ \A x \in S : x <= Len(judged)
  BY <1>2, <1>3, <1>4
<1>7. Max(S) \in S
  BY <1>3, <1>6, MaxIsOne
<1>8. PICK k \in P : Max(S) = s.lineage[k].at
  BY <1>4, <1>5, <1>7
<1>. QED
  BY <1>5, <1>8

\* The scorecard step.
LEMMA GoodScorecard ==
    ASSUME judged \in Seq(Scores), NEW s, Good(s), NEW regressed,
           regressed = (/\ LastPromotion(s.lineage) # -1
                        /\ Regressed(s.history, LastPromotion(s.lineage)))
    PROVE  Good([s EXCEPT !.trend = QualityTrend(s.history), !.regressed = regressed])
<1>. DEFINE trend == QualityTrend(s.history)
<1>. DEFINE new == [s EXCEPT !.trend = trend, !.regressed = regressed]
<1>1. s \in Statuses /\ Ring(s.history) /\ s.lineage \in Seq(Decisions)
  BY DEF Good, Statuses
<1>2. s.history \in Seq(Places) /\ \A n \in DOMAIN s.history : s.history[n] \in DOMAIN judged
  BY <1>1, RingType
<1>3. trend \in Trends /\ (Steady => trend = "stable")
  BY <1>2, TrendFacts
<1>4. regressed \in BOOLEAN
  OBVIOUS
<1>5. regressed =>
         \E k \in DOMAIN s.lineage, m, n \in DOMAIN s.history :
             /\ s.lineage[k].promoted
             /\ s.history[m] <= s.lineage[k].at /\ s.lineage[k].at < s.history[n]
             /\ judged[s.history[n]].val < judged[s.history[m]].val
  <2>. SUFFICES ASSUME LastPromotion(s.lineage) # -1,
                       Regressed(s.history, LastPromotion(s.lineage))
                PROVE  \E k \in DOMAIN s.lineage, m, n \in DOMAIN s.history :
                         /\ s.lineage[k].promoted
                         /\ s.history[m] <= s.lineage[k].at /\ s.lineage[k].at < s.history[n]
                         /\ judged[s.history[n]].val < judged[s.history[m]].val
    OBVIOUS
  <2>1. PICK k \in DOMAIN s.lineage :
          s.lineage[k].promoted /\ s.lineage[k].at = LastPromotion(s.lineage)
    BY LastPromotionIsOne
  <2>. DEFINE pivot == LastPromotion(s.lineage)
  <2>2. pivot \in Int
    <3>1. s.lineage[k] \in Decisions
      BY <1>1
    <3>. QED
      BY <3>1, <2>1 DEF Decisions
  <2>. HIDE DEF pivot
  <2>3. PICK m, n \in DOMAIN s.history :
          /\ s.history[m] <= pivot /\ pivot < s.history[n]
          /\ judged[s.history[n]].val < judged[s.history[m]].val
    BY <2>2, <1>2, RegressedDeclines DEF pivot
  <2>. QED
    BY <2>1, <2>3 DEF pivot
<1>6. Steady => ~regressed
  <2>1. \A n \in DOMAIN s.history : s.history[n] \in Places
    BY <1>2
  <2>. SUFFICES ASSUME Steady, regressed PROVE FALSE
    OBVIOUS
  <2>2. PICK m, n \in DOMAIN s.history :
          judged[s.history[n]].val < judged[s.history[m]].val
    BY <1>5
  <2>3. judged[s.history[n]].val = judged[s.history[m]].val /\ judged[s.history[n]].val \in Nat
    BY <2>1, ValueType DEF Steady
  <2>. QED
    BY <2>2, <2>3
<1>. HIDE DEF trend
<1>7. /\ new.history = s.history /\ new.snaps = s.snaps /\ new.drifted = s.drifted
      /\ new.lineage = s.lineage /\ new.trend = trend /\ new.regressed = regressed
  BY <1>1 DEF Statuses
<1>8. new \in Statuses
  BY <1>1, <1>3, <1>4 DEF Statuses
<1>9. regressed =>
         \E k \in DOMAIN s.lineage, i, j \in DOMAIN judged :
             /\ s.lineage[k].promoted
             /\ i <= s.lineage[k].at /\ s.lineage[k].at < j
             /\ judged[j].val < judged[i].val
  BY <1>2, <1>5
<1>. HIDE DEF new
<1>. QED
  BY <1>3, <1>6, <1>7, <1>8, <1>9 DEF Good, new, trend

(***************************************************************************)
(* The steps.                                                              *)
(***************************************************************************)

\* What is good stays so while no score arrives.
LEMMA GoodStays ==
    ASSUME NEW s, Good(s), judged' = judged
    PROVE  Good(s)'
<1>1. Places' = Places
  BY DEF Places
<1>2. Ring(s.history) => Ring(s.history)'
  BY <1>1 DEF Ring, Key
<1>3. Steady' <=> Steady
  BY <1>1 DEF Steady
<1>. QED
  BY <1>1, <1>2, <1>3 DEF Good

\* The scores there were stay where they were when one more arrives.
LEMMA ScoreAppended ==
    ASSUME judged \in Seq(Scores), NEW score \in Scores, judged' = Append(judged, score)
    PROVE  /\ judged' \in Seq(Scores) /\ Len(judged') = Len(judged) + 1
           /\ Len(judged) \in Nat /\ DOMAIN judged = 1..Len(judged)
           /\ DOMAIN judged' = 1..Len(judged) + 1
           /\ \A i \in DOMAIN judged : i \in DOMAIN judged' /\ judged'[i] = judged[i]
           /\ \A i \in Places : i \in Places' /\ i \in DOMAIN judged
<1>1. /\ judged' \in Seq(Scores) /\ Len(judged') = Len(judged) + 1
      /\ Len(judged) \in Nat /\ DOMAIN judged = 1..Len(judged)
      /\ DOMAIN judged' = 1..Len(judged) + 1
  OBVIOUS
<1>2. \A i \in DOMAIN judged : i \in DOMAIN judged' /\ judged'[i] = judged[i]
  OBVIOUS
<1>3. \A i \in Places : i \in Places' /\ i \in DOMAIN judged
  BY <1>2 DEF Places
<1>. QED
  BY <1>1, <1>2, <1>3

\* What is good stays so when a score arrives.
LEMMA GoodWithScore ==
    ASSUME judged \in Seq(Scores), NEW score \in Scores, judged' = Append(judged, score),
           NEW s, Good(s)
    PROVE  Good(s)'
<1>1. /\ Len(judged) \in Nat /\ Len(judged') = Len(judged) + 1
      /\ \A i \in DOMAIN judged : i \in DOMAIN judged' /\ judged'[i] = judged[i]
      /\ \A i \in Places : i \in Places' /\ i \in DOMAIN judged
  BY ScoreAppended
<1>2. /\ s \in Statuses /\ Ring(s.history) /\ s.history \in Seq(Places)
      /\ DOMAIN s.history = 1..Len(s.history) /\ Len(s.history) \in Nat
      /\ \A k \in DOMAIN s.history : s.history[k] \in Places
  BY RingType DEF Good
<1>3. Ring(s.history)'
  <2>1. s.history \in Seq(Places')
    <3>1. \A k \in DOMAIN s.history : s.history[k] \in Places'
      BY <1>1, <1>2
    <3>. QED
      BY <3>1, <1>2
  <2>2. \A k \in DOMAIN s.history : judged'[s.history[k]] = judged[s.history[k]]
    BY <1>1, <1>2
  <2>. QED
    BY <2>1, <2>2, <1>2 DEF Ring, Key
<1>4. \A k \in DOMAIN s.lineage : s.lineage[k].at <= Len(judged')
  <2>. SUFFICES ASSUME NEW k \in DOMAIN s.lineage PROVE s.lineage[k].at <= Len(judged')
    OBVIOUS
  <2>1. s.lineage \in Seq(Decisions)
    BY <1>2 DEF Statuses
  <2>2. s.lineage[k] \in Decisions
    BY <2>1
  <2>3. s.lineage[k].at \in Nat /\ s.lineage[k].at <= Len(judged)
    BY <2>2 DEF Decisions, Good
  <2>. QED
    BY <2>3, <1>1
<1>5. ASSUME Steady'
      PROVE  /\ \A k \in DOMAIN s.snaps, i \in Places' :
                    s.snaps[k] = judged'[i].val * Scale
             /\ ~s.drifted /\ ~s.regressed /\ s.trend = "stable"
  <2>1. Steady
    <3>. SUFFICES ASSUME NEW i \in Places, NEW j \in Places
                  PROVE  judged[i].val = judged[j].val
      BY DEF Steady
    <3>1. i \in Places' /\ j \in Places' /\ judged'[i] = judged[i] /\ judged'[j] = judged[j]
      BY <1>1
    <3>. QED
      BY <3>1, <1>5 DEF Steady
  <2>2. ASSUME NEW k \in DOMAIN s.snaps, NEW i \in Places'
        PROVE  s.snaps[k] = judged'[i].val * Scale
    <3>1. s.history # <<>>
      <4>1. s.snaps # <<>>
        BY <2>2
      <4>. QED
        BY <4>1 DEF Good
    <3>2. 1 \in DOMAIN s.history
      BY <3>1, <1>2
    <3>3. s.history[1] \in Places
      BY <3>2, <1>2
    <3>4. s.snaps[k] = judged[s.history[1]].val * Scale
      BY <3>3, <2>1 DEF Good
    <3>5. s.history[1] \in Places' /\ judged'[s.history[1]] = judged[s.history[1]]
      BY <3>3, <1>1
    <3>6. judged'[i].val = judged'[s.history[1]].val
      BY <3>5, <1>5 DEF Steady
    <3>. QED
      BY <3>4, <3>5, <3>6
  <2>. QED
    BY <2>1, <2>2 DEF Good
<1>6. s.regressed =>
         \E k \in DOMAIN s.lineage, i, j \in DOMAIN judged' :
             /\ s.lineage[k].promoted
             /\ i <= s.lineage[k].at /\ s.lineage[k].at < j
             /\ judged'[j].val < judged'[i].val
  BY <1>1 DEF Good
<1>. QED
  BY <1>2, <1>3, <1>4, <1>5, <1>6 DEF Good

\* The initial states.
LEMMA InitIInv ==
    ASSUME Init
    PROVE  IInv
<1>1. judged \in Seq(Scores) /\ Len(judged) = 0
  BY DEF Init
<1>2. RestOK
  BY <1>1, BoundsAssumption DEF Init, RestOK, Steps
<1>3. Good(stored) /\ Good(me)
  BY <1>1, GoodNewStatus DEF Init
<1>4. Reach
  BY DEF Init, Reach
<1>. QED
  BY <1>2, <1>3, <1>4 DEF IInv

\* A step of Reconcile that only changes the copy it holds, into another good one with
\* the same history.
LEMMA CopyStep ==
    ASSUME IInv, NEW s, Good(s), s.history = me.history, me' = s, pc # "idle",
           pc' \in Steps, UNCHANGED <<judged, stored, faults, recorded>>
    PROVE  IInv'
<1>1. RestOK'
  BY DEF IInv, RestOK
<1>2. Good(stored)'
  BY GoodStays DEF IInv
<1>3. Good(me)'
  <2>1. Good(s)'
    BY GoodStays
  <2>. QED
    BY <2>1
<1>4. Reach'
  BY DEF IInv, Reach
<1>. QED
  BY <1>1, <1>2, <1>3, <1>4 DEF IInv

\* A step after which Reconcile is idle, the status good and its scores within reach.
LEMMA ReturnStep ==
    ASSUME IInv, NEW s, Good(s), stored' = s, Return, judged' = judged,
           faults' \in 0..MaxFaults, recorded' \subseteq DOMAIN judged,
           \A i \in recorded' : i \in Range(s.history) \/ i <= Len(judged) - QueryLimit
    PROVE  IInv'
<1>1. judged \in Seq(Scores)
  BY DEF IInv, RestOK
<1>2. RestOK'
  BY DEF IInv, RestOK, Return, Steps
<1>3. Good(stored)'
  <2>1. Good(s)'
    BY GoodStays
  <2>. QED
    BY <2>1
<1>4. Good(me)'
  <2>. DEFINE n == NewStatus
  <2>1. Good(n) /\ me' = n
    BY <1>1, GoodNewStatus DEF Return
  <2>2. Good(n)'
    <3>. HIDE DEF n
    <3>. QED
      BY <2>1, GoodStays DEF n
  <2>. HIDE DEF n
  <2>. QED
    BY <2>1, <2>2 DEF n
<1>5. Reach'
  BY DEF Reach, Return
<1>. QED
  BY <1>2, <1>3, <1>4, <1>5 DEF IInv

\* Langfuse answers: what it lists again of a stored score was still in the history.
LEMMA AnswerStep ==
    ASSUME IInv, pc = "history", pc' \in Steps, NEW batch \in Batches,
           me' = [me EXCEPT !.history = WithScores(me.history, batch)],
           UNCHANGED <<judged, stored, faults, recorded>>
    PROVE  IInv'
<1>. DEFINE r == WithScores(me.history, batch)
<1>. DEFINE N == Len(judged)
<1>1. /\ judged \in Seq(Scores) /\ recorded \subseteq DOMAIN judged
      /\ N \in Nat /\ DOMAIN judged = 1..N
  BY DEF IInv, RestOK
<1>2. Good(me) /\ Ring(me.history) /\ me \in Statuses
  BY DEF IInv, Good
<1>3. /\ \A p \in DOMAIN r : r[p] \in Range(me.history) \cup Latest
      /\ \A i \in Range(me.history) : i \in Range(r) \/ i <= N - QueryLimit
  BY <1>1, <1>2, BatchKept
<1>4. /\ \A i \in recorded : i \in Range(me.history) \/ i <= N - QueryLimit
      /\ \A i \in Range(me.history) : i \in recorded => i \in Range(stored.history)
      /\ \A i \in recorded : i \in Range(stored.history) \/ i <= N - QueryLimit
  BY DEF IInv, Reach
<1>. HIDE DEF r
<1>5. \A i \in recorded : i \in Range(r) \/ i <= N - QueryLimit
  BY <1>3, <1>4
<1>6. \A i \in Range(r) : i \in recorded => i \in Range(stored.history)
  <2>. SUFFICES ASSUME NEW i \in Range(r), i \in recorded PROVE i \in Range(stored.history)
    OBVIOUS
  <2>1. i \in Range(me.history) \cup Latest
    BY <1>3 DEF Range
  <2>2. CASE i \in Range(me.history)
    BY <2>2, <1>4
  <2>3. CASE i \in Latest
    <3>1. i \in 1..N /\ i > N - QueryLimit
      BY <2>3, <1>1 DEF Latest
    <3>2. ~(i <= N - QueryLimit)
      BY <3>1, <1>1, Sizes
    <3>. QED
      BY <3>2, <1>4
  <2>. QED
    BY <2>1, <2>2, <2>3
<1>7. PICK s : s = me' /\ Good(s) /\ s.history = r
  <2>. DEFINE n == [me EXCEPT !.history = r]
  <2>1. Good(n)
    BY <1>1, <1>2, GoodHistory DEF r
  <2>2. n.history = r
    BY <1>2 DEF Statuses
  <2>3. n = me'
    BY DEF r
  <2>. QED
    BY <2>1, <2>2, <2>3
<1>8. RestOK'
  BY DEF IInv, RestOK
<1>9. Good(stored)'
  BY GoodStays DEF IInv
<1>10. Good(me)'
  <2>1. Good(s)'
    BY <1>7, GoodStays
  <2>. QED
    BY <2>1, <1>7
<1>11. Reach'
  <2>1. me'.history = r
    BY <1>7
  <2>. QED
    BY <2>1, <1>4, <1>5, <1>6 DEF Reach
<1>. QED
  BY <1>8, <1>9, <1>10, <1>11 DEF IInv

\* No step loses the invariant.
LEMMA NextIInv ==
    ASSUME IInv, [Next]_vars
    PROVE  IInv'
<1>1. /\ judged \in Seq(Scores) /\ Len(judged) <= MaxScores /\ pc \in Steps
      /\ faults \in 0..MaxFaults /\ recorded \subseteq DOMAIN judged
      /\ Good(stored) /\ Good(me) /\ me \in Statuses
  BY DEF IInv, RestOK, Good
<1>2. CASE Fetch
  <2>1. RestOK'
    BY <1>2 DEF IInv, RestOK, Fetch, Steps
  <2>2. Good(stored)'
    BY <1>2, GoodStays DEF IInv, Fetch
  <2>3. PICK s : s = stored /\ me' = s /\ Good(s)
    BY <1>1, <1>2 DEF Fetch
  <2>4. Good(me)'
    <3>1. Good(s)'
      BY <2>3, <1>2, GoodStays DEF Fetch
    <3>. QED
      BY <3>1, <2>3
  <2>5. Reach'
    BY <1>2 DEF IInv, Reach, Fetch
  <2>. QED
    BY <2>1, <2>2, <2>4, <2>5 DEF IInv
<1>3. CASE ReconcileEvalHistory
  <2>1. pc = "history" /\ pc' \in Steps /\ UNCHANGED <<judged, stored, recorded>>
    BY <1>3 DEF ReconcileEvalHistory, Steps
  <2>2. CASE /\ UNCHANGED faults
             /\ \E batch \in Batches :
                  me' = [me EXCEPT !.history = WithScores(me.history, batch)]
    BY <2>1, <2>2, AnswerStep
  <2>3. CASE Fault /\ UNCHANGED me
    <3>1. RestOK'
      BY <1>1, <2>1, <2>3, BoundsAssumption DEF RestOK, Fault
    <3>2. Good(stored)' /\ Good(me)'
      BY <1>1, <2>1, <2>3, GoodStays
    <3>3. Reach'
      BY <2>1, <2>3 DEF IInv, Reach
    <3>. QED
      BY <3>1, <3>2, <3>3 DEF IInv
  <2>. QED
    BY <1>3, <2>2, <2>3 DEF ReconcileEvalHistory
<1>4. CASE DecideExperiment
  <2>1. pc # "idle" /\ pc' \in Steps /\ UNCHANGED <<judged, stored, faults, recorded>>
    BY <1>4 DEF DecideExperiment, Steps
  <2>2. \E n \in 0..2 : \E decided \in [1..n -> [promoted : BOOLEAN, at : {Len(judged)}]] :
          me' = [me EXCEPT !.lineage = me.lineage \o decided]
    BY <1>4 DEF DecideExperiment
  <2>. PICK n \in 0..2 :
         \E decided \in [1..n -> [promoted : BOOLEAN, at : {Len(judged)}]] :
           me' = [me EXCEPT !.lineage = me.lineage \o decided]
    BY <2>2
  <2>. PICK decided \in [1..n -> [promoted : BOOLEAN, at : {Len(judged)}]] :
         me' = [me EXCEPT !.lineage = me.lineage \o decided]
    OBVIOUS
  <2>3. Good([me EXCEPT !.lineage = me.lineage \o decided])
    BY <1>1, GoodDecision
  <2>4. PICK s : s = [me EXCEPT !.lineage = me.lineage \o decided]
    OBVIOUS
  <2>5. s.history = me.history
    BY <2>4, <1>1 DEF Statuses
  <2>. QED
    BY <2>1, <2>3, <2>4, <2>5, CopyStep
<1>5. CASE ReconcileMemoryLifecycle
  <2>1. pc # "idle" /\ pc' \in Steps /\ UNCHANGED <<judged, stored, faults, recorded>>
    BY <1>5 DEF ReconcileMemoryLifecycle, Steps
  <2>2. PICK snaps :
          /\ \/ snaps = me.snaps
             \/ me.history # <<>> /\ snaps = WithSnapshot(me.snaps, RecentMean(me.history))
          /\ me' = [me EXCEPT !.snaps = snaps, !.drifted = Drifted(snaps)]
    <3>1. PICK due \in BOOLEAN :
            LET snaps == IF due /\ me.history # <<>>
                           THEN WithSnapshot(me.snaps, RecentMean(me.history)) ELSE me.snaps
            IN  me' = [me EXCEPT !.snaps = snaps, !.drifted = Drifted(snaps)]
      BY <1>5 DEF ReconcileMemoryLifecycle
    <3>. QED
      BY <3>1
  <2>3. Good([me EXCEPT !.snaps = snaps, !.drifted = Drifted(snaps)])
    BY <1>1, <2>2, GoodMemory
  <2>4. PICK s : s = [me EXCEPT !.snaps = snaps, !.drifted = Drifted(snaps)]
    OBVIOUS
  <2>5. s.history = me.history
    BY <2>4, <1>1 DEF Statuses
  <2>. QED
    BY <2>1, <2>2, <2>3, <2>4, <2>5, CopyStep
<1>6. CASE ReconcileScorecard
  <2>1. pc # "idle" /\ pc' \in Steps /\ UNCHANGED <<judged, stored, faults, recorded>>
    BY <1>6 DEF ReconcileScorecard, Steps
  <2>2. PICK regressed :
          regressed = (/\ LastPromotion(me.lineage) # -1
                       /\ Regressed(me.history, LastPromotion(me.lineage)))
    OBVIOUS
  <2>3. me' = [me EXCEPT !.trend = QualityTrend(me.history), !.regressed = regressed]
    BY <1>6, <2>2 DEF ReconcileScorecard
  <2>4. Good([me EXCEPT !.trend = QualityTrend(me.history), !.regressed = regressed])
    BY <1>1, <2>2, GoodScorecard
  <2>5. PICK s :
          s = [me EXCEPT !.trend = QualityTrend(me.history), !.regressed = regressed]
    OBVIOUS
  <2>6. s.history = me.history
    BY <2>5, <1>1 DEF Statuses
  <2>. QED
    BY <2>1, <2>3, <2>4, <2>5, <2>6, CopyStep
<1>7. CASE UpdateStatus
  <2>1. PICK s : s = me
    OBVIOUS
  <2>2. /\ Good(s) /\ stored' = s /\ Return /\ UNCHANGED <<judged, faults>>
        /\ recorded' = recorded \cup Range(s.history)
    BY <2>1, <1>1, <1>7 DEF UpdateStatus
  <2>3. \A i \in recorded' : i \in Range(s.history) \/ i <= Len(judged) - QueryLimit
    <3>1. pc # "idle"
      BY <1>7 DEF UpdateStatus
    <3>2. \A i \in recorded : i \in Range(s.history) \/ i <= Len(judged) - QueryLimit
      BY <2>1, <3>1 DEF IInv, Reach
    <3>. QED
      BY <2>2, <3>2
  <2>4. recorded' \subseteq DOMAIN judged
    <3>1. Ring(s.history)
      BY <2>2 DEF Good
    <3>2. \A k \in DOMAIN s.history : s.history[k] \in DOMAIN judged
      BY <3>1, <1>1, RingType
    <3>. QED
      BY <2>2, <3>2, <1>1 DEF Range
  <2>. QED
    BY <2>2, <2>3, <2>4, <1>1, ReturnStep
<1>8. CASE StatusFails
  <2>1. PICK s : s = stored
    OBVIOUS
  <2>2. Good(s) /\ stored' = s /\ Return /\ UNCHANGED <<judged, recorded>>
    BY <2>1, <1>1, <1>8 DEF StatusFails
  <2>3. faults' \in 0..MaxFaults
    BY <1>1, <1>8, BoundsAssumption DEF StatusFails, Fault
  <2>4. \A i \in recorded' : i \in Range(s.history) \/ i <= Len(judged) - QueryLimit
    BY <2>1, <2>2 DEF IInv, Reach
  <2>. QED
    BY <2>2, <2>3, <2>4, <1>1, ReturnStep
<1>9. CASE Judge
  <2>1. PICK score \in Scores : judged' = Append(judged, score)
    BY <1>9 DEF Judge
  <2>2. Len(judged) < MaxScores /\ UNCHANGED <<stored, pc, me, faults, recorded>>
    BY <1>9 DEF Judge
  <2>3. /\ judged' \in Seq(Scores) /\ Len(judged') = Len(judged) + 1
        /\ Len(judged) \in Nat /\ DOMAIN judged = 1..Len(judged)
        /\ \A i \in DOMAIN judged : i \in DOMAIN judged'
    BY <1>1, <2>1, ScoreAppended
  <2>4. RestOK'
    BY <1>1, <2>2, <2>3, BoundsAssumption DEF RestOK
  <2>5. Good(stored)' /\ Good(me)'
    BY <1>1, <2>1, <2>2, GoodWithScore
  <2>6. \A i \in recorded : i <= Len(judged) - QueryLimit => i <= Len(judged') - QueryLimit
    <3>1. \A i \in recorded : i \in Nat
      BY <1>1, <2>3
    <3>. QED
      BY <3>1, <2>3, Sizes
  <2>7. Reach'
    BY <2>2, <2>6 DEF IInv, Reach
  <2>. QED
    BY <2>4, <2>5, <2>7 DEF IInv
<1>10. CASE UNCHANGED vars
  <2>1. UNCHANGED <<judged, stored, pc, me, faults, recorded>>
    BY <1>10 DEF vars
  <2>2. Good(stored)' /\ Good(me)'
    BY <1>1, <2>1, GoodStays
  <2>. QED
    BY <2>1, <2>2 DEF IInv, RestOK, Reach
<1>. QED
  BY <1>2, <1>3, <1>4, <1>5, <1>6, <1>7, <1>8, <1>9, <1>10 DEF Next, Controller

\* Every reachable state has it.
THEOREM Invariance == Spec => []IInv
<1>1. Init => IInv
  BY InitIInv
<1>2. IInv /\ [Next]_vars => IInv'
  BY NextIInv
<1>. QED
  BY <1>1, <1>2, PTL DEF Spec

(***************************************************************************)
(* The theorems.                                                           *)
(***************************************************************************)

\* The variables have their types, and neither copy of the history outgrows the ring.
THEOREM TypeInvariant == Spec => []TypeOK
<1>1. IInv => TypeOK
  BY DEF IInv, RestOK, Good, Ring, TypeOK
<1>. QED
  BY <1>1, Invariance, PTL

\* Under a judge who always gives the same score there is no drift, no regression and
\* no trend, for every size of the rings and windows.
THEOREM SteadyQualityStaysQuiet == Spec => []SteadyQualityIsQuiet
<1>1. ASSUME IInv PROVE SteadyQualityIsQuiet
  <2>. SUFFICES ASSUME \A i, j \in DOMAIN judged :
                           NoVersion \notin {judged[i].ver, judged[j].ver} =>
                               judged[i].val = judged[j].val
                PROVE  \A status \in {stored, me} :
                           ~status.drifted /\ ~status.regressed /\ status.trend = "stable"
    BY DEF SteadyQualityIsQuiet
  <2>1. Steady
    BY DEF Steady, Places
  <2>. QED
    BY <1>1, <2>1 DEF IInv, Good
<1>. QED
  BY <1>1, Invariance, PTL

\* Behind every drift reported are two snapshots of which the later is lower.
THEOREM DriftIsDecline == Spec => []DriftMeansDecline
<1>1. IInv => DriftMeansDecline
  BY DEF IInv, Good, DriftMeansDecline
<1>. QED
  BY <1>1, Invariance, PTL

\* Behind every regression reported is a promotion with a higher score before it and a
\* lower one after it.
THEOREM RegressionIsAfterPromotion == Spec => []RegressionFollowsPromotion
<1>1. IInv => RegressionFollowsPromotion
  BY DEF IInv, Good, RegressionFollowsPromotion
<1>. QED
  BY <1>1, Invariance, PTL

\* A score is stored once: what the ring evicts is out of the query's reach, so that
\* it cannot come back, whatever conflicts, outages and restarts came between.
THEOREM NoScoreStoredTwice == Spec => NoScoreTwice
<1>1. ASSUME IInv, [Next]_vars
      PROVE  [\A k \in DOMAIN stored'.history :
                LET i == stored'.history[k]
                IN  i \in recorded => i \in Range(stored.history)]_vars
  <2>1. CASE stored' = stored
    BY <2>1 DEF Range
  <2>2. CASE UpdateStatus
    <3>1. stored' = me /\ pc # "idle"
      BY <2>2 DEF UpdateStatus
    <3>2. \A i \in Range(me.history) : i \in recorded => i \in Range(stored.history)
      BY <1>1, <3>1 DEF IInv, Reach
    <3>. QED
      BY <3>1, <3>2 DEF Range
  <2>3. stored' = stored \/ UpdateStatus
    BY <1>1 DEF Next, Controller, Fetch, ReconcileEvalHistory, DecideExperiment,
                ReconcileMemoryLifecycle, ReconcileScorecard, StatusFails, Judge, vars
  <2>. QED
    BY <2>1, <2>2, <2>3
<1>. QED
  BY <1>1, Invariance, PTL DEF Spec, NoScoreTwice

\* When Langfuse has answered, none of the latest scores is missed that was not known
\* before: no batch evicts what it has just added.
THEOREM LatestScoresKnown == Spec => LatestKnown
<1>1. ASSUME IInv, [Next]_vars
      PROVE  [pc = "history" /\ pc' = "experiment" /\ faults' = faults =>
                \A i \in Latest :
                  \E j \in Range(me.history) \cup Range(me'.history) : Key(j) = Key(i)]_vars
  <2>. SUFFICES ASSUME pc = "history", pc' = "experiment", faults' = faults, NEW i \in Latest
                PROVE  \E j \in Range(me.history) \cup Range(me'.history) : Key(j) = Key(i)
    OBVIOUS
  <2>1. ReconcileEvalHistory
    BY <1>1 DEF Next, Controller, Fetch, DecideExperiment, ReconcileMemoryLifecycle,
                ReconcileScorecard, UpdateStatus, StatusFails, Return, Judge, vars
  <2>2. ~Fault
    BY <1>1 DEF Fault, IInv, RestOK
  <2>3. PICK batch \in Batches : me' = [me EXCEPT !.history = WithScores(me.history, batch)]
    BY <2>1, <2>2 DEF ReconcileEvalHistory
  <2>4. judged \in Seq(Scores) /\ Ring(me.history) /\ me \in Statuses
    BY <1>1 DEF IInv, RestOK, Good
  <2>5. \E j \in Range(me.history) \cup Range(WithScores(me.history, batch)) : Key(j) = Key(i)
    BY <2>4, BatchKept
  <2>6. me'.history = WithScores(me.history, batch)
    BY <2>3, <2>4 DEF Statuses
  <2>. QED
    BY <2>5, <2>6
<1>. QED
  BY <1>1, Invariance, PTL DEF Spec, LatestKnown

=============================================================================

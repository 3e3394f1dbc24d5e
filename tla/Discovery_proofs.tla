-------------------------- MODULE Discovery_proofs --------------------------
(***************************************************************************)
(* What the fold of Aggregate and the slice of Selection compute, for any  *)
(* list of records: each test id once, in the order of its first record,   *)
(* as many as the limit lets through.                                      *)
(***************************************************************************)
EXTENDS Discovery, FiniteSetTheorems, WellFoundedInduction, TLAPS

\* Induction over the naturals, stated of a set: 0 and every successor are in it.
LEMMA Induction ==
    ASSUME NEW S, 0 \in S, \A n \in Nat : n \in S => n + 1 \in S
    PROVE  Nat \subseteq S
<1> DEFINE less == OpToRel(<, Nat)
           others == Nat \ S
<1>1. SUFFICES ASSUME others # {} PROVE FALSE
  OBVIOUS
<1>2. IsWellFoundedOn(less, Nat)
  BY NatLessThanWellFounded
<1>3. PICK n \in others : \A m \in others : <<m, n>> \notin less
  <2> HIDE DEF less
  <2> QED  BY <1>1, <1>2, WFMin
<1>4. \A m \in others : ~(m < n)
  BY <1>3 DEF OpToRel
<1> QED  BY <1>4

\* A nonempty set of naturals has a least element.
LEMMA LeastNumber ==
    ASSUME NEW S, S \subseteq Nat, S # {}
    PROVE  \E n \in S : \A m \in S : n <= m
<1> DEFINE below == {n \in Nat : \A m \in S : m > n}
<1>1. SUFFICES ASSUME \A n \in S : \E m \in S : m < n PROVE FALSE
  OBVIOUS
<1>2. 0 \in below
  <2>1. ASSUME NEW m \in S PROVE m > 0
    BY <1>1
  <2> QED  BY <2>1
<1>3. ASSUME NEW n \in Nat, n \in below PROVE n + 1 \in below
  <2>1. ASSUME NEW m \in S PROVE m > n + 1
    <3>1. PICK k \in S : k < m
      BY <1>1
    <3>2. k > n
      BY <1>3
    <3> QED  BY <3>1, <3>2
  <2> QED  BY <2>1
<1>4. Nat \subseteq below
  <2> HIDE DEF below
  <2> QED  BY <1>2, <1>3, Induction
<1>5. PICK n \in S : n \in Nat
  OBVIOUS
<1>6. n > n
  BY <1>4, <1>5
<1> QED  BY <1>5, <1>6
------------------------------------------------------------------------------
\* The largest number of a set of positions is the last one.
LEMMA LastPosition ==
    ASSUME NEW n \in Nat, NEW s \in SUBSET (1 .. n), n \in s
    PROVE  Max(s) = n
<1>1. n \in s /\ \A m \in s : n >= m
  OBVIOUS
<1>2. Max(s) \in s /\ \A m \in s : Max(s) >= m
  BY <1>1 DEF Max
<1>3. Max(s) \in 1 .. n /\ n >= Max(s) /\ Max(s) >= n
  BY <1>1, <1>2
<1> QED  BY <1>3

\* A nonempty set of positions has a largest one.
LEMMA HasLast ==
    ASSUME NEW n \in Nat, NEW s \in SUBSET (1 .. n), s # {}
    PROVE  Max(s) \in s /\ \A m \in s : Max(s) >= m
<1> DEFINE gaps == {n - m : m \in s}
<1>1. gaps \subseteq Nat /\ gaps # {}
  <2>1. \A m \in s : n - m \in Nat
    OBVIOUS
  <2>2. PICK m \in s : n - m \in gaps
    OBVIOUS
  <2> QED  BY <2>1, <2>2
<1>2. PICK g \in gaps : \A h \in gaps : g <= h
  BY <1>1, LeastNumber
<1>3. PICK m \in s : g = n - m
  OBVIOUS
<1>4. \A k \in s : m >= k
  <2>1. ASSUME NEW k \in s PROVE n - m <= n - k
    BY <1>2, <1>3
  <2> QED  BY <2>1
<1> QED  BY <1>4 DEF Max

\* iter folds sets of positions, the last one in the outermost place.
IsFold(iter, n, S, base, step) ==
    /\ iter \in [SUBSET (1 .. n) -> S]
    /\ \A s \in SUBSET (1 .. n) :
          iter[s] = IF s = {} THEN base ELSE step[<<iter[s \ {Max(s)}], Max(s)>>]

\* A fold over positions 1 .. n exists, whatever its step.
LEMMA FoldDefined ==
    ASSUME NEW n \in Nat, NEW S, NEW base \in S, NEW step,
           \A v \in S, i \in 1 .. n : step[<<v, i>>] \in S
    PROVE  \E iter : IsFold(iter, n, S, base, step)
<1> DEFINE Folds(k, iter) ==
              \A s \in SUBSET (1 .. k) :
                 iter[s] = IF s = {} THEN base ELSE step[<<iter[s \ {Max(s)}], Max(s)>>]
           Defined(k) == \E iter \in [SUBSET (1 .. k) -> S] : Folds(k, iter)
           done == {k \in Nat : k <= n => Defined(k)}
<1>1. Defined(0)
  <2> DEFINE iter == [s \in SUBSET (1 .. 0) |-> base]
  <2>1. \A s \in SUBSET (1 .. 0) : s = {}
    OBVIOUS
  <2>2. iter \in [SUBSET (1 .. 0) -> S] /\ Folds(0, iter)
    BY <2>1
  <2> QED  BY <2>2
<1>2. ASSUME NEW k \in Nat, k + 1 <= n, Defined(k) PROVE Defined(k + 1)
  <2>2. PICK iter \in [SUBSET (1 .. k) -> S] : Folds(k, iter)
    BY <1>2
  <2> DEFINE next == [s \in SUBSET (1 .. k + 1) |->
                        IF k + 1 \in s THEN step[<<iter[s \ {k + 1}], k + 1>>] ELSE iter[s]]
  <2>3. ASSUME NEW s \in SUBSET (1 .. k + 1), k + 1 \notin s PROVE s \in SUBSET (1 .. k)
    BY <2>3
  <2>4. ASSUME NEW s \in SUBSET (1 .. k + 1)
        PROVE  next[s] \in S
               /\ next[s] = IF s = {} THEN base ELSE step[<<next[s \ {Max(s)}], Max(s)>>]
    <3>1. CASE k + 1 \in s
      <4>1. Max(s) = k + 1
        BY <3>1, LastPosition
      <4>2. s \ {k + 1} \in SUBSET (1 .. k) /\ s \ {k + 1} \in SUBSET (1 .. k + 1)
        BY <2>3
      <4>3. next[s \ {k + 1}] = iter[s \ {k + 1}]
        BY <4>2
      <4>4. next[s] = step[<<iter[s \ {k + 1}], k + 1>>] /\ iter[s \ {k + 1}] \in S
        BY <3>1, <4>2
      <4>5. next[s] \in S
        BY <1>2, <4>4
      <4> HIDE DEF next
      <4> QED  BY <3>1, <4>1, <4>3, <4>4, <4>5
    <3>2. CASE k + 1 \notin s
      <4>1. s \in SUBSET (1 .. k) /\ s \ {Max(s)} \in SUBSET (1 .. k)
        BY <2>3, <3>2
      <4>2. next[s] = iter[s] /\ next[s \ {Max(s)}] = iter[s \ {Max(s)}]
        BY <3>2, <4>1
      <4> HIDE DEF next
      <4> QED  BY <2>2, <4>1, <4>2
    <3> QED  BY <3>1, <3>2
  <2>5. next \in [SUBSET (1 .. k + 1) -> S]
    <3>1. next = [s \in SUBSET (1 .. k + 1) |-> next[s]]
      OBVIOUS
    <3> HIDE DEF next
    <3> QED  BY <2>4, <3>1
  <2> HIDE DEF next
  <2> QED  BY <2>4, <2>5
<1>3. n \in done
  <2> HIDE DEF Defined
  <2>1. 0 \in done /\ \A k \in Nat : k \in done => k + 1 \in done
    BY <1>1, <1>2
  <2> HIDE DEF done
  <2> QED  BY <2>1, Induction
<1>4. Defined(n)
  <2> HIDE DEF Defined
  <2> QED  BY <1>3
<1> QED  BY <1>4 DEF IsFold
------------------------------------------------------------------------------
\* One step of the fold of Aggregate.
Merged(contests, t) == IF Contains(contests, t) THEN contests ELSE Append(contests, t)

\* A list stays a list when a record is merged into it.
LEMMA MergedType ==
    ASSUME NEW T, NEW contests \in Seq(T), NEW t \in T
    PROVE  Merged(contests, t) \in Seq(T)
BY DEF Merged

\* What Aggregate makes of the first k records, for each k: a test id more or
\* none with every record.
LEMMA AggregateSteps ==
    ASSUME NEW T, NEW evidence \in Seq(T)
    PROVE  \E pre : /\ pre[0] = <<>>
                    /\ \A k \in 1 .. Len(evidence) :
                          pre[k] = Merged(pre[k - 1], evidence[k])
                    /\ Aggregate(evidence) = pre[Len(evidence)]
<1> DEFINE n == Len(evidence)
           step == [p \in Seq(T) \X (1 .. n) |-> Merged(p[1], evidence[p[2]])]
           Fold(iter) == iter = [s \in SUBSET (DOMAIN evidence) |->
                            IF s = {} THEN <<>>
                            ELSE IF Contains(iter[s \ {Max(s)}], evidence[Max(s)])
                                 THEN iter[s \ {Max(s)}]
                                 ELSE Append(iter[s \ {Max(s)}], evidence[Max(s)])]
<1>1. n \in Nat /\ DOMAIN evidence = 1 .. n /\ \A i \in 1 .. n : evidence[i] \in T
  OBVIOUS
<1>2. \A v \in Seq(T), i \in 1 .. n : step[<<v, i>>] = Merged(v, evidence[i])
  OBVIOUS
<1>3. \E iter : Fold(iter)
  <2>1. \A v \in Seq(T), i \in 1 .. n : step[<<v, i>>] \in Seq(T)
    BY <1>1, <1>2, MergedType
  <2>2. <<>> \in Seq(T)
    OBVIOUS
  <2> HIDE DEF n, step
  <2>3. PICK iter \in [SUBSET (1 .. n) -> Seq(T)] :
           \A s \in SUBSET (1 .. n) :
              iter[s] = IF s = {} THEN <<>> ELSE step[<<iter[s \ {Max(s)}], Max(s)>>]
    <3>1. \E iter : IsFold(iter, n, Seq(T), <<>>, step)
      BY <1>1, <2>1, <2>2, FoldDefined
    <3> QED  BY <3>1 DEF IsFold
  <2>4. ASSUME NEW s \in SUBSET (1 .. n), s # {}
        PROVE  iter[s] = Merged(iter[s \ {Max(s)}], evidence[Max(s)])
    <3>1. Max(s) \in 1 .. n
      BY <1>1, <2>4, HasLast
    <3>2. iter[s \ {Max(s)}] \in Seq(T)
      OBVIOUS
    <3> QED  BY <1>2, <2>3, <2>4, <3>1, <3>2
  <2>5. Fold(iter)
    BY <1>1, <2>3, <2>4 DEF Merged
  <2> QED  BY <2>5
<1> DEFINE fold == CHOOSE iter : Fold(iter)
           pre == [k \in 0 .. n |-> fold[1 .. k]]
<1>4. Fold(fold)
  BY <1>3
<1>5. Aggregate(evidence) = fold[DOMAIN evidence]
  BY DEF Aggregate, FoldLeft, MapThenFoldSet
<1>6. \A s \in SUBSET (1 .. n) :
         fold[s] = IF s = {} THEN <<>> ELSE Merged(fold[s \ {Max(s)}], evidence[Max(s)])
  <2> HIDE DEF fold
  <2> QED  BY <1>1, <1>4 DEF Merged
<1>7. pre[0] = <<>>
  <2>1. 1 .. 0 = {} /\ {} \in SUBSET (1 .. n)
    OBVIOUS
  <2>2. fold[1 .. 0] = <<>>
    <3> HIDE DEF fold
    <3> QED  BY <1>6, <2>1
  <2> HIDE DEF fold
  <2> QED  BY <1>1, <2>2
<1>8. ASSUME NEW k \in 1 .. n PROVE pre[k] = Merged(pre[k - 1], evidence[k])
  <2>1. 1 .. k \in SUBSET (1 .. n) /\ k \in 1 .. k /\ (1 .. k) \ {k} = 1 .. k - 1
    BY <1>1
  <2>2. Max(1 .. k) = k
    BY <2>1, LastPosition
  <2>3. fold[1 .. k] = Merged(fold[1 .. k - 1], evidence[k])
    <3> HIDE DEF fold
    <3> QED  BY <1>6, <2>1, <2>2
  <2> HIDE DEF fold
  <2> QED  BY <1>1, <2>3
<1>9. Aggregate(evidence) = pre[n]
  <2> HIDE DEF fold
  <2> QED  BY <1>1, <1>5
<1> QED  BY <1>7, <1>8, <1>9
------------------------------------------------------------------------------
\* The first record of a test id that is listed.
LEMMA FirstRecord ==
    ASSUME NEW T, NEW evidence \in Seq(T), NEW t \in ToSet(evidence)
    PROVE  /\ FirstAt(evidence, t) \in 1 .. Len(evidence)
           /\ evidence[FirstAt(evidence, t)] = t
           /\ \A j \in 1 .. Len(evidence) : evidence[j] = t => FirstAt(evidence, t) <= j
<1> DEFINE at == {i \in DOMAIN evidence : evidence[i] = t}
<1>1. DOMAIN evidence = 1 .. Len(evidence) /\ Len(evidence) \in Nat
  OBVIOUS
<1>2. at # {} /\ at \subseteq Nat
  BY <1>1 DEF ToSet
<1>3. PICK i \in at : \A j \in at : i <= j
  <2> HIDE DEF at
  <2> QED  BY <1>2, LeastNumber
<1>4. evidence[i] = t /\ \A j \in 1 .. i - 1 : evidence[j] # t
  <2>1. ASSUME NEW j \in 1 .. i - 1, evidence[j] = t PROVE FALSE
    <3>1. j \in at /\ j < i
      BY <1>1, <2>1
    <3> QED  BY <1>3, <3>1
  <2> QED  BY <2>1
<1>5. /\ FirstAt(evidence, t) \in DOMAIN evidence
      /\ evidence[FirstAt(evidence, t)] = t
      /\ \A j \in 1 .. FirstAt(evidence, t) - 1 : evidence[j] # t
  BY <1>4 DEF FirstAt
<1>6. ASSUME NEW j \in 1 .. Len(evidence), evidence[j] = t PROVE FirstAt(evidence, t) <= j
  <2>1. FirstAt(evidence, t) \in 1 .. Len(evidence)
    BY <1>1, <1>5
  <2>2. ~(j \in 1 .. FirstAt(evidence, t) - 1)
    BY <1>5, <1>6
  <2> QED  BY <2>1, <2>2
<1> QED  BY <1>1, <1>5, <1>6

\* contests is what the first k records come to: their test ids, ordered by
\* their first records.
Aggregates(contests, T, evidence, k) ==
    /\ contests \in Seq(T)
    /\ \A i \in DOMAIN contests : \E m \in 1 .. k : evidence[m] = contests[i]
    /\ \A m \in 1 .. k : \E i \in DOMAIN contests : contests[i] = evidence[m]
    /\ \A i, j \in DOMAIN contests :
          i < j => FirstAt(evidence, contests[i]) < FirstAt(evidence, contests[j])

\* One more record.
LEMMA MergedAggregates ==
    ASSUME NEW T, NEW evidence \in Seq(T), NEW k \in Nat, k + 1 <= Len(evidence),
           NEW contests, Aggregates(contests, T, evidence, k)
    PROVE  Aggregates(Merged(contests, evidence[k + 1]), T, evidence, k + 1)
<1> DEFINE t == evidence[k + 1]
<1>1. t \in T /\ t \in ToSet(evidence) /\ \A m \in 1 .. k + 1 : m \in DOMAIN evidence
  BY DEF ToSet
<1>2. contests \in Seq(T) /\ DOMAIN contests = 1 .. Len(contests) /\ Len(contests) \in Nat
  BY DEF Aggregates
<1>3. CASE Contains(contests, t)
  <2>1. PICK i \in DOMAIN contests : contests[i] = t
    BY <1>2, <1>3 DEF Contains
  <2>2. Merged(contests, t) = contests
    BY <1>3 DEF Merged
  <2>3. \A m \in 1 .. k + 1 : \E j \in DOMAIN contests : contests[j] = evidence[m]
    <3>1. \A m \in 1 .. k + 1 : m \in 1 .. k \/ m = k + 1
      OBVIOUS
    <3> QED  BY <2>1, <3>1 DEF Aggregates
  <2>4. \A j \in DOMAIN contests : \E m \in 1 .. k + 1 : evidence[m] = contests[j]
    <3>1. \A m \in 1 .. k : m \in 1 .. k + 1
      OBVIOUS
    <3> QED  BY <3>1 DEF Aggregates
  <2> QED  BY <2>2, <2>3, <2>4 DEF Aggregates
<1>4. CASE ~Contains(contests, t)
  <2> DEFINE longer == Append(contests, t)
             n == Len(contests)
  <2>1. /\ longer \in Seq(T) /\ DOMAIN longer = 1 .. n + 1
        /\ longer[n + 1] = t /\ \A i \in 1 .. n : longer[i] = contests[i]
    BY <1>1, <1>2
  <2>2. \A i \in 1 .. n + 1 : i \in 1 .. n \/ i = n + 1
    BY <1>2
  <2>3. \A m \in 1 .. k + 1 : m \in 1 .. k \/ m = k + 1
    OBVIOUS
  <2> HIDE DEF longer
  <2>4. \A i \in DOMAIN longer : \E m \in 1 .. k + 1 : evidence[m] = longer[i]
    <3>1. \A m \in 1 .. k : m \in 1 .. k + 1
      OBVIOUS
    <3>2. \A i \in 1 .. n : \E m \in 1 .. k + 1 : evidence[m] = longer[i]
      BY <1>2, <2>1, <3>1 DEF Aggregates
    <3>3. k + 1 \in 1 .. k + 1 /\ evidence[k + 1] = longer[n + 1]
      BY <2>1
    <3> QED  BY <2>1, <2>2, <3>2, <3>3
  <2>5. \A m \in 1 .. k + 1 : \E i \in DOMAIN longer : longer[i] = evidence[m]
    <3>1. \A i \in 1 .. n : i \in DOMAIN longer
      BY <1>2, <2>1
    <3>2. n + 1 \in DOMAIN longer
      BY <1>2, <2>1
    <3> QED  BY <1>2, <2>1, <2>3, <3>1, <3>2 DEF Aggregates
  <2>6. FirstAt(evidence, t) = k + 1
    <3>1. /\ FirstAt(evidence, t) \in 1 .. Len(evidence)
          /\ evidence[FirstAt(evidence, t)] = t /\ FirstAt(evidence, t) <= k + 1
      BY <1>1, FirstRecord
    <3>2. \A m \in 1 .. k : evidence[m] # t
      BY <1>2, <1>4 DEF Aggregates, Contains
    <3> QED  BY <3>1, <3>2
  <2>7. ASSUME NEW i \in 1 .. n PROVE FirstAt(evidence, contests[i]) \in 1 .. k
    <3>1. PICK m \in 1 .. k : evidence[m] = contests[i]
      BY <1>2 DEF Aggregates
    <3>2. contests[i] \in ToSet(evidence)
      BY <1>1, <3>1 DEF ToSet
    <3> QED  BY <3>1, <3>2, FirstRecord
  <2>8. ASSUME NEW i \in DOMAIN longer, NEW j \in DOMAIN longer, i < j
        PROVE  FirstAt(evidence, longer[i]) < FirstAt(evidence, longer[j])
    <3>1. i \in 1 .. n
      BY <1>2, <2>1, <2>8
    <3>2. CASE j \in 1 .. n
      BY <1>2, <2>1, <2>8, <3>1, <3>2 DEF Aggregates
    <3>3. CASE j = n + 1
      <4>1. longer[i] = contests[i] /\ longer[j] = t
        BY <2>1, <3>1, <3>3
      <4>2. FirstAt(evidence, contests[i]) < k + 1
        BY <2>7, <3>1
      <4> QED  BY <2>6, <4>1, <4>2
    <3> QED  BY <2>1, <2>2, <3>2, <3>3
  <2>9. Merged(contests, t) = longer
    BY <1>4 DEF Merged, longer
  <2> QED  BY <2>1, <2>4, <2>5, <2>8, <2>9 DEF Aggregates
<1> QED  BY <1>3, <1>4

\* Aggregate lists every test id once, in the order of its first record.
LEMMA AggregateFacts ==
    ASSUME NEW T, NEW evidence \in Seq(T)
    PROVE  Aggregates(Aggregate(evidence), T, evidence, Len(evidence))
<1>1. PICK pre : /\ pre[0] = <<>>
                 /\ \A k \in 1 .. Len(evidence) :
                       pre[k] = Merged(pre[k - 1], evidence[k])
                 /\ Aggregate(evidence) = pre[Len(evidence)]
  BY AggregateSteps
<1> DEFINE done == {k \in Nat : k <= Len(evidence) => Aggregates(pre[k], T, evidence, k)}
<1>2. 0 \in done
  <2>1. Aggregates(<<>>, T, evidence, 0)
    BY DEF Aggregates
  <2> QED  BY <1>1, <2>1
<1>3. ASSUME NEW k \in Nat, k \in done PROVE k + 1 \in done
  <2>1. SUFFICES ASSUME k + 1 <= Len(evidence) PROVE Aggregates(pre[k + 1], T, evidence, k + 1)
    OBVIOUS
  <2>2. Aggregates(pre[k], T, evidence, k)
    BY <1>3, <2>1
  <2>3. k + 1 \in 1 .. Len(evidence) /\ (k + 1) - 1 = k
    BY <2>1
  <2>4. pre[k + 1] = Merged(pre[k], evidence[k + 1])
    BY <1>1, <2>3
  <2> QED  BY <2>1, <2>2, <2>4, MergedAggregates
<1>4. Len(evidence) \in done
  <2> HIDE DEF done
  <2> QED  BY <1>2, <1>3, Induction
<1> QED  BY <1>1, <1>4
------------------------------------------------------------------------------
\* No test id is listed twice in what Aggregate returns.
LEMMA AggregateOnce ==
    ASSUME NEW T, NEW evidence \in Seq(T),
           NEW i \in DOMAIN Aggregate(evidence), NEW j \in DOMAIN Aggregate(evidence),
           Aggregate(evidence)[i] = Aggregate(evidence)[j]
    PROVE  i = j
<1> DEFINE contests == Aggregate(evidence)
           at(k) == FirstAt(evidence, contests[k])
<1>1. Aggregates(contests, T, evidence, Len(evidence))
  BY AggregateFacts
<1> HIDE DEF contests
<1>2. ASSUME NEW k \in DOMAIN contests PROVE k \in Int /\ at(k) \in Int
  <2>1. k \in Int /\ \E m \in 1 .. Len(evidence) : evidence[m] = contests[k]
    BY <1>1 DEF Aggregates
  <2>2. contests[k] \in ToSet(evidence)
    BY <2>1 DEF ToSet
  <2> QED  BY <2>1, <2>2, FirstRecord
<1>3. /\ i \in DOMAIN contests /\ j \in DOMAIN contests /\ at(i) = at(j)
      /\ i < j => at(i) < at(j)
      /\ j < i => at(j) < at(i)
  BY <1>1 DEF Aggregates, contests
<1>4. i \in Int /\ j \in Int /\ at(i) \in Int /\ at(j) \in Int
  BY <1>2, <1>3
<1> HIDE DEF at
<1> QED  BY <1>3, <1>4

\* Those listed for the first time before one of them are those before it in
\* what Aggregate returns, and as many.
LEMMA ListedBefore ==
    ASSUME NEW T, NEW evidence \in Seq(T), NEW i \in DOMAIN Aggregate(evidence)
    PROVE  Cardinality({u \in ToSet(evidence) :
                           FirstAt(evidence, u) < FirstAt(evidence, Aggregate(evidence)[i])})
               = i - 1
<1> DEFINE contests == Aggregate(evidence)
           at(u) == FirstAt(evidence, u)
           before == {u \in ToSet(evidence) : at(u) < at(contests[i])}
           f == [j \in 1 .. i - 1 |-> contests[j]]
<1>1. Aggregates(contests, T, evidence, Len(evidence))
  BY AggregateFacts
<1>2. \A j, k \in DOMAIN contests : contests[j] = contests[k] => j = k
  BY AggregateOnce
<1> HIDE DEF contests
<1>3. /\ DOMAIN contests = 1 .. Len(contests) /\ Len(contests) \in Nat
      /\ i \in 1 .. Len(contests) /\ 1 .. i - 1 \subseteq DOMAIN contests
  <2>1. DOMAIN contests = 1 .. Len(contests) /\ Len(contests) \in Nat
    BY <1>1 DEF Aggregates
  <2> QED  BY <2>1 DEF contests
<1>4. ASSUME NEW j \in DOMAIN contests
      PROVE  contests[j] \in ToSet(evidence) /\ at(contests[j]) \in Int
  <2>1. PICK m \in 1 .. Len(evidence) : evidence[m] = contests[j]
    BY <1>1 DEF Aggregates
  <2>2. contests[j] \in ToSet(evidence)
    BY <2>1 DEF ToSet
  <2> QED  BY <2>2, FirstRecord
<1>5. ASSUME NEW j \in 1 .. i - 1 PROVE f[j] \in before
  BY <1>1, <1>3, <1>4 DEF Aggregates
<1>6. ASSUME NEW u \in before PROVE \E j \in 1 .. i - 1 : f[j] = u
  <2>1. PICK m \in 1 .. Len(evidence) : evidence[m] = u
    BY DEF ToSet
  <2>2. PICK j \in DOMAIN contests : contests[j] = u
    BY <1>1, <2>1 DEF Aggregates
  <2>3. ~(i < j) /\ i # j
    <3>1. at(u) < at(contests[i]) /\ at(u) \in Int /\ at(contests[i]) \in Int
      BY <1>3, <1>4, <2>2
    <3>2. i < j => at(contests[i]) < at(u)
      BY <1>1, <1>3, <2>2 DEF Aggregates
    <3> HIDE DEF at
    <3> QED  BY <2>2, <3>1, <3>2
  <2>4. j \in 1 .. i - 1
    BY <1>3, <2>3
  <2> QED  BY <2>2, <2>4
<1>7. f \in Bijection(1 .. i - 1, before)
  <2>1. \A j, k \in 1 .. i - 1 : f[j] = f[k] => j = k
    BY <1>2, <1>3
  <2>2. f \in [1 .. i - 1 -> before]
    <3> HIDE DEF before
    <3> QED  BY <1>5
  <2> HIDE DEF f, before
  <2> QED  BY <1>6, <2>1, <2>2 DEF Bijection, Injection, Surjection, IsInjective
<1>8. IsFiniteSet(1 .. i - 1) /\ Cardinality(1 .. i - 1) = i - 1
  <2>1. 1 \in Int /\ i - 1 \in Int
    BY <1>3
  <2>2. /\ IsFiniteSet(1 .. i - 1)
        /\ Cardinality(1 .. i - 1) = IF 1 > i - 1 THEN 0 ELSE (i - 1) - 1 + 1
    BY <2>1, FS_Interval
  <2> QED  BY <1>3, <2>2
<1>9. Cardinality(before) = i - 1
  <2> HIDE DEF before, f
  <2>1. ExistsBijection(1 .. i - 1, before)
    BY <1>7 DEF ExistsBijection
  <2> QED  BY <1>8, <2>1, FS_Bijection
<1> QED  BY <1>9 DEF contests

\* Selection is a list of at most maximum test ids.
LEMMA SelectionType ==
    ASSUME NEW T, NEW evidence \in Seq(T), NEW maximum \in Nat
    PROVE  Selection(evidence, maximum) \in Seq(T) /\ Len(Selection(evidence, maximum)) <= maximum
<1> DEFINE contests == Aggregate(evidence)
<1>1. contests \in Seq(T)
  BY AggregateFacts DEF Aggregates
<1> HIDE DEF contests
<1>2. Len(contests) \in Nat
  BY <1>1
<1>3. PICK n \in Nat : /\ n = IF Len(contests) < maximum THEN Len(contests) ELSE maximum
                       /\ n <= Len(contests) /\ n <= maximum
  BY <1>2
<1>4. SubSeq(contests, 1, n) \in Seq(T) /\ Len(SubSeq(contests, 1, n)) = n
  BY <1>1, <1>3
<1>5. Selection(evidence, maximum) = SubSeq(contests, 1, n)
  BY <1>3 DEF Selection, contests
<1> QED  BY <1>3, <1>4, <1>5

\* It takes none of them twice.
LEMMA SelectionOnce ==
    ASSUME NEW T, NEW evidence \in Seq(T), NEW maximum \in Nat,
           NEW i \in DOMAIN Selection(evidence, maximum),
           NEW j \in DOMAIN Selection(evidence, maximum),
           Selection(evidence, maximum)[i] = Selection(evidence, maximum)[j]
    PROVE  i = j
<1> DEFINE contests == Aggregate(evidence)
<1>1. contests \in Seq(T)
  BY AggregateFacts DEF Aggregates
<1>2. \A k, m \in DOMAIN contests : contests[k] = contests[m] => k = m
  BY AggregateOnce
<1> HIDE DEF contests
<1>3. DOMAIN contests = 1 .. Len(contests) /\ Len(contests) \in Nat
  BY <1>1
<1>4. PICK n \in Nat : /\ n = IF Len(contests) < maximum THEN Len(contests) ELSE maximum
                       /\ n <= Len(contests)
  <2>1. Len(contests) \in Nat
    BY <1>3
  <2> QED  BY <2>1
<1>5. n \in Nat /\ n <= Len(contests) /\ 1 .. n \subseteq 1 .. Len(contests)
  <2>1. n <= Len(contests)
    BY <1>4
  <2> QED  BY <1>3, <2>1
<1>6. /\ DOMAIN SubSeq(contests, 1, n) = 1 .. n
      /\ \A k \in 1 .. n : SubSeq(contests, 1, n)[k] = contests[k]
  BY <1>1, <1>3, <1>5
<1>7. Selection(evidence, maximum) = SubSeq(contests, 1, n)
  BY <1>4 DEF Selection, contests
<1>8. i \in 1 .. n /\ j \in 1 .. n /\ contests[i] = contests[j]
  BY <1>6, <1>7
<1> QED  BY <1>2, <1>3, <1>5, <1>8

\* Selection takes the test ids that fewer than maximum others are listed
\* before: aggregateDiscoveryEvidence and its slice do what they are for.
THEOREM SelectionIsListed ==
    ASSUME NEW T, NEW evidence \in Seq(T), NEW maximum \in Nat
    PROVE  ToSet(Selection(evidence, maximum)) = Listed(evidence, maximum)
<1> DEFINE contests == Aggregate(evidence)
<1>1. Aggregates(contests, T, evidence, Len(evidence))
  BY AggregateFacts
<1>2. \A i \in DOMAIN contests :
         Cardinality({u \in ToSet(evidence) :
                         FirstAt(evidence, u) < FirstAt(evidence, contests[i])}) = i - 1
  BY ListedBefore
<1> HIDE DEF contests
<1>3. contests \in Seq(T) /\ DOMAIN contests = 1 .. Len(contests) /\ Len(contests) \in Nat
  BY <1>1 DEF Aggregates
<1>4. PICK n \in Nat : /\ n = IF Len(contests) < maximum THEN Len(contests) ELSE maximum
                       /\ n <= Len(contests)
                       /\ \A i \in 1 .. Len(contests) : i \in 1 .. n <=> i - 1 < maximum
  <2> DEFINE n == IF Len(contests) < maximum THEN Len(contests) ELSE maximum
  <2>1. n \in Nat /\ n <= Len(contests)
    BY <1>3
  <2>2. \A i \in 1 .. Len(contests) : i \in 1 .. n <=> i - 1 < maximum
    BY <1>3
  <2> HIDE DEF n
  <2>3. n = IF Len(contests) < maximum THEN Len(contests) ELSE maximum
    BY DEF n
  <2> QED  BY <2>1, <2>2, <2>3
<1>5. n \in Nat /\ n <= Len(contests) /\ 1 .. n \subseteq 1 .. Len(contests)
  <2>1. n <= Len(contests)
    BY <1>4
  <2> QED  BY <1>3, <2>1
<1>6. /\ DOMAIN SubSeq(contests, 1, n) = 1 .. n
      /\ \A i \in 1 .. n : SubSeq(contests, 1, n)[i] = contests[i]
  BY <1>3, <1>5
<1>7. Selection(evidence, maximum) = SubSeq(contests, 1, n)
  BY <1>4 DEF Selection, contests
<1>8. ToSet(Selection(evidence, maximum)) = {contests[i] : i \in 1 .. n}
  BY <1>6, <1>7 DEF ToSet
<1>9. ASSUME NEW i \in 1 .. Len(contests)
      PROVE  contests[i] \in Listed(evidence, maximum) <=> i \in 1 .. n
  <2>1. PICK m \in 1 .. Len(evidence) : evidence[m] = contests[i]
    BY <1>1, <1>3 DEF Aggregates
  <2>2. contests[i] \in ToSet(evidence)
    BY <2>1 DEF ToSet
  <2> QED  BY <1>2, <1>3, <1>4, <2>2 DEF Listed
<1>10. ASSUME NEW t \in Listed(evidence, maximum)
       PROVE  \E i \in 1 .. Len(contests) : contests[i] = t
  <2>1. PICK m \in 1 .. Len(evidence) : evidence[m] = t
    BY DEF Listed, ToSet
  <2> QED  BY <1>1, <1>3, <2>1 DEF Aggregates
<1> HIDE DEF Listed
<1> QED  BY <1>8, <1>9, <1>10, <1>5
=============================================================================

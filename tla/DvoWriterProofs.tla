--------------------------- MODULE DvoWriterProofs ---------------------------
(***************************************************************************)
(* Proofs about DvoWriter, in four parts:                                  *)
(*                                                                         *)
(*   - induction over the natural numbers in terms of sets, and what       *)
(*     FoldLeft computes when it goes through a sequence;                  *)
(*   - mapWorkloadRecommendations: its one pass over the recommendations   *)
(*     finds the numbers that RowContents defines without going through    *)
(*     them (AggregationIsExact);                                          *)
(*   - the invariants of the table and of the caches;                      *)
(*   - the rows of a cluster are one report, and the last one in the end.  *)
(***************************************************************************)
EXTENDS DvoWriterProps, FiniteSetTheorems, WellFoundedInduction, TLAPS

-----------------------------------------------------------------------------
\* Induction, and FoldLeft.

\* A set of numbers with 0 and every successor of its members is all of Nat.
LEMMA NatSetInduction ==
    ASSUME NEW T, T \subseteq Nat, 0 \in T, \A n \in T : n + 1 \in T
    PROVE  T = Nat
<1> SUFFICES ASSUME Nat \ T # {} PROVE FALSE
    OBVIOUS
<1>1. PICK x \in Nat \ T : \A y \in Nat \ T : ~(<<y, x>> \in OpToRel(<, Nat))
    BY NatLessThanWellFounded, WFMin
<1>2. x \in Nat /\ x # 0 /\ x \notin T
    OBVIOUS
<1>3. x - 1 \in Nat /\ x - 1 < x /\ (x - 1) + 1 = x
    BY <1>2
<1>4. <<x - 1, x>> \in OpToRel(<, Nat)
    BY <1>2, <1>3 DEF OpToRel
<1>5. x - 1 \in T
    BY <1>1, <1>3, <1>4
<1> QED
    BY <1>2, <1>3, <1>5

\* The same for the numbers up to n.
LEMMA BoundedInduction ==
    ASSUME NEW n \in Nat, NEW T, 0 \in T, \A j \in 1..n : j - 1 \in T => j \in T
    PROVE  0..n \subseteq T
<1> DEFINE U == {k \in Nat : k <= n => k \in T}
<1>1. 0 \in U
    OBVIOUS
<1>2. ASSUME NEW k \in U PROVE k + 1 \in U
  <2> SUFFICES ASSUME k + 1 <= n PROVE k + 1 \in T
      OBVIOUS
  <2>1. k \in Nat /\ k \in T /\ k + 1 \in 1..n /\ (k + 1) - 1 = k
      OBVIOUS
  <2> QED
      BY <2>1
<1>3. U \subseteq Nat
    OBVIOUS
<1> HIDE DEF U
<1>4. U = Nat
    BY <1>1, <1>2, <1>3, NatSetInduction
<1> QED
    BY <1>4 DEF U

\* Max finds the largest member of a set that has one.
LEMMA MaxOfInterval ==
    ASSUME NEW s, NEW k \in Int, k \in s, \A y \in s : y \in Int /\ y <= k
    PROVE  Max(s) = k
<1>1. \E x \in s : \A y \in s : x >= y
    OBVIOUS
<1>2. Max(s) \in s /\ \A y \in s : Max(s) >= y
    BY <1>1 DEF Max
<1>3. Max(s) \in Int /\ Max(s) <= k /\ Max(s) >= k
    BY <1>2
<1> QED
    BY <1>3

\* The functions that satisfy the recursion of FoldLeft on the subsets of 1..k;
\* h is the folded operator as a function.
FoldTable(A, h, base, seq, k) ==
    {f \in [SUBSET (1..k) -> A] :
        /\ f[{}] = base
        /\ \A s \in SUBSET (1..k) : s # {} =>
               Max(s) \in s /\ f[s] = h[<<f[s \ {Max(s)}], seq[Max(s)]>>]}

\* The recursion of FoldLeft has a solution, so that its CHOOSE finds one.
LEMMA FoldTableExists ==
    ASSUME NEW A, NEW E, NEW h \in [A \X E -> A], NEW base \in A,
           NEW n \in Nat, NEW seq \in [1..n -> E]
    PROVE  FoldTable(A, h, base, seq, n) # {}
<1> DEFINE T == {k \in Nat : k <= n => FoldTable(A, h, base, seq, k) # {}}
<1>1. 0 \in T
  <2> DEFINE f == [s \in SUBSET (1..0) |-> base]
  <2>1. 1..0 = {}
      OBVIOUS
  <2>2. f \in FoldTable(A, h, base, seq, 0)
      BY <2>1 DEF FoldTable
  <2> QED
      BY <2>2
<1>2. ASSUME NEW k \in T PROVE k + 1 \in T
  <2> SUFFICES ASSUME k + 1 <= n PROVE FoldTable(A, h, base, seq, k + 1) # {}
      OBVIOUS
  <2>1. k \in Nat /\ k <= n
      OBVIOUS
  <2>2. PICK f : f \in FoldTable(A, h, base, seq, k)
      BY <2>1
  <2> DEFINE g == [s \in SUBSET (1..(k+1)) |->
                     IF k + 1 \in s THEN h[<<f[s \ {k+1}], seq[k+1]>>] ELSE f[s]]
  <2>3. f \in [SUBSET (1..k) -> A]
      BY <2>2 DEF FoldTable
  <2>4. ASSUME NEW s \in SUBSET (1..(k+1)), k + 1 \in s
        PROVE  /\ Max(s) = k + 1
               /\ s \ {k+1} \in SUBSET (1..k)
               /\ h[<<f[s \ {k+1}], seq[k+1]>>] \in A
    <3>1. Max(s) = k + 1
      <4>1. k + 1 \in Int /\ \A y \in s : y \in Int /\ y <= k + 1
          BY <2>1
      <4> QED
          BY <2>4, <4>1, MaxOfInterval
    <3>2. s \ {k+1} \in SUBSET (1..k)
        BY <2>1
    <3>3. f[s \ {k+1}] \in A /\ seq[k+1] \in E
        BY <2>1, <2>3, <3>2
    <3> QED
        BY <3>1, <3>2, <3>3
  <2>5. ASSUME NEW s \in SUBSET (1..(k+1)), k + 1 \notin s
        PROVE  s \in SUBSET (1..k)
      BY <2>1, <2>5
  <2>6. g \in [SUBSET (1..(k+1)) -> A]
    <3>1. ASSUME NEW s \in SUBSET (1..(k+1))
          PROVE (IF k + 1 \in s THEN h[<<f[s \ {k+1}], seq[k+1]>>] ELSE f[s]) \in A
        BY <2>3, <2>4, <2>5
    <3> QED
        BY <3>1
  <2>7. g[{}] = base
      BY <2>2 DEF FoldTable
  <2>8. ASSUME NEW s \in SUBSET (1..(k+1)), s # {}
        PROVE Max(s) \in s /\ g[s] = h[<<g[s \ {Max(s)}], seq[Max(s)]>>]
    <3>1. CASE k + 1 \in s
      <4>1. g[s] = h[<<f[s \ {k+1}], seq[k+1]>>]
          BY <3>1
      <4>2. g[s \ {k+1}] = f[s \ {k+1}]
          BY <2>4, <3>1
      <4> HIDE DEF g
      <4> QED
          BY <4>1, <4>2, <2>4, <3>1
    <3>2. CASE k + 1 \notin s
      <4>1. s \in SUBSET (1..k)
          BY <2>5, <3>2
      <4>2. Max(s) \in s /\ f[s] = h[<<f[s \ {Max(s)}], seq[Max(s)]>>]
          BY <2>2, <2>8, <4>1 DEF FoldTable
      <4>3. g[s] = f[s]
          BY <3>2
      <4>4. g[s \ {Max(s)}] = f[s \ {Max(s)}]
          BY <3>2
      <4> HIDE DEF g
      <4> QED
          BY <4>2, <4>3, <4>4
    <3> QED
        BY <3>1, <3>2
  <2> HIDE DEF g
  <2>9. g \in FoldTable(A, h, base, seq, k + 1)
      BY <2>6, <2>7, <2>8 DEF FoldTable
  <2> QED
      BY <2>9
<1> HIDE DEF T
<1>3. T \subseteq Nat
    BY DEF T
<1>4. T = Nat
    BY <1>1, <1>2, <1>3, NatSetInduction
<1> QED
    BY <1>4 DEF T

\* iter satisfies the recursion where its arguments have their types.
IsFold(A, E, h, base, n, seq, iter) ==
    /\ h \in [A \X E -> A] /\ base \in A
    /\ n \in Nat /\ seq \in [1..n -> E]
    /\ iter[{}] = base
    /\ \A s \in SUBSET (1..n) :
           s # {} /\ iter[s \ {Max(s)}] \in A /\ seq[Max(s)] \in E
               => iter[s] = h[<<iter[s \ {Max(s)}], seq[Max(s)]>>]

\* g[j] is the accumulator after j members of seq.
IsRun(A, E, h, base, n, seq, g) ==
    /\ g \in [0..n -> A]
    /\ g[0] = base
    /\ \A j \in 1..n : g[j] = h[<<g[j - 1], seq[j]>>]

\* A fold goes through the sequence from its first to its last member.
LEMMA FoldPrefixes ==
    ASSUME NEW A, NEW E, NEW h, NEW base, NEW n, NEW seq, NEW iter,
           IsFold(A, E, h, base, n, seq, iter)
    PROVE  \E g : IsRun(A, E, h, base, n, seq, g) /\ g[n] = iter[1..n]
<1> USE DEF IsFold
<1>1. ASSUME NEW j \in 1..n, iter[1..(j - 1)] \in A
      PROVE  iter[1..j] = h[<<iter[1..(j - 1)], seq[j]>>] /\ iter[1..j] \in A
  <2>1. j \in Int /\ j \in 1..j /\ \A y \in 1..j : y \in Int /\ y <= j
      OBVIOUS
  <2>2. Max(1..j) = j
      BY <2>1, MaxOfInterval
  <2>3. (1..j) \ {j} = 1..(j - 1)
      BY <2>1
  <2>4. 1..j \in SUBSET (1..n) /\ 1..j # {} /\ seq[j] \in E
    <3>1. j \in Nat /\ 1 <= j /\ j <= n
        OBVIOUS
    <3>2. 1..j \in SUBSET (1..n)
        BY <3>1
    <3> QED
        BY <2>1, <3>2
  <2>5. iter[1..j] = h[<<iter[1..(j - 1)], seq[j]>>]
      BY <1>1, <2>2, <2>3, <2>4
  <2> QED
      BY <1>1, <2>4, <2>5
<1> DEFINE T == {j \in 0..n : iter[1..j] \in A}
<1>2. 1..0 = {}
    OBVIOUS
<1>3. 0 \in T
    BY <1>2
<1>4. ASSUME NEW j \in 1..n, j - 1 \in T PROVE j \in T
  <2>1. j \in 0..n /\ iter[1..(j - 1)] \in A
      BY <1>4
  <2> QED
      BY <1>1, <2>1
<1>5. 0..n \subseteq T
  <2> HIDE DEF T
  <2> QED
      BY <1>3, <1>4, BoundedInduction
<1> DEFINE g == [j \in 0..n |-> iter[1..j]]
<1>6. g \in [0..n -> A]
    BY <1>5
<1>7. g[0] = base /\ g[n] = iter[1..n]
    BY <1>2
<1>8. \A j \in 1..n : g[j] = h[<<g[j - 1], seq[j]>>]
  <2> TAKE j \in 1..n
  <2>1. j \in 0..n /\ j - 1 \in 0..n
      OBVIOUS
  <2>2. iter[1..(j - 1)] \in A
      BY <1>5, <2>1
  <2> QED
      BY <1>1, <2>1, <2>2
<1> HIDE DEF g, IsFold
<1>9. IsRun(A, E, h, base, n, seq, g) /\ g[n] = iter[1..n]
    BY <1>6, <1>7, <1>8 DEF IsRun
<1> QED
    BY <1>9

-----------------------------------------------------------------------------
\* mapWorkloadRecommendations.

Workload == [namespace: Namespaces, uid: Workloads]

\* What the accumulator of mapWorkloadRecommendations can be.
Mapped ==
    [seen: SUBSET Namespaces, inRec: SUBSET Namespaces,
     count: [Namespaces -> Nat],
     objects: [Namespaces -> SUBSET Workloads],
     ruleHits: [Namespaces -> [WorkloadRules -> Nat]]]

\* The inner loop of MapRecommendation.
MapWorkloads(acc, rec) ==
    FoldLeft(LAMBDA a, w : MapWorkload(a, rec.rule, w),
             [acc EXCEPT !.inRec = {}], rec.workloads)

\* What one turn of the inner loop changes.
LEMMA MapWorkloadFields ==
    ASSUME NEW acc \in Mapped, NEW rule, NEW w \in Workload
    PROVE  LET new == MapWorkload(acc, rule, w)
           IN  /\ new \in Mapped
               /\ new.seen = acc.seen \union {w.namespace}
               /\ new.inRec = acc.inRec \union {w.namespace}
               /\ new.count = acc.count
               /\ \A ns \in Namespaces : new.objects[ns] =
                      IF ns = w.namespace THEN acc.objects[ns] \union {w.uid}
                      ELSE acc.objects[ns]
               /\ \A ns \in Namespaces, r \in WorkloadRules : new.ruleHits[ns][r] =
                      IF ns = w.namespace /\ r = rule THEN acc.ruleHits[ns][r] + 1
                      ELSE acc.ruleHits[ns][r]
<1> DEFINE new == MapWorkload(acc, rule, w)
           ns0 == w.namespace
<1>1. ns0 \in Namespaces /\ w.uid \in Workloads
    BY DEF Workload
<1>2. acc.ruleHits \in [Namespaces -> [WorkloadRules -> Nat]]
    BY DEF Mapped
<1>3. CountRuleHit(acc.ruleHits[ns0], rule) \in [WorkloadRules -> Nat]
    BY <1>1, <1>2 DEF CountRuleHit
<1>4. /\ new.seen = acc.seen \union {ns0}
      /\ new.inRec = acc.inRec \union {ns0}
      /\ new.count = acc.count
      /\ new.objects = [acc.objects EXCEPT ![ns0] = @ \union {w.uid}]
      /\ new.ruleHits = [acc.ruleHits EXCEPT ![ns0] = CountRuleHit(@, rule)]
      /\ DOMAIN new = DOMAIN acc
      /\ new = [x \in DOMAIN new |-> new[x]]
  <2>1. "seen" \in DOMAIN acc /\ "inRec" \in DOMAIN acc /\ "ruleHits" \in DOMAIN acc
        /\ "count" \in DOMAIN acc /\ "objects" \in DOMAIN acc
      BY DEF Mapped
  <2>a. new.seen = acc.seen \union {ns0}
      BY <2>1 DEF MapWorkload
  <2>b. new.inRec = acc.inRec \union {ns0}
      BY <2>1 DEF MapWorkload
  <2>c. new.count = acc.count
      BY <2>1 DEF MapWorkload
  <2>d. new.objects = [acc.objects EXCEPT ![ns0] = @ \union {w.uid}]
      BY <2>1 DEF MapWorkload
  <2>e. new.ruleHits = [acc.ruleHits EXCEPT ![ns0] = CountRuleHit(@, rule)]
      BY <2>1 DEF MapWorkload
  <2>f. DOMAIN new = DOMAIN acc
      BY DEF MapWorkload
  <2>g. new = [x \in DOMAIN new |-> new[x]]
      BY DEF MapWorkload
  <2> QED BY <2>a, <2>b, <2>c, <2>d, <2>e, <2>f, <2>g
<1>5. new.objects \in [Namespaces -> SUBSET Workloads]
    BY <1>1, <1>4 DEF Mapped
<1>6. new.ruleHits \in [Namespaces -> [WorkloadRules -> Nat]]
    BY <1>1, <1>2, <1>3, <1>4
<1>7. new \in Mapped
  <2> HIDE DEF new
  <2> QED
    BY <1>1, <1>4, <1>5, <1>6 DEF Mapped
<1>8. \A ns \in Namespaces : new.objects[ns] =
          IF ns = ns0 THEN acc.objects[ns] \union {w.uid} ELSE acc.objects[ns]
    BY <1>1, <1>4 DEF Mapped
<1>9. \A ns \in Namespaces, r \in WorkloadRules : new.ruleHits[ns][r] =
          IF ns = ns0 /\ r = rule THEN acc.ruleHits[ns][r] + 1
          ELSE acc.ruleHits[ns][r]
  <2> HIDE DEF new
  <2> QED
    BY <1>1, <1>2, <1>4 DEF CountRuleHit
<1> QED
    BY <1>4, <1>7, <1>8, <1>9

\* The inner loop as a sequence of turns.
LEMMA WorkloadsFolded ==
    ASSUME NEW acc \in Mapped, NEW rec \in Recommendation
    PROVE  \E g \in [0..Len(rec.workloads) -> Mapped] :
               /\ g[0] = [acc EXCEPT !.inRec = {}]
               /\ \A j \in 1..Len(rec.workloads) :
                      g[j] = MapWorkload(g[j - 1], rec.rule, rec.workloads[j])
               /\ g[Len(rec.workloads)] = MapWorkloads(acc, rec)
<1> DEFINE seq == rec.workloads
           n == Len(seq)
           base == [acc EXCEPT !.inRec = {}]
           h == [p \in Mapped \X Workload |-> MapWorkload(p[1], rec.rule, p[2])]
<1>1. n \in Nat /\ seq \in [1..n -> Workload] /\ DOMAIN seq = 1..n
  <2>1. rec.workloads \in Seq(Workload)
      BY DEF Recommendation, Workload
  <2> QED
      BY <2>1
<1>2. base \in Mapped
    BY DEF Mapped
<1>3. h \in [Mapped \X Workload -> Mapped]
  <2>1. \A p \in Mapped \X Workload : MapWorkload(p[1], rec.rule, p[2]) \in Mapped
      BY MapWorkloadFields
  <2> QED
      BY <2>1
<1> HIDE DEF base
<1>4. FoldTable(Mapped, h, base, seq, n) # {}
  <2> HIDE DEF h, seq, n
  <2> QED
    BY <1>1, <1>2, <1>3, FoldTableExists
<1> DEFINE Step(f) == [s \in SUBSET (1..n) |->
                         IF s = {} THEN base
                         ELSE MapWorkload(f[s \ {Max(s)}], rec.rule, seq[Max(s)])]
           iter == CHOOSE f : f = Step(f)
<1>5. \E f : f = Step(f)
  <2>1. PICK f : f \in FoldTable(Mapped, h, base, seq, n)
      BY <1>4
  <2>2. f \in [SUBSET (1..n) -> Mapped] /\ f[{}] = base
      BY <2>1 DEF FoldTable
  <2>3. ASSUME NEW s \in SUBSET (1..n), s # {}
        PROVE  f[s] = MapWorkload(f[s \ {Max(s)}], rec.rule, seq[Max(s)])
    <3>1. Max(s) \in s /\ f[s] = h[<<f[s \ {Max(s)}], seq[Max(s)]>>]
        BY <2>1, <2>3 DEF FoldTable
    <3>2. f[s \ {Max(s)}] \in Mapped /\ seq[Max(s)] \in Workload
        BY <1>1, <2>2, <3>1
    <3> QED
        BY <3>1, <3>2
  <2>4. f = Step(f)
      BY <2>2, <2>3
  <2> QED
      BY <2>4
<1>6. iter = Step(iter)
  <2> HIDE DEF Step
  <2> QED
    BY <1>5, Zenon
<1>7. MapWorkloads(acc, rec) = iter[1..n]
    BY <1>1, Zenon DEF MapWorkloads, FoldLeft, MapThenFoldSet, base
<1>8. iter[{}] = base
    BY <1>6
<1>9. ASSUME NEW s \in SUBSET (1..n), s # {},
             iter[s \ {Max(s)}] \in Mapped, seq[Max(s)] \in Workload
      PROVE  iter[s] = h[<<iter[s \ {Max(s)}], seq[Max(s)]>>]
  <2>1. iter[s] = Step(iter)[s]
      BY <1>6, Zenon
  <2> HIDE DEF iter
  <2> QED
      BY <1>9, <2>1
<1>10. IsFold(Mapped, Workload, h, base, n, seq, iter)
  <2>1. \A s \in SUBSET (1..n) :
            s # {} /\ iter[s \ {Max(s)}] \in Mapped /\ seq[Max(s)] \in Workload
                => iter[s] = h[<<iter[s \ {Max(s)}], seq[Max(s)]>>]
      BY <1>9, Zenon
  <2> HIDE DEF h, n, seq, iter
  <2> QED
      BY <1>1, <1>2, <1>3, <1>8, <2>1, Zenon DEF IsFold
<1>11. PICK g : IsRun(Mapped, Workload, h, base, n, seq, g) /\ g[n] = iter[1..n]
  <2> HIDE DEF h, n, seq, iter
  <2> QED
      BY <1>10, FoldPrefixes
<1>12. \A j \in 1..n : g[j] = MapWorkload(g[j - 1], rec.rule, seq[j])
  <2> TAKE j \in 1..n
  <2>1. g[j - 1] \in Mapped /\ seq[j] \in Workload
      BY <1>1, <1>11 DEF IsRun
  <2> QED
      BY <1>11, <2>1 DEF IsRun
<1>13. g \in [0..n -> Mapped] /\ g[0] = base
    BY <1>11 DEF IsRun
<1> QED
    BY <1>7, <1>11, <1>12, <1>13 DEF base

\* The first j workloads of rec that are in namespace ns, and their UIDs.
Hits(rec, j, ns) == {l \in 1..j : rec.workloads[l].namespace = ns}

HitUIDs(rec, j, ns) == {rec.workloads[l].uid : l \in Hits(rec, j, ns)}

\* What the inner loop has found after j workloads.
WorkloadsMapped(acc, rec, j, new) ==
    /\ new.seen = acc.seen \union {ns \in Namespaces : Hits(rec, j, ns) # {}}
    /\ new.inRec = {ns \in Namespaces : Hits(rec, j, ns) # {}}
    /\ new.count = acc.count
    /\ \A ns \in Namespaces :
           new.objects[ns] = acc.objects[ns] \union HitUIDs(rec, j, ns)
    /\ \A ns \in Namespaces, r \in WorkloadRules :
           new.ruleHits[ns][r] = acc.ruleHits[ns][r]
                                     + IF r = rec.rule THEN Cardinality(Hits(rec, j, ns)) ELSE 0

\* There are finitely many of them.
LEMMA HitsFinite ==
    ASSUME NEW rec, NEW j \in Nat, NEW ns
    PROVE  IsFiniteSet(Hits(rec, j, ns)) /\ Cardinality(Hits(rec, j, ns)) \in Nat
<1>1. IsFiniteSet(1..j)
    BY FS_Interval
<1>2. Hits(rec, j, ns) \in SUBSET (1..j)
    BY DEF Hits
<1>3. IsFiniteSet(Hits(rec, j, ns))
    BY <1>1, <1>2, FS_Subset
<1> QED
    BY <1>3, FS_CardinalityType

\* One workload more.
LEMMA NextHit ==
    ASSUME NEW rec, NEW j \in Nat, j # 0, NEW ns
    PROVE  /\ rec.workloads[j].namespace = ns =>
                 /\ Hits(rec, j, ns) = Hits(rec, j - 1, ns) \union {j}
                 /\ Cardinality(Hits(rec, j, ns)) = Cardinality(Hits(rec, j - 1, ns)) + 1
                 /\ HitUIDs(rec, j, ns) = HitUIDs(rec, j - 1, ns) \union {rec.workloads[j].uid}
           /\ rec.workloads[j].namespace # ns =>
                 /\ Hits(rec, j, ns) = Hits(rec, j - 1, ns)
                 /\ HitUIDs(rec, j, ns) = HitUIDs(rec, j - 1, ns)
<1>1. j - 1 \in Nat
    OBVIOUS
<1>2. 1..j = (1..(j - 1)) \union {j} /\ j \notin 1..(j - 1)
    OBVIOUS
<1>3. CASE rec.workloads[j].namespace = ns
  <2>1. Hits(rec, j, ns) = Hits(rec, j - 1, ns) \union {j} /\ j \notin Hits(rec, j - 1, ns)
      BY <1>2, <1>3 DEF Hits
  <2>2. Cardinality(Hits(rec, j, ns)) = Cardinality(Hits(rec, j - 1, ns)) + 1
      BY <1>1, <2>1, HitsFinite, FS_AddElement
  <2>3. HitUIDs(rec, j, ns) = HitUIDs(rec, j - 1, ns) \union {rec.workloads[j].uid}
      BY <2>1 DEF HitUIDs
  <2> QED
      BY <1>3, <2>1, <2>2, <2>3
<1>4. CASE rec.workloads[j].namespace # ns
  <2>1. Hits(rec, j, ns) = Hits(rec, j - 1, ns)
      BY <1>2, <1>4 DEF Hits
  <2> QED
      BY <1>4, <2>1 DEF HitUIDs
<1> QED
    BY <1>3, <1>4

\* What the inner loop finds in all the workloads of a recommendation.
LEMMA MapWorkloadsResult ==
    ASSUME NEW acc \in Mapped, NEW rec \in Recommendation
    PROVE  /\ MapWorkloads(acc, rec) \in Mapped
           /\ WorkloadsMapped(acc, rec, Len(rec.workloads), MapWorkloads(acc, rec))
<1> DEFINE n == Len(rec.workloads)
<1>1. n \in Nat /\ \A j \in 1..n : rec.workloads[j] \in Workload
  <2>1. rec.workloads \in Seq(Workload)
      BY DEF Recommendation, Workload
  <2> QED
      BY <2>1
<1>2. PICK g \in [0..n -> Mapped] :
          /\ g[0] = [acc EXCEPT !.inRec = {}]
          /\ \A j \in 1..n : g[j] = MapWorkload(g[j - 1], rec.rule, rec.workloads[j])
          /\ g[n] = MapWorkloads(acc, rec)
    BY WorkloadsFolded
<1> HIDE DEF n
<1> DEFINE T == {j \in 0..n : WorkloadsMapped(acc, rec, j, g[j])}
<1>3. 0 \in T
  <2>1. \A ns : Hits(rec, 0, ns) = {} /\ HitUIDs(rec, 0, ns) = {}
      BY DEF Hits, HitUIDs
  <2>2. Cardinality({}) = 0
      BY FS_EmptySet
  <2>3. /\ g[0].seen = acc.seen /\ g[0].inRec = {} /\ g[0].count = acc.count
        /\ g[0].objects = acc.objects /\ g[0].ruleHits = acc.ruleHits
      BY <1>2 DEF Mapped
  <2>4. acc.ruleHits \in [Namespaces -> [WorkloadRules -> Nat]]
      BY DEF Mapped
  <2>5. 0 \in 0..n
      BY <1>1
  <2>6. WorkloadsMapped(acc, rec, 0, g[0])
    <3>1. \A ns \in Namespaces, r \in WorkloadRules :
              g[0].ruleHits[ns][r] = acc.ruleHits[ns][r]
                  + IF r = rec.rule THEN Cardinality(Hits(rec, 0, ns)) ELSE 0
      <4> TAKE ns \in Namespaces, r \in WorkloadRules
      <4>1. Cardinality(Hits(rec, 0, ns)) = 0
          BY <2>1, <2>2
      <4>2. g[0].ruleHits[ns][r] = acc.ruleHits[ns][r] /\ acc.ruleHits[ns][r] \in Nat
          BY <2>3, <2>4
      <4> QED
          BY <4>1, <4>2
    <3>2. {ns \in Namespaces : Hits(rec, 0, ns) # {}} = {}
        BY <2>1
    <3>3. \A ns \in Namespaces :
              g[0].objects[ns] = acc.objects[ns] \union HitUIDs(rec, 0, ns)
        BY <2>1, <2>3
    <3> QED
        BY <2>3, <3>1, <3>2, <3>3 DEF WorkloadsMapped
  <2> QED
      BY <2>5, <2>6
<1>4. ASSUME NEW j \in 1..n, j - 1 \in T PROVE j \in T
  <2> DEFINE w == rec.workloads[j]
             old == g[j - 1]
             new == g[j]
  <2>1. j \in Nat /\ j # 0 /\ j \in 0..n /\ j - 1 \in 0..n /\ j - 1 \in Nat
      BY <1>1
  <2>2. old \in Mapped /\ w \in Workload /\ new = MapWorkload(old, rec.rule, w)
      BY <1>1, <1>2, <2>1
  <2>3. WorkloadsMapped(acc, rec, j - 1, old)
      BY <1>4
  <2>a. w.namespace \in Namespaces
      BY <2>2 DEF Workload
  <2>4. /\ new.seen = old.seen \union {w.namespace}
        /\ new.inRec = old.inRec \union {w.namespace}
        /\ new.count = old.count
        /\ \A ns \in Namespaces : new.objects[ns] =
               IF ns = w.namespace THEN old.objects[ns] \union {w.uid} ELSE old.objects[ns]
        /\ \A ns \in Namespaces, r \in WorkloadRules : new.ruleHits[ns][r] =
               IF ns = w.namespace /\ r = rec.rule THEN old.ruleHits[ns][r] + 1
               ELSE old.ruleHits[ns][r]
    <3> HIDE DEF w, old, new
    <3> QED
      BY <2>2, MapWorkloadFields
  <2>5. \A ns : /\ ns = w.namespace =>
                     /\ Hits(rec, j, ns) = Hits(rec, j - 1, ns) \union {j}
                     /\ Cardinality(Hits(rec, j, ns)) = Cardinality(Hits(rec, j - 1, ns)) + 1
                     /\ HitUIDs(rec, j, ns) = HitUIDs(rec, j - 1, ns) \union {w.uid}
                /\ ns # w.namespace =>
                     /\ Hits(rec, j, ns) = Hits(rec, j - 1, ns)
                     /\ HitUIDs(rec, j, ns) = HitUIDs(rec, j - 1, ns)
      BY <2>1, NextHit
  <2> HIDE DEF w, old, new
  <2>6. {ns \in Namespaces : Hits(rec, j, ns) # {}}
            = {ns \in Namespaces : Hits(rec, j - 1, ns) # {}} \union {w.namespace}
      BY <2>5, <2>a
  <2>7. /\ new.seen = acc.seen \union {ns \in Namespaces : Hits(rec, j, ns) # {}}
        /\ new.inRec = {ns \in Namespaces : Hits(rec, j, ns) # {}}
        /\ new.count = acc.count
      BY <2>3, <2>4, <2>6 DEF WorkloadsMapped
  <2>8. \A ns \in Namespaces :
           new.objects[ns] = acc.objects[ns] \union HitUIDs(rec, j, ns)
      BY <2>3, <2>4, <2>5 DEF WorkloadsMapped
  <2>9. ASSUME NEW ns \in Namespaces, NEW r \in WorkloadRules
        PROVE  new.ruleHits[ns][r] = acc.ruleHits[ns][r]
                   + IF r = rec.rule THEN Cardinality(Hits(rec, j, ns)) ELSE 0
    <3>1. acc.ruleHits[ns][r] \in Nat
        BY DEF Mapped
    <3>2. Cardinality(Hits(rec, j - 1, ns)) \in Nat
        BY <2>1, HitsFinite
    <3>3. old.ruleHits[ns][r] = acc.ruleHits[ns][r]
                   + IF r = rec.rule THEN Cardinality(Hits(rec, j - 1, ns)) ELSE 0
        BY <2>3 DEF WorkloadsMapped
    <3>4. CASE ns = w.namespace
        BY <2>4, <2>5, <3>1, <3>2, <3>3, <3>4
    <3>5. CASE ns # w.namespace
        BY <2>4, <2>5, <3>1, <3>2, <3>3, <3>5
    <3> QED
        BY <3>4, <3>5
  <2>10. WorkloadsMapped(acc, rec, j, new)
      BY <2>7, <2>8, <2>9 DEF WorkloadsMapped
  <2> QED
      BY <2>1, <2>10 DEF new
<1>5. 0..n \subseteq T
  <2> HIDE DEF T
  <2> QED
      BY <1>1, <1>3, <1>4, BoundedInduction
<1> QED
    BY <1>1, <1>2, <1>5 DEF n

\* All workloads of rec in namespace ns, and their UIDs.
AllHits(rec, ns) == Hits(rec, Len(rec.workloads), ns)

AllHitUIDs(rec, ns) == HitUIDs(rec, Len(rec.workloads), ns)

\* Their types.
LEMMA AllHitsFinite ==
    ASSUME NEW rec \in Recommendation, NEW ns \in Namespaces
    PROVE  /\ IsFiniteSet(AllHits(rec, ns)) /\ Cardinality(AllHits(rec, ns)) \in Nat
           /\ AllHits(rec, ns) \subseteq 1..Len(rec.workloads)
           /\ IsFiniteSet(AllHitUIDs(rec, ns))
           /\ AllHitUIDs(rec, ns) \subseteq Workloads
<1>1. rec.workloads \in Seq(Workload)
    BY DEF Recommendation, Workload
<1>2. Len(rec.workloads) \in Nat
    BY <1>1
<1>3. IsFiniteSet(AllHits(rec, ns)) /\ Cardinality(AllHits(rec, ns)) \in Nat
    BY <1>2, HitsFinite DEF AllHits
<1>4. AllHits(rec, ns) \subseteq 1..Len(rec.workloads)
    BY DEF AllHits, Hits
<1> DEFINE f == [l \in AllHits(rec, ns) |-> rec.workloads[l].uid]
<1>5. f \in Surjection(AllHits(rec, ns), AllHitUIDs(rec, ns))
    BY DEF Surjection, AllHitUIDs, AllHits, HitUIDs
<1>6. IsFiniteSet(AllHitUIDs(rec, ns))
    BY <1>3, <1>5, FS_Surjection
<1>7. \A l \in AllHits(rec, ns) : rec.workloads[l].uid \in Workloads
  <2>1. \A l \in 1..Len(rec.workloads) : rec.workloads[l] \in Workload
      BY <1>1
  <2> QED
      BY <1>4, <2>1 DEF Workload
<1>8. AllHitUIDs(rec, ns) \subseteq Workloads
    BY <1>7 DEF AllHitUIDs, AllHits, HitUIDs
<1> QED
    BY <1>3, <1>4, <1>6, <1>8

\* What one turn of the outer loop changes.
LEMMA MapRecommendationResult ==
    ASSUME NEW acc \in Mapped, NEW rec \in Recommendation
    PROVE  LET new == MapRecommendation(acc, rec)
           IN  /\ new \in Mapped
               /\ new.seen = acc.seen \union {ns \in Namespaces : AllHits(rec, ns) # {}}
               /\ \A ns \in Namespaces :
                      /\ new.count[ns] = IF AllHits(rec, ns) # {} THEN acc.count[ns] + 1
                                         ELSE acc.count[ns]
                      /\ new.objects[ns] = acc.objects[ns] \union AllHitUIDs(rec, ns)
                      /\ \A r \in WorkloadRules : new.ruleHits[ns][r] =
                             acc.ruleHits[ns][r] + IF r = rec.rule
                                                   THEN Cardinality(AllHits(rec, ns)) ELSE 0
<1> DEFINE mapped == MapWorkloads(acc, rec)
           new == MapRecommendation(acc, rec)
           count == [ns \in Namespaces |->
                       IF ns \in mapped.seen /\ ns \in mapped.inRec THEN mapped.count[ns] + 1
                       ELSE mapped.count[ns]]
<1>1. new = [mapped EXCEPT !.count = count]
    BY DEF MapRecommendation, MapWorkloads
<1>2. mapped \in Mapped /\ WorkloadsMapped(acc, rec, Len(rec.workloads), mapped)
    BY MapWorkloadsResult
<1> HIDE DEF mapped, new
<1>3. /\ mapped.seen = acc.seen \union {ns \in Namespaces : AllHits(rec, ns) # {}}
      /\ mapped.inRec = {ns \in Namespaces : AllHits(rec, ns) # {}}
      /\ mapped.count = acc.count
      /\ \A ns \in Namespaces :
             /\ mapped.objects[ns] = acc.objects[ns] \union AllHitUIDs(rec, ns)
             /\ \A r \in WorkloadRules : mapped.ruleHits[ns][r] =
                    acc.ruleHits[ns][r] + IF r = rec.rule
                                          THEN Cardinality(AllHits(rec, ns)) ELSE 0
    BY <1>2 DEF WorkloadsMapped, AllHits, AllHitUIDs
<1>4. count \in [Namespaces -> Nat]
    BY <1>2 DEF Mapped
<1>5. \A ns \in Namespaces : count[ns] =
          IF AllHits(rec, ns) # {} THEN acc.count[ns] + 1 ELSE acc.count[ns]
    BY <1>3
<1> HIDE DEF count
<1>6. new \in Mapped
    BY <1>1, <1>2, <1>4 DEF Mapped
<1>7. /\ new.seen = mapped.seen /\ new.count = count
      /\ new.objects = mapped.objects /\ new.ruleHits = mapped.ruleHits
    BY <1>1, <1>2 DEF Mapped
<1>8. new.seen = acc.seen \union {ns \in Namespaces : AllHits(rec, ns) # {}}
    BY <1>3, <1>7
<1>9. ASSUME NEW ns \in Namespaces
      PROVE  /\ new.count[ns] = IF AllHits(rec, ns) # {} THEN acc.count[ns] + 1
                                ELSE acc.count[ns]
             /\ new.objects[ns] = acc.objects[ns] \union AllHitUIDs(rec, ns)
             /\ \A r \in WorkloadRules : new.ruleHits[ns][r] =
                    acc.ruleHits[ns][r] + IF r = rec.rule
                                          THEN Cardinality(AllHits(rec, ns)) ELSE 0
    BY <1>3, <1>5, <1>7
<1> QED
    BY <1>6, <1>8, <1>9 DEF new

\* The outer loop as a sequence of turns.
LEMMA RecommendationsFolded ==
    ASSUME NEW recs \in Seq(Recommendation)
    PROVE  \E g \in [0..Len(recs) -> Mapped] :
               /\ g[0] = NothingMapped
               /\ \A k \in 1..Len(recs) : g[k] = MapRecommendation(g[k - 1], recs[k])
               /\ g[Len(recs)] = MapWorkloadRecommendations(recs)
<1> DEFINE n == Len(recs)
           base == NothingMapped
           h == [p \in Mapped \X Recommendation |-> MapRecommendation(p[1], p[2])]
<1>1. n \in Nat /\ recs \in [1..n -> Recommendation] /\ DOMAIN recs = 1..n
    OBVIOUS
<1>2. base \in Mapped
    BY DEF Mapped, NothingMapped
<1>3. h \in [Mapped \X Recommendation -> Mapped]
  <2>1. \A p \in Mapped \X Recommendation : MapRecommendation(p[1], p[2]) \in Mapped
      BY MapRecommendationResult
  <2> QED
      BY <2>1
<1> HIDE DEF base
<1>4. FoldTable(Mapped, h, base, recs, n) # {}
  <2> HIDE DEF h, n
  <2> QED
    BY <1>1, <1>2, <1>3, FoldTableExists
<1> DEFINE Step(f) == [s \in SUBSET (1..n) |->
                         IF s = {} THEN base
                         ELSE MapRecommendation(f[s \ {Max(s)}], recs[Max(s)])]
           iter == CHOOSE f : f = Step(f)
<1>5. \E f : f = Step(f)
  <2>1. PICK f : f \in FoldTable(Mapped, h, base, recs, n)
      BY <1>4
  <2>2. f \in [SUBSET (1..n) -> Mapped] /\ f[{}] = base
      BY <2>1 DEF FoldTable
  <2>3. ASSUME NEW s \in SUBSET (1..n), s # {}
        PROVE  f[s] = MapRecommendation(f[s \ {Max(s)}], recs[Max(s)])
    <3>1. Max(s) \in s /\ f[s] = h[<<f[s \ {Max(s)}], recs[Max(s)]>>]
        BY <2>1, <2>3 DEF FoldTable
    <3>2. f[s \ {Max(s)}] \in Mapped /\ recs[Max(s)] \in Recommendation
        BY <1>1, <2>2, <3>1
    <3> QED
        BY <3>1, <3>2
  <2>4. f = Step(f)
      BY <2>2, <2>3
  <2> QED
      BY <2>4
<1>6. iter = Step(iter)
  <2> HIDE DEF Step
  <2> QED
    BY <1>5, Zenon
<1>7. MapWorkloadRecommendations(recs) = iter[1..n]
    BY <1>1, Zenon DEF MapWorkloadRecommendations, FoldLeft, MapThenFoldSet, base
<1>8. iter[{}] = base
    BY <1>6
<1>9. ASSUME NEW s \in SUBSET (1..n), s # {},
             iter[s \ {Max(s)}] \in Mapped, recs[Max(s)] \in Recommendation
      PROVE  iter[s] = h[<<iter[s \ {Max(s)}], recs[Max(s)]>>]
  <2>1. iter[s] = Step(iter)[s]
      BY <1>6, Zenon
  <2> HIDE DEF iter
  <2> QED
      BY <1>9, <2>1
<1>10. IsFold(Mapped, Recommendation, h, base, n, recs, iter)
  <2>1. \A s \in SUBSET (1..n) :
            s # {} /\ iter[s \ {Max(s)}] \in Mapped /\ recs[Max(s)] \in Recommendation
                => iter[s] = h[<<iter[s \ {Max(s)}], recs[Max(s)]>>]
      BY <1>9, Zenon
  <2> HIDE DEF h, n, iter
  <2> QED
      BY <1>1, <1>2, <1>3, <1>8, <2>1, Zenon DEF IsFold
<1>11. PICK g : IsRun(Mapped, Recommendation, h, base, n, recs, g) /\ g[n] = iter[1..n]
  <2> HIDE DEF h, n, iter
  <2> QED
      BY <1>10, FoldPrefixes
<1>12. \A k \in 1..n : g[k] = MapRecommendation(g[k - 1], recs[k])
  <2> TAKE k \in 1..n
  <2>1. g[k - 1] \in Mapped /\ recs[k] \in Recommendation
      BY <1>1, <1>11 DEF IsRun
  <2> QED
      BY <1>11, <2>1 DEF IsRun
<1>13. g \in [0..n -> Mapped] /\ g[0] = base
    BY <1>11 DEF IsRun
<1> QED
    BY <1>7, <1>11, <1>12, <1>13 DEF base

\* The part of Places in the first k recommendations, and what RowContents makes
\* of it.
PlacesUpTo(recs, k, ns) == {p \in Places(recs, ns) : p[1] <= k}

RulePlaces(recs, k, ns, r) == {p \in PlacesUpTo(recs, k, ns) : recs[p[1]].rule = r}

PlaceUIDs(recs, k, ns) ==
    {recs[p[1]].workloads[p[2]].uid : p \in PlacesUpTo(recs, k, ns)}

PlaceRecs(recs, k, ns) == {p[1] : p \in PlacesUpTo(recs, k, ns)}

\* Workloads H of recommendation k, as places.
At(k, H) == {<<k, l>> : l \in H}

\* Places in terms of the workloads of each recommendation.
LEMMA PlacesAreHits ==
    ASSUME NEW recs \in Seq(Recommendation), NEW ns
    PROVE  /\ \A p \in Places(recs, ns) :
                  /\ p[1] \in 1..Len(recs) /\ p[2] \in AllHits(recs[p[1]], ns)
                  /\ p = <<p[1], p[2]>>
           /\ \A i \in 1..Len(recs) : \A l \in AllHits(recs[i], ns) :
                  <<i, l>> \in Places(recs, ns)
<1>1. DOMAIN recs = 1..Len(recs)
    OBVIOUS
<1>2. \A i \in 1..Len(recs) :
          AllHits(recs[i], ns) = {k \in DOMAIN recs[i].workloads :
                                      recs[i].workloads[k].namespace = ns}
  <2> TAKE i \in 1..Len(recs)
  <2>1. recs[i].workloads \in Seq(Workload)
    <3>1. recs[i] \in Recommendation
        OBVIOUS
    <3> QED
        BY <3>1 DEF Recommendation, Workload
  <2>2. DOMAIN recs[i].workloads = 1..Len(recs[i].workloads)
      BY <2>1
  <2> QED
      BY <2>2 DEF AllHits, Hits
<1>3. Places(recs, ns) = UNION {{<<i, j>> : j \in AllHits(recs[i], ns)} : i \in 1..Len(recs)}
  <2> DEFINE Old(i) == {k \in DOMAIN recs[i].workloads : recs[i].workloads[k].namespace = ns}
  <2>1. Places(recs, ns) = UNION {{<<i, j>> : j \in Old(i)} : i \in 1..Len(recs)}
      BY <1>1 DEF Places
  <2>2. \A i \in 1..Len(recs) : Old(i) = AllHits(recs[i], ns)
      BY <1>2
  <2> HIDE DEF Old
  <2>3. \A i \in 1..Len(recs) : {<<i, j>> : j \in Old(i)} = {<<i, j>> : j \in AllHits(recs[i], ns)}
      BY <2>2
  <2> QED
      BY <2>1, <2>3
<1>4. ASSUME NEW p \in Places(recs, ns)
      PROVE /\ p[1] \in 1..Len(recs) /\ p[2] \in AllHits(recs[p[1]], ns)
            /\ p = <<p[1], p[2]>>
  <2>1. PICK i \in 1..Len(recs) : p \in {<<i, j>> : j \in AllHits(recs[i], ns)}
      BY <1>3
  <2>2. PICK j \in AllHits(recs[i], ns) : p = <<i, j>>
      BY <2>1
  <2> QED
      BY <2>2
<1>5. ASSUME NEW i \in 1..Len(recs), NEW l \in AllHits(recs[i], ns)
      PROVE  <<i, l>> \in Places(recs, ns)
  <2>1. <<i, l>> \in {<<i, j>> : j \in AllHits(recs[i], ns)}
      OBVIOUS
  <2> QED
      BY <1>3, <2>1
<1> QED
    BY <1>4, <1>5

\* As many places as workloads.
LEMMA AtCount ==
    ASSUME NEW k, NEW H, IsFiniteSet(H)
    PROVE  IsFiniteSet(At(k, H)) /\ Cardinality(At(k, H)) = Cardinality(H)
<1> DEFINE f == [l \in H |-> <<k, l>>]
<1>1. f \in [H -> At(k, H)]
    BY DEF At
<1>2. \A a, b \in H : f[a] = f[b] => a = b
    OBVIOUS
<1>3. \A t \in At(k, H) : \E l \in H : f[l] = t
    BY DEF At
<1> HIDE DEF f
<1>4. f \in Bijection(H, At(k, H))
    BY <1>1, <1>2, <1>3 DEF Bijection, Injection, Surjection, IsInjective
<1>5. ExistsBijection(H, At(k, H))
    BY <1>4 DEF ExistsBijection
<1> QED
    BY <1>5, FS_Bijection

\* One recommendation more.
LEMMA NextPlaces ==
    ASSUME NEW recs \in Seq(Recommendation), NEW k \in 1..Len(recs), NEW ns
    PROVE  /\ PlacesUpTo(recs, k, ns)
                 = PlacesUpTo(recs, k - 1, ns) \union At(k, AllHits(recs[k], ns))
           /\ PlacesUpTo(recs, k - 1, ns) \intersect At(k, AllHits(recs[k], ns)) = {}
<1>1. k \in Nat /\ 1 <= k /\ k <= Len(recs)
    OBVIOUS
<1>2. ASSUME NEW p \in PlacesUpTo(recs, k, ns)
      PROVE  p \in PlacesUpTo(recs, k - 1, ns) \union At(k, AllHits(recs[k], ns))
  <2>1. /\ p \in Places(recs, ns) /\ p[1] <= k
        /\ p[1] \in 1..Len(recs) /\ p[2] \in AllHits(recs[p[1]], ns)
        /\ p = <<p[1], p[2]>>
      BY PlacesAreHits DEF PlacesUpTo
  <2>2. CASE p[1] = k
      BY <2>1, <2>2 DEF At
  <2>3. CASE p[1] # k
    <3>1. p[1] <= k - 1
        BY <1>1, <2>1, <2>3
    <3> QED
        BY <2>1, <3>1 DEF PlacesUpTo
  <2> QED
      BY <2>2, <2>3
<1>3. ASSUME NEW p \in PlacesUpTo(recs, k - 1, ns)
      PROVE  p \in PlacesUpTo(recs, k, ns) /\ p \notin At(k, AllHits(recs[k], ns))
  <2>1. p \in Places(recs, ns) /\ p[1] <= k - 1 /\ p[1] \in 1..Len(recs)
      BY PlacesAreHits DEF PlacesUpTo
  <2>2. p[1] <= k /\ p[1] # k
      BY <1>1, <2>1
  <2>3. p \notin At(k, AllHits(recs[k], ns))
      BY <2>2 DEF At
  <2> QED
      BY <2>1, <2>2, <2>3 DEF PlacesUpTo
<1>4. ASSUME NEW p \in At(k, AllHits(recs[k], ns))
      PROVE  p \in PlacesUpTo(recs, k, ns)
  <2>1. PICK l \in AllHits(recs[k], ns) : p = <<k, l>>
      BY DEF At
  <2>2. p \in Places(recs, ns) /\ p[1] = k /\ k <= k
      BY <1>1, <2>1, PlacesAreHits
  <2> QED
      BY <2>2 DEF PlacesUpTo
<1> QED
    BY <1>2, <1>3, <1>4

\* What the outer loop has found after k recommendations.
RecommendationsMapped(recs, k, new) ==
    /\ new.seen = {ns \in Namespaces : PlacesUpTo(recs, k, ns) # {}}
    /\ \A ns \in Namespaces :
           /\ IsFiniteSet(PlacesUpTo(recs, k, ns))
           /\ IsFiniteSet(PlaceRecs(recs, k, ns))
           /\ IsFiniteSet(PlaceUIDs(recs, k, ns))
           /\ new.count[ns] = Cardinality(PlaceRecs(recs, k, ns))
           /\ new.objects[ns] = PlaceUIDs(recs, k, ns)
           /\ \A r \in WorkloadRules :
                  new.ruleHits[ns][r] = Cardinality(RulePlaces(recs, k, ns, r))

\* Before the first recommendation, and after the last.
LEMMA NoPlaces ==
    ASSUME NEW recs \in Seq(Recommendation), NEW ns
    PROVE  /\ PlacesUpTo(recs, 0, ns) = {}
           /\ PlacesUpTo(recs, Len(recs), ns) = Places(recs, ns)
<1>1. \A p \in Places(recs, ns) : p[1] \in 1..Len(recs)
    BY PlacesAreHits
<1>2. \A i \in 1..Len(recs) : ~(i <= 0) /\ i <= Len(recs)
    OBVIOUS
<1> QED
    BY <1>1, <1>2 DEF PlacesUpTo

\* One turn of the outer loop keeps it so.
LEMMA MapStepResult ==
    ASSUME NEW recs \in Seq(Recommendation), NEW k \in 1..Len(recs),
           NEW old \in Mapped, NEW new, new = MapRecommendation(old, recs[k]),
           RecommendationsMapped(recs, k - 1, old)
    PROVE  RecommendationsMapped(recs, k, new)
<1> DEFINE rec == recs[k]
<1>1. k \in Nat /\ k - 1 \in Nat /\ rec \in Recommendation
    OBVIOUS
<1>2. /\ new \in Mapped
      /\ new.seen = old.seen \union {ns \in Namespaces : AllHits(rec, ns) # {}}
      /\ \A ns \in Namespaces :
             /\ new.count[ns] = IF AllHits(rec, ns) # {} THEN old.count[ns] + 1
                                ELSE old.count[ns]
             /\ new.objects[ns] = old.objects[ns] \union AllHitUIDs(rec, ns)
             /\ \A r \in WorkloadRules : new.ruleHits[ns][r] =
                    old.ruleHits[ns][r] + IF r = rec.rule
                                          THEN Cardinality(AllHits(rec, ns)) ELSE 0
    BY <1>1, MapRecommendationResult
<1>3. \A ns : /\ PlacesUpTo(recs, k, ns)
                     = PlacesUpTo(recs, k - 1, ns) \union At(k, AllHits(rec, ns))
              /\ PlacesUpTo(recs, k - 1, ns) \intersect At(k, AllHits(rec, ns)) = {}
    BY NextPlaces
<1>4. \A ns \in Namespaces :
          /\ IsFiniteSet(AllHits(rec, ns)) /\ Cardinality(AllHits(rec, ns)) \in Nat
          /\ IsFiniteSet(AllHitUIDs(rec, ns))
          /\ IsFiniteSet(At(k, AllHits(rec, ns)))
          /\ Cardinality(At(k, AllHits(rec, ns))) = Cardinality(AllHits(rec, ns))
    BY <1>1, AllHitsFinite, AtCount
<1>5. \A ns : At(k, AllHits(rec, ns)) = {} <=> AllHits(rec, ns) = {}
    BY DEF At
<1>6. new.seen = {ns \in Namespaces : PlacesUpTo(recs, k, ns) # {}}
  <2>1. old.seen = {ns \in Namespaces : PlacesUpTo(recs, k - 1, ns) # {}}
      BY DEF RecommendationsMapped
  <2>2. \A ns : PlacesUpTo(recs, k, ns) # {}
                  <=> PlacesUpTo(recs, k - 1, ns) # {} \/ AllHits(rec, ns) # {}
      BY <1>3, <1>5
  <2>3. new.seen = old.seen \union {ns \in Namespaces : AllHits(rec, ns) # {}}
      BY <1>2
  <2> QED
      BY <2>1, <2>2, <2>3
<1>7. ASSUME NEW ns \in Namespaces
      PROVE /\ IsFiniteSet(PlacesUpTo(recs, k, ns))
            /\ IsFiniteSet(PlaceRecs(recs, k, ns))
            /\ IsFiniteSet(PlaceUIDs(recs, k, ns))
            /\ new.count[ns] = Cardinality(PlaceRecs(recs, k, ns))
            /\ new.objects[ns] = PlaceUIDs(recs, k, ns)
            /\ \A r \in WorkloadRules :
                   new.ruleHits[ns][r] = Cardinality(RulePlaces(recs, k, ns, r))
  <2> DEFINE P == PlacesUpTo(recs, k - 1, ns)
             H == AllHits(rec, ns)
  <2>1. /\ IsFiniteSet(P)
        /\ IsFiniteSet(PlaceRecs(recs, k - 1, ns))
        /\ IsFiniteSet(PlaceUIDs(recs, k - 1, ns))
        /\ old.count[ns] = Cardinality(PlaceRecs(recs, k - 1, ns))
        /\ old.objects[ns] = PlaceUIDs(recs, k - 1, ns)
        /\ \A r \in WorkloadRules :
               old.ruleHits[ns][r] = Cardinality(RulePlaces(recs, k - 1, ns, r))
      BY DEF RecommendationsMapped
  <2>2. PlacesUpTo(recs, k, ns) = P \union At(k, H) /\ P \intersect At(k, H) = {}
      BY <1>3
  <2>3. /\ IsFiniteSet(H) /\ Cardinality(H) \in Nat
        /\ IsFiniteSet(AllHitUIDs(rec, ns))
        /\ IsFiniteSet(At(k, H)) /\ Cardinality(At(k, H)) = Cardinality(H)
      BY <1>4
  <2>4. IsFiniteSet(PlacesUpTo(recs, k, ns))
    <3>1. IsFiniteSet(P \union At(k, H))
        BY <2>1, <2>3, FS_Union, Zenon
    <3> QED
        BY <2>2, <3>1
  <2>5. \A p \in At(k, H) : p[1] = k /\ p[2] \in H /\ p = <<k, p[2]>>
      BY DEF At
  <2>6. \A l \in H : <<k, l>> \in At(k, H)
      BY DEF At
  <2>7. IsFiniteSet(PlaceUIDs(recs, k, ns)) /\ new.objects[ns] = PlaceUIDs(recs, k, ns)
    <3>1. {recs[p[1]].workloads[p[2]].uid : p \in At(k, H)} = AllHitUIDs(rec, ns)
        BY <2>5, <2>6 DEF AllHitUIDs, HitUIDs, AllHits
    <3>2. PlaceUIDs(recs, k, ns) = PlaceUIDs(recs, k - 1, ns) \union AllHitUIDs(rec, ns)
        BY <2>2, <3>1 DEF PlaceUIDs
    <3>3. IsFiniteSet(PlaceUIDs(recs, k - 1, ns) \union AllHitUIDs(rec, ns))
        BY <2>1, <2>3, FS_Union, Zenon
    <3> QED
        BY <1>2, <2>1, <3>2, <3>3
  <2>8. /\ IsFiniteSet(PlaceRecs(recs, k, ns))
        /\ new.count[ns] = Cardinality(PlaceRecs(recs, k, ns))
    <3>1. CASE H = {}
      <4>1. At(k, H) = {}
          BY <1>5, <3>1
      <4>2. PlacesUpTo(recs, k, ns) = P
          BY <2>2, <4>1
      <4>3. PlaceRecs(recs, k, ns) = PlaceRecs(recs, k - 1, ns)
          BY <4>2 DEF PlaceRecs
      <4> QED
          BY <1>2, <2>1, <3>1, <4>3
    <3>2. CASE H # {}
      <4>1. {p[1] : p \in At(k, H)} = {k}
          BY <2>5, <2>6, <3>2
      <4>2. PlaceRecs(recs, k, ns) = PlaceRecs(recs, k - 1, ns) \union {k}
          BY <2>2, <4>1 DEF PlaceRecs
      <4>3. k \notin PlaceRecs(recs, k - 1, ns)
        <5>1. \A p \in P : p[1] <= k - 1 /\ p[1] \in 1..Len(recs)
            BY PlacesAreHits DEF PlacesUpTo
        <5>2. \A p \in P : p[1] # k
            BY <1>1, <5>1
        <5> QED
            BY <5>2 DEF PlaceRecs
      <4>4. /\ IsFiniteSet(PlaceRecs(recs, k, ns))
            /\ Cardinality(PlaceRecs(recs, k, ns)) = Cardinality(PlaceRecs(recs, k - 1, ns)) + 1
        <5> DEFINE Q == PlaceRecs(recs, k - 1, ns)
        <5>1. IsFiniteSet(Q) /\ k \notin Q /\ PlaceRecs(recs, k, ns) = Q \union {k}
            BY <2>1, <4>2, <4>3
        <5> HIDE DEF Q
        <5>2. IsFiniteSet(Q \union {k}) /\ Cardinality(Q \union {k}) = Cardinality(Q) + 1
            BY <5>1, FS_AddElement
        <5> QED
            BY <5>1, <5>2 DEF Q
      <4> QED
          BY <1>2, <2>1, <3>2, <4>4
    <3> QED
        BY <3>1, <3>2
  <2>9. ASSUME NEW r \in WorkloadRules
        PROVE  new.ruleHits[ns][r] = Cardinality(RulePlaces(recs, k, ns, r))
    <3> DEFINE R == RulePlaces(recs, k - 1, ns, r)
    <3>1. old.ruleHits[ns][r] = Cardinality(R) /\ old.ruleHits[ns][r] \in Nat
        BY <2>1 DEF Mapped
    <3>2. R \in SUBSET P
        BY DEF RulePlaces
    <3>3. IsFiniteSet(R) /\ R \intersect At(k, H) = {}
        BY <2>1, <2>2, <3>2, FS_Subset
    <3>4. CASE r = rec.rule
      <4>1. RulePlaces(recs, k, ns, r) = R \union At(k, H)
          BY <2>2, <2>5, <3>4 DEF RulePlaces
      <4>2. Cardinality(RulePlaces(recs, k, ns, r))
                = Cardinality(R) + Cardinality(At(k, H)) - Cardinality({})
        <5> HIDE DEF R, H
        <5>1. Cardinality(R \union At(k, H))
                  = Cardinality(R) + Cardinality(At(k, H)) - Cardinality(R \intersect At(k, H))
            BY <2>3, <3>3, FS_Union, Zenon
        <5> QED
            BY <3>3, <4>1, <5>1, Zenon
      <4>3. Cardinality({}) = 0
          BY FS_EmptySet
      <4>4. new.ruleHits[ns][r] = old.ruleHits[ns][r] + Cardinality(H)
          BY <1>2, <3>4
      <4> QED
          BY <2>3, <3>1, <4>2, <4>3, <4>4
    <3>5. CASE r # rec.rule
      <4>1. RulePlaces(recs, k, ns, r) = R
          BY <2>2, <2>5, <3>5 DEF RulePlaces
      <4>2. new.ruleHits[ns][r] = old.ruleHits[ns][r] + 0
          BY <1>2, <3>5
      <4> QED
          BY <3>1, <4>1, <4>2
    <3> QED
        BY <3>4, <3>5
  <2> QED
      BY <2>4, <2>7, <2>8, <2>9
<1> QED
    BY <1>6, <1>7 DEF RecommendationsMapped

\* What the outer loop finds in all recommendations.
LEMMA MapWorkloadRecommendationsResult ==
    ASSUME NEW recs \in Seq(Recommendation)
    PROVE  /\ MapWorkloadRecommendations(recs) \in Mapped
           /\ RecommendationsMapped(recs, Len(recs), MapWorkloadRecommendations(recs))
<1> DEFINE n == Len(recs)
<1>1. n \in Nat
    OBVIOUS
<1>2. PICK g \in [0..n -> Mapped] :
          /\ g[0] = NothingMapped
          /\ \A k \in 1..n : g[k] = MapRecommendation(g[k - 1], recs[k])
          /\ g[n] = MapWorkloadRecommendations(recs)
    BY RecommendationsFolded
<1> DEFINE T == {k \in 0..n : RecommendationsMapped(recs, k, g[k])}
<1>3. 0 \in T
  <2>1. 0 \in 0..n
      BY <1>1
  <2>2. \A ns : /\ PlacesUpTo(recs, 0, ns) = {}
                /\ PlaceRecs(recs, 0, ns) = {} /\ PlaceUIDs(recs, 0, ns) = {}
                /\ \A r : RulePlaces(recs, 0, ns, r) = {}
      BY NoPlaces DEF PlaceRecs, PlaceUIDs, RulePlaces
  <2>3. IsFiniteSet({}) /\ Cardinality({}) = 0
      BY FS_EmptySet
  <2>4. RecommendationsMapped(recs, 0, NothingMapped)
      BY <2>2, <2>3 DEF RecommendationsMapped, NothingMapped
  <2> QED
      BY <1>2, <2>1, <2>4
<1>4. ASSUME NEW k \in 1..n, k - 1 \in T PROVE k \in T
  <2>1. k \in 0..n /\ k - 1 \in 0..n
      BY <1>1
  <2>2. g[k - 1] \in Mapped /\ g[k] = MapRecommendation(g[k - 1], recs[k])
      BY <1>2, <2>1
  <2>3. RecommendationsMapped(recs, k - 1, g[k - 1])
      BY <1>4
  <2>4. RecommendationsMapped(recs, k, g[k])
      BY <2>2, <2>3, MapStepResult
  <2> QED
      BY <2>1, <2>4
<1>5. 0..n \subseteq T
  <2> HIDE DEF T, n
  <2> QED
      BY <1>1, <1>3, <1>4, BoundedInduction
<1>6. n \in 0..n
    BY <1>1
<1> QED
    BY <1>2, <1>5, <1>6

\* mapWorkloadRecommendations finds, in one pass with a map that it clears for each
\* recommendation, exactly the namespaces the recommendations touch, and for each of
\* them the number of recommendations that touch it, of distinct workloads and of
\* hits of each rule, whatever is listed twice and in whatever order.
THEOREM AggregationIsExact ==
    ASSUME NEW m \in Message
    PROVE  LET mapped == MapWorkloadRecommendations(m.recommendations)
           IN  /\ mapped.seen = {ns \in Namespaces : Places(m.recommendations, ns) # {}}
               /\ \A ns \in mapped.seen :
                      /\ mapped.count[ns] = RowContents(m, ns).recommendations
                      /\ Cardinality(mapped.objects[ns]) = RowContents(m, ns).objects
                      /\ mapped.ruleHits[ns] = RowContents(m, ns).ruleHits
<1> DEFINE recs == m.recommendations
           mapped == MapWorkloadRecommendations(recs)
<1>1. recs \in Seq(Recommendation)
    BY DEF Message
<1>2. mapped \in Mapped /\ RecommendationsMapped(recs, Len(recs), mapped)
    BY <1>1, MapWorkloadRecommendationsResult
<1>3. \A ns : PlacesUpTo(recs, Len(recs), ns) = Places(recs, ns)
    BY <1>1, NoPlaces
<1> HIDE DEF mapped, recs
<1>4. mapped.seen = {ns \in Namespaces : Places(recs, ns) # {}}
    BY <1>2, <1>3 DEF RecommendationsMapped
<1>5. ASSUME NEW ns \in mapped.seen
      PROVE  /\ mapped.count[ns] = RowContents(m, ns).recommendations
             /\ Cardinality(mapped.objects[ns]) = RowContents(m, ns).objects
             /\ mapped.ruleHits[ns] = RowContents(m, ns).ruleHits
  <2>1. ns \in Namespaces
      BY <1>4
  <2>2. mapped.count[ns] = Cardinality({p[1] : p \in Places(recs, ns)})
      BY <1>2, <1>3, <2>1 DEF RecommendationsMapped, PlaceRecs
  <2>3. mapped.objects[ns] = {recs[p[1]].workloads[p[2]].uid : p \in Places(recs, ns)}
      BY <1>2, <1>3, <2>1 DEF RecommendationsMapped, PlaceUIDs
  <2>4. mapped.ruleHits[ns] = [r \in WorkloadRules |->
                                 Cardinality({p \in Places(recs, ns) : recs[p[1]].rule = r})]
    <3>1. mapped.ruleHits[ns] \in [WorkloadRules -> Nat]
        BY <1>2, <2>1 DEF Mapped
    <3>2. \A r \in WorkloadRules : mapped.ruleHits[ns][r] =
              Cardinality({p \in Places(recs, ns) : recs[p[1]].rule = r})
        BY <1>2, <1>3, <2>1 DEF RecommendationsMapped, RulePlaces
    <3> QED
        BY <3>1, <3>2
  <2> QED
      BY <2>2, <2>3, <2>4 DEF RowContents, recs
<1> QED
    BY <1>4, <1>5 DEF mapped, recs

\* Formatting a date never moves it forward.
LEMMA RFC3339Truncates ==
    ASSUME NEW t \in Nat
    PROVE  RFC3339(t) \in Nat /\ RFC3339(t) <= t
<1>1. TicksPerSecond \in Nat /\ TicksPerSecond > 0
    BY DvoConstants
<1>2. t % TicksPerSecond \in Nat /\ t % TicksPerSecond <= t
    BY <1>1
<1> QED
    BY <1>2 DEF RFC3339

\* The rows updateReport inserts say what the report says.
LEMMA NamespaceRowsResult ==
    ASSUME NEW m \in Message, m.lastChecked \in Time,
           NEW reportedAt, \A ns \in DOMAIN reportedAt : reportedAt[ns] \in Nat
    PROVE  LET new == NamespaceRows(m, reportedAt)
           IN  /\ new \subseteq DvoRow
               /\ \A row \in new :
                      /\ row.cluster = m.cluster /\ row.org = m.org
                      /\ row.lastChecked = m.lastChecked
                      /\ row.reportedAt = IF row.namespace \in DOMAIN reportedAt
                                          THEN reportedAt[row.namespace] ELSE m.lastChecked
               /\ \A a, b \in new : a.namespace = b.namespace => a = b
               /\ {ContentsOf(row) : row \in new} = ReportContents(m)
<1> DEFINE recs == m.recommendations
           mapped == MapWorkloadRecommendations(recs)
           At0(ns) == IF ns \in DOMAIN reportedAt THEN reportedAt[ns] ELSE m.lastChecked
           Row(ns) == [cluster |-> m.cluster, org |-> m.org, namespace |-> ns,
                       recommendations |-> mapped.count[ns],
                       objects |-> Cardinality(mapped.objects[ns]),
                       ruleHits |-> mapped.ruleHits[ns],
                       reportedAt |-> At0(ns),
                       lastChecked |-> m.lastChecked]
           new == NamespaceRows(m, reportedAt)
<1>1. /\ m.cluster \in Clusters /\ m.org \in Orgs /\ m.lastChecked \in Nat
      /\ recs \in Seq(Recommendation)
    BY DEF Message
<1>2. mapped \in Mapped /\ RecommendationsMapped(recs, Len(recs), mapped)
    BY <1>1, MapWorkloadRecommendationsResult
<1>3. new = {Row(ns) : ns \in mapped.seen}
    BY DEF NamespaceRows
<1> HIDE DEF mapped, new, recs
<1>4. mapped.seen \subseteq Namespaces
    BY <1>2 DEF Mapped
<1>5. ASSUME NEW ns \in Namespaces
      PROVE  /\ mapped.count[ns] \in Nat /\ Cardinality(mapped.objects[ns]) \in Nat
             /\ mapped.ruleHits[ns] \in [WorkloadRules -> Nat] /\ At0(ns) \in Nat
  <2>1. IsFiniteSet(mapped.objects[ns])
      BY <1>2 DEF RecommendationsMapped
  <2>2. Cardinality(mapped.objects[ns]) \in Nat
      BY <2>1, FS_CardinalityType
  <2> QED
      BY <1>1, <1>2, <2>2 DEF Mapped
<1>6. ASSUME NEW ns \in mapped.seen PROVE Row(ns) \in DvoRow
  <2>1. ns \in Namespaces
      BY <1>4
  <2> HIDE DEF At0
  <2> QED
      BY <1>1, <1>5, <2>1 DEF DvoRow
<1>7. new \subseteq DvoRow
    BY <1>3, <1>6
<1>8. ASSUME NEW ns \in mapped.seen
      PROVE  ContentsOf(Row(ns)) = RowContents(m, ns)
  <2>1. /\ mapped.count[ns] = RowContents(m, ns).recommendations
        /\ Cardinality(mapped.objects[ns]) = RowContents(m, ns).objects
        /\ mapped.ruleHits[ns] = RowContents(m, ns).ruleHits
      BY AggregationIsExact DEF mapped, recs
  <2>2. /\ RowContents(m, ns).namespace = ns
        /\ RowContents(m, ns).lastChecked = m.lastChecked
      BY DEF RowContents
  <2>3. RowContents(m, ns) =
            [namespace |-> RowContents(m, ns).namespace,
             recommendations |-> RowContents(m, ns).recommendations,
             objects |-> RowContents(m, ns).objects,
             ruleHits |-> RowContents(m, ns).ruleHits,
             lastChecked |-> RowContents(m, ns).lastChecked]
      BY DEF RowContents
  <2> QED
      BY <2>1, <2>2, <2>3 DEF ContentsOf
<1>9. mapped.seen = {x \in Namespaces : Places(recs, x) # {}}
    BY AggregationIsExact DEF mapped, recs
<1>10. {ContentsOf(row) : row \in new} = ReportContents(m)
  <2>1. {ContentsOf(row) : row \in new} = {ContentsOf(Row(ns)) : ns \in mapped.seen}
    <3> HIDE DEF Row
    <3> QED
      BY <1>3
  <2>2. ReportContents(m) = {RowContents(m, ns) : ns \in mapped.seen}
      BY <1>9 DEF ReportContents, recs
  <2> HIDE DEF Row
  <2> QED
      BY <1>8, <2>1, <2>2
<1>11. ASSUME NEW row \in new
       PROVE  /\ row.cluster = m.cluster /\ row.org = m.org
              /\ row.lastChecked = m.lastChecked
              /\ row.reportedAt = IF row.namespace \in DOMAIN reportedAt
                                  THEN reportedAt[row.namespace] ELSE m.lastChecked
    BY <1>3
<1>12. \A a, b \in new : a.namespace = b.namespace => a = b
  <2>1. \A ns \in mapped.seen : Row(ns).namespace = ns
      OBVIOUS
  <2> HIDE DEF Row
  <2> QED
      BY <1>3, <2>1
<1> QED
    BY <1>7, <1>10, <1>11, <1>12 DEF new

-----------------------------------------------------------------------------

\* The transactions and the invariants.

\* The message that is being handled.
LEMMA MsgIsMessage ==
    ASSUME DvoTypeOK, stage # "idle"
    PROVE  /\ position + 1 \in 1..Len(log) /\ Msg \in Messages /\ Msg \in Message
           /\ Msg.cluster \in Clusters /\ Msg.org \in Orgs /\ Msg.lastChecked \in Nat
<1>1. position + 1 \in 1..Len(log)
    BY DEF DvoTypeOK
<1>2. Msg \in Messages
    BY <1>1 DEF DvoTypeOK, Msg
<1>3. Msg \in Message
    BY <1>2, DvoConstants
<1> QED
    BY <1>1, <1>2, <1>3 DEF Message

\* The second transaction sees all rows of the cluster.
LEMMA Settled ==
    ASSUME DvoInv, stage = "write"
    PROVE  Owned(Msg.cluster, Msg.org) = Of(Msg.cluster)
BY DEF DvoInv, OrgSettled, Owned, Of

\* The table after the rows of cluster c went to organization o.
Moved(c, o) ==
    (dvoReport \ Of(c)) \union {[row EXCEPT !.org = o] : row \in Of(c)}

\* That is what the first transaction does, also when it leaves the table alone.
LEMMA OrgMoves ==
    ASSUME DvoTypeOK, OneDatePerCluster, NEW c, NEW o,
           UpdateOrgIDForCluster(o, c)
    PROVE  dvoReport' = Moved(c, o)
<1>1. CASE (Of(c) = {} \/ Owned(c, o) # {}) /\ UNCHANGED dvoReport
  <2>1. \A row \in Of(c) : row.org = o
      BY <1>1 DEF OneDatePerCluster, Of, Owned
  <2>2. \A row \in Of(c) : [row EXCEPT !.org = o] = row
      BY <2>1 DEF DvoTypeOK, DvoRow, Of
  <2>3. {[row EXCEPT !.org = o] : row \in Of(c)} = Of(c)
      BY <2>2
  <2> QED
      BY <1>1, <2>3 DEF Moved, Of
<1>2. CASE dvoReport' = (dvoReport \ Of(c)) \union {[row EXCEPT !.org = o] : row \in Of(c)}
    BY <1>2 DEF Moved
<1> QED
    BY <1>1, <1>2 DEF UpdateOrgIDForCluster

\* Each of its rows is one of the table before, but for the organization.
LEMMA MovedRow ==
    ASSUME DvoTypeOK, NEW c, NEW o \in Orgs, NEW new \in Moved(c, o)
    PROVE  /\ new \in DvoRow
           /\ \E old \in dvoReport :
                  /\ old.cluster = new.cluster /\ old.namespace = new.namespace
                  /\ old.lastChecked = new.lastChecked /\ old.reportedAt = new.reportedAt
                  /\ ContentsOf(old) = ContentsOf(new)
                  /\ old.cluster = c => new.org = o /\ new = [old EXCEPT !.org = o]
                  /\ old.cluster # c => new = old
<1>1. CASE new \in dvoReport \ Of(c)
    BY <1>1 DEF DvoTypeOK, Of
<1>2. CASE new \in {[row EXCEPT !.org = o] : row \in Of(c)}
  <2>1. PICK old \in Of(c) : new = [old EXCEPT !.org = o]
      BY <1>2
  <2>2. old \in dvoReport /\ old.cluster = c /\ old \in DvoRow
      BY DEF DvoTypeOK, Of
  <2>3. new \in DvoRow /\ new.org = o
      BY <2>1, <2>2 DEF DvoRow
  <2>4. /\ old.cluster = new.cluster /\ old.namespace = new.namespace
        /\ old.lastChecked = new.lastChecked /\ old.reportedAt = new.reportedAt
        /\ old.recommendations = new.recommendations
        /\ old.objects = new.objects /\ old.ruleHits = new.ruleHits
      BY <2>1, <2>2 DEF DvoRow
  <2> QED
      BY <2>1, <2>2, <2>3, <2>4 DEF ContentsOf
<1> QED
    BY <1>1, <1>2 DEF Moved

\* What the rows of a written report have in common.
Written(m, new) ==
    /\ new \subseteq DvoRow
    /\ \A row \in new :
           /\ row.cluster = m.cluster /\ row.org = m.org
           /\ row.lastChecked = m.lastChecked /\ row.reportedAt <= m.lastChecked
    /\ \A a, b \in new : a.namespace = b.namespace => a = b
    /\ {ContentsOf(row) : row \in new} = ReportContents(m)

\* The new rows know when the old ones were reported.
KeepsReportedAt(old, new) ==
    \A a \in old, b \in new : a.namespace = b.namespace => b.reportedAt = RFC3339(a.reportedAt)

\* getReportedAtMap returns dates of rows it was given.
LEMMA ReportedAtMapResult ==
    ASSUME DvoTypeOK, DvoInv, NEW c, NEW rows \in SUBSET Of(c)
    PROVE  \A ns \in DOMAIN ReportedAtMap(rows) : \E row \in rows :
               /\ row.namespace = ns
               /\ ReportedAtMap(rows)[ns] = RFC3339(row.reportedAt)
               /\ ReportedAtMap(rows)[ns] \in Nat
               /\ ReportedAtMap(rows)[ns] <= row.lastChecked
<1> TAKE ns \in DOMAIN ReportedAtMap(rows)
<1> DEFINE row == CHOOSE x \in rows : x.namespace = ns
<1>1. ns \in {x.namespace : x \in rows} /\ ReportedAtMap(rows)[ns] = RFC3339(row.reportedAt)
    BY DEF ReportedAtMap
<1>2. row \in rows /\ row.namespace = ns
    BY <1>1
<1> HIDE DEF row
<1>3. row \in DvoRow /\ row \in dvoReport
    BY <1>2 DEF DvoTypeOK, Of
<1>4. row.reportedAt \in Nat /\ row.lastChecked \in Nat
    BY <1>3 DEF DvoRow, Time
<1>5. row.reportedAt <= row.lastChecked
    BY <1>3 DEF DvoInv, ReportedNotAfterChecked
<1>6. RFC3339(row.reportedAt) \in Nat /\ RFC3339(row.reportedAt) <= row.reportedAt
    BY <1>4, RFC3339Truncates
<1>7. RFC3339(row.reportedAt) <= row.lastChecked
    BY <1>4, <1>5, <1>6
<1> QED
    BY <1>1, <1>2, <1>6, <1>7

\* The second transaction replaces the rows of the cluster by those of the report.
LEMMA ReportIsWritten ==
    ASSUME DvoTypeOK, DvoInv, stage = "write", ~NewerInDB, UpdateReport(Msg)
    PROVE  \E new :
               /\ dvoReport' = (dvoReport \ Of(Msg.cluster)) \union new
               /\ Written(Msg, new)
               /\ "lookup" \notin Faults => KeepsReportedAt(Of(Msg.cluster), new)
<1> DEFINE m == Msg
           old == Of(m.cluster)
<1>1. /\ m \in Message /\ m.lastChecked \in Time /\ m.lastChecked \in Nat
      /\ Owned(m.cluster, m.org) = old
    BY MsgIsMessage, Settled DEF DvoTypeOK
<1>2. PICK known \in LookedUp(old) :
          dvoReport' = (dvoReport \ old) \union NamespaceRows(m, ReportedAtMap(known))
    BY <1>1 DEF UpdateReport
<1>3. known \in SUBSET old /\ ("lookup" \notin Faults => known = old)
    BY <1>2 DEF LookedUp
<1> DEFINE at == ReportedAtMap(known)
           new == NamespaceRows(m, at)
<1>4. \A ns \in DOMAIN at : \E row \in known :
          /\ row.namespace = ns /\ at[ns] = RFC3339(row.reportedAt)
          /\ at[ns] \in Nat /\ at[ns] <= row.lastChecked
    BY <1>3, ReportedAtMapResult
<1>5. \A row \in old :
          row \in dvoReport /\ row.lastChecked \in Nat /\ row.lastChecked <= m.lastChecked
  <2> SUFFICES ASSUME NEW row \in old
               PROVE  /\ row \in dvoReport /\ row.lastChecked \in Nat
                      /\ row.lastChecked <= m.lastChecked
      OBVIOUS
  <2>1. row \in dvoReport /\ row \in DvoRow
      BY DEF Of, DvoTypeOK
  <2>2. row.lastChecked \in Nat
      BY <2>1 DEF DvoRow, Time
  <2>3. ~(row.lastChecked > m.lastChecked)
      BY <1>1 DEF NewerInDB
  <2> QED
      BY <1>1, <2>1, <2>2, <2>3
<1> HIDE DEF at, m
<1>6. /\ new \subseteq DvoRow
      /\ \A row \in new :
             /\ row.cluster = m.cluster /\ row.org = m.org
             /\ row.lastChecked = m.lastChecked
             /\ row.reportedAt = IF row.namespace \in DOMAIN at
                                 THEN at[row.namespace] ELSE m.lastChecked
      /\ \A a, b \in new : a.namespace = b.namespace => a = b
      /\ {ContentsOf(row) : row \in new} = ReportContents(m)
  <2>1. \A ns \in DOMAIN at : at[ns] \in Nat
      BY <1>4
  <2> QED
      BY <1>1, <2>1, NamespaceRowsResult
<1> HIDE DEF new
<1>7. ASSUME NEW row \in new PROVE row.reportedAt <= m.lastChecked
  <2>1. CASE row.namespace \in DOMAIN at
    <3>1. PICK x \in known : at[row.namespace] \in Nat /\ at[row.namespace] <= x.lastChecked
        BY <1>4, <2>1
    <3>2. x.lastChecked \in Nat /\ x.lastChecked <= m.lastChecked
        BY <1>3, <1>5
    <3>3. row.reportedAt = at[row.namespace]
        BY <1>6, <2>1
    <3> QED
        BY <1>1, <3>1, <3>2, <3>3
  <2>2. CASE row.namespace \notin DOMAIN at
      BY <1>1, <1>6, <2>2
  <2> QED
      BY <2>1, <2>2
<1>8. ASSUME "lookup" \notin Faults, NEW a \in old, NEW b \in new, a.namespace = b.namespace
      PROVE  b.reportedAt = RFC3339(a.reportedAt)
  <2>1. known = old
      BY <1>3, <1>8
  <2>2. a.namespace \in DOMAIN at
      BY <2>1 DEF ReportedAtMap, at
  <2>3. PICK x \in known : x.namespace = a.namespace /\ at[a.namespace] = RFC3339(x.reportedAt)
      BY <1>4, <2>2
  <2>4. x = a
      BY <1>5, <2>1, <2>3 DEF DvoInv, OneRowPerNamespace, Of
  <2> QED
      BY <1>6, <1>8, <2>2, <2>3, <2>4
<1>9. Written(m, new)
    BY <1>6, <1>7 DEF Written
<1>10. "lookup" \notin Faults => KeepsReportedAt(old, new)
    BY <1>8 DEF KeepsReportedAt
<1> QED
    BY <1>2, <1>9, <1>10 DEF new, m, at

-----------------------------------------------------------------------------

\* Messages stay where they are in the log, and failures are not forgotten.
LEMMA LogGrows ==
    ASSUME DvoTypeOK, [Next]_vars
    PROVE  /\ log' \in Seq(Messages) /\ Len(log') \in Nat /\ Len(log) <= Len(log')
           /\ \A i \in 1..Len(log) : i \in 1..Len(log') /\ log'[i] = log[i]
           /\ failed \subseteq failed'
<1>1. CASE UNCHANGED log
    BY <1>1 DEF DvoTypeOK, Next, HandleStep, CommitOffsets, Rebalance, LoseSession, Crash,
                StartMessage, UpdateOrgID, WriteReport, SendDeadLetter, MarkMessage, Produce, vars
<1>2. CASE \E m \in Messages : Produce(m)
    BY <1>2 DEF DvoTypeOK, Produce
<1> QED
    BY <1>1, <1>2 DEF Next, HandleStep, CommitOffsets, Rebalance, LoseSession, Crash, StartMessage,
                UpdateOrgID, WriteReport, SendDeadLetter, MarkMessage, vars, kafka

\* The two transactions are the only steps that change the table.
LEMMA TableStep ==
    ASSUME DvoTypeOK, DvoInv, [Next]_vars
    PROVE  \/ UNCHANGED dvoReport
           \/ stage = "org" /\ UpdateOrgID /\ dvoReport' = Moved(Msg.cluster, Msg.org)
           \/ /\ stage = "write" /\ WriteReport /\ ~OldByCache /\ ~NewerInDB
              /\ \E new : /\ dvoReport' = (dvoReport \ Of(Msg.cluster)) \union new
                          /\ Written(Msg, new)
                          /\ "lookup" \notin Faults => KeepsReportedAt(Of(Msg.cluster), new)
<1>1. CASE UpdateOrgID
  <2>1. CASE UNCHANGED dvoReport
      BY <2>1
  <2>2. CASE UpdateOrgIDForCluster(Msg.org, Msg.cluster)
    <3>1. dvoReport' = Moved(Msg.cluster, Msg.org)
        BY <2>2, OrgMoves DEF DvoInv
    <3> QED
        BY <1>1, <3>1 DEF UpdateOrgID
  <2> QED
      BY <1>1, <2>1, <2>2 DEF UpdateOrgID
<1>2. CASE WriteReport
  <2>1. CASE UNCHANGED dvoReport
      BY <2>1
  <2>2. CASE ~OldByCache /\ ~NewerInDB /\ UpdateReport(Msg)
    <3>1. stage = "write"
        BY <1>2 DEF WriteReport
    <3> QED
        BY <1>2, <2>2, <3>1, ReportIsWritten
  <2> QED
      BY <1>2, <2>1, <2>2 DEF WriteReport
<1>3. CASE ~UpdateOrgID /\ ~WriteReport
    BY <1>3 DEF Next, HandleStep, CommitOffsets, Rebalance, LoseSession, Crash, StartMessage,
                SendDeadLetter, MarkMessage, Produce, vars
<1> QED
    BY <1>1, <1>2, <1>3

\* Rows keep their type.
LEMMA RowsTypeStep ==
    ASSUME DvoTypeOK, DvoInv, [Next]_vars
    PROVE  dvoReport' \subseteq DvoRow
<1>1. CASE UNCHANGED dvoReport
    BY <1>1 DEF DvoTypeOK
<1>2. CASE stage = "org" /\ UpdateOrgID /\ dvoReport' = Moved(Msg.cluster, Msg.org)
  <2>1. Msg.org \in Orgs
      BY <1>2, MsgIsMessage
  <2> QED
      BY <1>2, <2>1, MovedRow
<1>3. CASE \E new : dvoReport' = (dvoReport \ Of(Msg.cluster)) \union new /\ Written(Msg, new)
    BY <1>3 DEF Written, DvoTypeOK
<1> QED
    BY <1>1, <1>2, <1>3, TableStep

\* Every step preserves DvoTypeOK.
LEMMA DvoTypeStep ==
    ASSUME DvoTypeOK, DvoInv, [Next]_vars
    PROVE  DvoTypeOK'
<1>0. dvoReport' \subseteq DvoRow
    BY RowsTypeStep
<1> USE DEF DvoTypeOK, kafka, counters, Stages
<1>1. CASE StartMessage
    BY <1>0, <1>1 DEF StartMessage, Msg
<1>2. CASE UpdateOrgID
  <2>1. Msg.lastChecked \in Nat
      BY <1>2, MsgIsMessage DEF UpdateOrgID
  <2>2. stage' = "write" => Msg'.lastChecked \in Time
      BY <1>2, <2>1 DEF UpdateOrgID, Msg, Time
  <2> QED
      BY <1>0, <1>2, <2>2 DEF UpdateOrgID
<1>3. CASE WriteReport
  <2>1. Msg.cluster \in Clusters /\ Msg.lastChecked \in Nat
      BY <1>3, MsgIsMessage DEF WriteReport
  <2>2. cache' \in [Replicas -> [Clusters -> Nat]]
    <3>1. CASE UNCHANGED cache
        BY <3>1
    <3>2. CASE cache' = [cache EXCEPT ![owner][Msg.cluster] = Msg.lastChecked]
      <4> DEFINE entry == [cache[owner] EXCEPT ![Msg.cluster] = Msg.lastChecked]
      <4>1. entry \in [Clusters -> Nat]
          BY <2>1
      <4>2. cache' = [cache EXCEPT ![owner] = entry]
          BY <3>2
      <4> HIDE DEF entry
      <4> QED
          BY <4>1, <4>2
    <3> QED
        BY <1>3, <3>1, <3>2 DEF WriteReport
  <2> QED
      BY <1>0, <1>3, <2>2 DEF WriteReport
<1>4. CASE SendDeadLetter
  <2>1. position + 1 \in 1..Len(log)
      BY <1>4, MsgIsMessage DEF SendDeadLetter
  <2>2. failed' \subseteq 1..Len(log')
      BY <1>4, <2>1 DEF SendDeadLetter
  <2> QED
      BY <1>0, <1>4, <2>2 DEF SendDeadLetter
<1>5. CASE MarkMessage
    BY <1>0, <1>5 DEF MarkMessage
<1>6. CASE CommitOffsets
    BY <1>0, <1>6 DEF CommitOffsets, Msg
<1>7. CASE \E m \in Messages : Produce(m)
  <2>1. /\ log' \in Seq(Messages) /\ Len(log') \in Nat /\ Len(log) <= Len(log')
        /\ \A i \in 1..Len(log) : log'[i] = log[i]
      BY LogGrows
  <2>2. stage = "write" => Msg' = Msg
      BY <1>7, <2>1 DEF Produce, Msg
  <2>3. position <= Len(log') /\ failed \subseteq 1..Len(log')
      BY <2>1
  <2>4. stage # "idle" => position < Len(log')
      BY <2>1
  <2> QED
      BY <1>0, <1>7, <2>1, <2>2, <2>3, <2>4 DEF Produce
<1>8. CASE \E r \in Replicas : Rebalance(r) \/ LoseSession(r)
  <2>1. CASE \E r \in Replicas : Rebalance(r)
      BY <1>0, <2>1 DEF Rebalance
  <2>2. CASE \E r \in Replicas : LoseSession(r)
      BY <1>0, <2>2 DEF LoseSession
  <2> QED
      BY <1>8, <2>1, <2>2
<1>9. CASE Crash
  <2>1. cache' \in [Replicas -> [Clusters -> Nat]]
      BY <1>9 DEF Crash, NoTime
  <2> QED
      BY <1>0, <1>9, <2>1 DEF Crash
<1>10. CASE UNCHANGED vars
    BY <1>0, <1>10 DEF vars, Msg
<1> QED
    BY <1>1, <1>2, <1>3, <1>4, <1>5, <1>6, <1>7, <1>8, <1>9, <1>10 DEF Next, HandleStep

\* The message that is being handled stays the same until it is marked.
LEMMA MsgStays ==
    ASSUME DvoTypeOK, [Next]_vars, stage # "idle", position' = position
    PROVE  Msg' = Msg
<1>1. position + 1 \in 1..Len(log)
    BY MsgIsMessage
<1>2. log'[position + 1] = log[position + 1]
    BY <1>1, LogGrows
<1> QED
    BY <1>2 DEF Msg

\* Only UpdateOrgID follows StartMessage, only WriteReport follows UpdateOrgID.
LEMMA StageStep ==
    ASSUME DvoTypeOK, DvoInv, [Next]_vars
    PROVE  OnlyValidWritten'
<1> USE DEF DvoInv, OnlyValidWritten
<1>1. CASE StartMessage
    BY <1>1 DEF StartMessage, Msg, kafka
<1>2. CASE UpdateOrgID
    BY <1>2, MsgStays DEF UpdateOrgID, kafka
<1>3. CASE Next /\ ~StartMessage /\ ~UpdateOrgID /\ stage' = stage /\ position' = position
    BY <1>3, MsgStays
<1>4. CASE stage' \notin {"org", "write"}
    BY <1>4
<1>5. CASE UNCHANGED vars
    BY <1>5, MsgStays DEF vars, kafka
<1> QED
    BY <1>1, <1>2, <1>3, <1>4, <1>5 DEF Next, HandleStep, WriteReport, SendDeadLetter,
           MarkMessage, CommitOffsets, Produce, Rebalance, LoseSession, Crash

\* The first transaction settles the organization for the second.
LEMMA SettledStep ==
    ASSUME DvoTypeOK, DvoInv, [Next]_vars
    PROVE  OrgSettled'
<1> SUFFICES ASSUME stage' = "write", NEW row \in dvoReport', row.cluster = Msg'.cluster
             PROVE  row.org = Msg'.org
    BY DEF OrgSettled, Of
<1>1. CASE UpdateOrgID
  <2>1. Msg' = Msg /\ Msg.org \in Orgs /\ stage = "org"
      BY <1>1, MsgStays, MsgIsMessage DEF UpdateOrgID, kafka
  <2>2. dvoReport' = Moved(Msg.cluster, Msg.org)
    <3>1. UpdateOrgIDForCluster(Msg.org, Msg.cluster)
        BY <1>1 DEF UpdateOrgID
    <3> QED
        BY <3>1, OrgMoves DEF DvoInv
  <2> QED
      BY <2>1, <2>2, MovedRow
<1>2. CASE ~UpdateOrgID
  <2>1. stage = "write" /\ position' = position /\ UNCHANGED dvoReport
      BY <1>2 DEF Next, HandleStep, StartMessage, WriteReport, SendDeadLetter,
           MarkMessage, CommitOffsets, Produce, Rebalance, LoseSession, Crash, vars, kafka
  <2>2. Msg' = Msg
      BY <2>1, MsgStays
  <2> QED
      BY <2>1, <2>2 DEF DvoInv, OrgSettled, Of
<1> QED
    BY <1>1, <1>2

\* Both transactions keep the rows of a cluster alike.
LEMMA RowsStep ==
    ASSUME DvoTypeOK, DvoInv, [Next]_vars
    PROVE  OneDatePerCluster' /\ OneRowPerNamespace' /\ ReportedNotAfterChecked'
<1> USE DEF DvoInv, OneDatePerCluster, OneRowPerNamespace, ReportedNotAfterChecked
<1>1. CASE UNCHANGED dvoReport
    BY <1>1
<1>2. CASE stage = "org" /\ UpdateOrgID /\ dvoReport' = Moved(Msg.cluster, Msg.org)
  <2> DEFINE c == Msg.cluster
             o == Msg.org
  <2>1. o \in Orgs
      BY <1>2, MsgIsMessage
  <2>2. \A new \in dvoReport' : \E old \in dvoReport :
             /\ old.cluster = new.cluster /\ old.namespace = new.namespace
             /\ old.lastChecked = new.lastChecked /\ old.reportedAt = new.reportedAt
             /\ old.cluster = c => new.org = o /\ new = [old EXCEPT !.org = o]
             /\ old.cluster # c => new = old
      BY <1>2, <2>1, MovedRow
  <2> HIDE DEF c, o
  <2>3. ASSUME NEW a \in dvoReport', NEW b \in dvoReport', a.cluster = b.cluster
        PROVE  /\ a.lastChecked = b.lastChecked /\ a.org = b.org
               /\ a.namespace = b.namespace => a = b
    <3>1. PICK x \in dvoReport :
             /\ x.cluster = a.cluster /\ x.namespace = a.namespace
             /\ x.lastChecked = a.lastChecked
             /\ x.cluster = c => a.org = o /\ a = [x EXCEPT !.org = o]
             /\ x.cluster # c => a = x
        BY <2>2
    <3>2. PICK y \in dvoReport :
             /\ y.cluster = b.cluster /\ y.namespace = b.namespace
             /\ y.lastChecked = b.lastChecked
             /\ y.cluster = c => b.org = o /\ b = [y EXCEPT !.org = o]
             /\ y.cluster # c => b = y
        BY <2>2
    <3>3. x.lastChecked = y.lastChecked /\ x.org = y.org
        BY <2>3, <3>1, <3>2
    <3>4. a.namespace = b.namespace => x = y
        BY <2>3, <3>1, <3>2
    <3> QED
        BY <2>3, <3>1, <3>2, <3>3, <3>4, Zenon
  <2>4. ReportedNotAfterChecked'
      BY <2>2
  <2> QED
      BY <2>3, <2>4
<1>3. CASE stage = "write" /\
           \E new : dvoReport' = (dvoReport \ Of(Msg.cluster)) \union new /\ Written(Msg, new)
  <2>1. PICK new : dvoReport' = (dvoReport \ Of(Msg.cluster)) \union new /\ Written(Msg, new)
      BY <1>3
  <2>2. \A row \in new : /\ row.cluster = Msg.cluster /\ row.org = Msg.org
                         /\ row.lastChecked = Msg.lastChecked
                         /\ row.reportedAt <= row.lastChecked
      BY <2>1 DEF Written
  <2>3. \A a, b \in new : a.namespace = b.namespace => a = b
      BY <2>1 DEF Written
  <2>4. \A row \in dvoReport' : (row \in dvoReport /\ row.cluster # Msg.cluster) \/ row \in new
      BY <2>1 DEF Of
  <2> QED
      BY <2>2, <2>3, <2>4
<1> QED
    BY <1>1, <1>2, <1>3, TableStep

\* CacheFromLog for one entry.
CachedReport(c, t, reach) ==
    \E i \in 1..Len(log) :
        /\ losses = 0 => i <= reach
        /\ Valid(log[i]) /\ log[i].cluster = c /\ log[i].lastChecked = t

\* An entry that stays is justified by the report that justified it before.
LEMMA CachedReportStays ==
    ASSUME DvoTypeOK, [Next]_vars, NEW r \in Replicas, NEW c \in Clusters,
           cache'[r][c] = cache[r][c], CacheFromLog, cache[r][c] # NoTime,
           CacheReach(r) \in Nat, CacheReach(r)' \in Nat,
           losses' = 0 => losses = 0 /\ CacheReach(r) <= CacheReach(r)'
    PROVE  CachedReport(c, cache[r][c], CacheReach(r))'
<1>1. PICK i \in 1..Len(log) :
          /\ losses = 0 => i <= CacheReach(r)
          /\ Valid(log[i]) /\ log[i].cluster = c /\ log[i].lastChecked = cache[r][c]
    BY DEF CacheFromLog
<1>2. i \in 1..Len(log') /\ log'[i] = log[i]
    BY LogGrows
<1>3. losses' = 0 => i <= CacheReach(r)'
    BY <1>1
<1> QED
    BY <1>1, <1>2, <1>3 DEF CachedReport

\* Every step preserves CacheFromLog.
LEMMA CacheStep ==
    ASSUME DvoTypeOK, DvoInv, [Next]_vars, DvoTypeOK'
    PROVE  CacheFromLog'
<1> SUFFICES ASSUME NEW r \in Replicas, NEW c \in Clusters, cache'[r][c] # NoTime
             PROVE  CachedReport(c, cache[r][c], CacheReach(r))'
    BY DEF CacheFromLog, CachedReport
<1>1. CacheReach(r) \in Nat /\ CacheReach(r)' \in Nat
  <2>1. committed \in Nat /\ position \in Nat /\ committed' \in Nat /\ position' \in Nat
      BY DEF DvoTypeOK
  <2>2. \A n \in Nat : n + 1 \in Nat
      OBVIOUS
  <2>3. CacheReach(r) \in {committed, position, position + 1}
      BY DEF CacheReach
  <2>4. CacheReach(r)' \in {committed', position', position' + 1}
      BY DEF CacheReach
  <2> QED
      BY <2>1, <2>2, <2>3, <2>4
<1>2. ASSUME cache'[r][c] = cache[r][c],
             losses' = 0 => losses = 0 /\ CacheReach(r) <= CacheReach(r)'
      PROVE  CachedReport(c, cache[r][c], CacheReach(r))'
    BY <1>1, <1>2, CachedReportStays DEF DvoInv
<1>3. CASE WriteReport
  <2>1. CacheReach(r) <= CacheReach(r)' /\ losses' = losses
      BY <1>3 DEF WriteReport, CacheReach, kafka, counters, DvoTypeOK
  <2>2. CASE cache'[r][c] = cache[r][c]
      BY <1>2, <2>1, <2>2
  <2>3. CASE cache'[r][c] # cache[r][c]
    <3>1. cache' = [cache EXCEPT ![owner][Msg.cluster] = Msg.lastChecked]
        BY <1>3, <2>3 DEF WriteReport
    <3>2. r = owner /\ c = Msg.cluster /\ cache'[r][c] = Msg.lastChecked
        BY <2>3, <3>1 DEF DvoTypeOK
    <3>3. Valid(Msg) /\ position + 1 \in 1..Len(log)
        BY <1>3, MsgIsMessage DEF DvoInv, OnlyValidWritten, DvoTypeOK, WriteReport, Valid, Time
    <3>4. CacheReach(r)' = position + 1 /\ log' = log
        BY <1>3, <3>2 DEF WriteReport, CacheReach, kafka
    <3>5. position + 1 \in 1..Len(log') /\ position + 1 <= CacheReach(r)'
        BY <3>3, <3>4
    <3>6. /\ Valid(log'[position + 1]) /\ log'[position + 1].cluster = c
          /\ log'[position + 1].lastChecked = cache'[r][c]
        BY <3>2, <3>3, <3>4 DEF Msg
    <3> QED
        BY <3>5, <3>6 DEF CachedReport
  <2> QED
      BY <2>2, <2>3
<1>4. CASE Crash
  <2>1. r # owner
      BY <1>4 DEF Crash, DvoTypeOK
  <2>2. cache'[r][c] = cache[r][c] /\ CacheReach(r) <= CacheReach(r)' /\ losses' = losses
      BY <1>4, <2>1 DEF Crash, CacheReach, DvoTypeOK
  <2> QED
      BY <1>2, <2>2
<1>5. CASE ~WriteReport /\ ~Crash
  <2>1. cache' = cache
      BY <1>5 DEF Next, HandleStep, StartMessage, UpdateOrgID, SendDeadLetter,
                  MarkMessage, CommitOffsets, Produce, Rebalance, LoseSession, vars
  <2>2. losses' = 0 => losses = 0 /\ CacheReach(r) <= CacheReach(r)'
    <3>1. committed \in Nat /\ position \in Nat /\ committed <= position
        BY DEF DvoTypeOK
    <3>2. CASE StartMessage \/ UpdateOrgID \/ SendDeadLetter \/ MarkMessage
        BY <3>1, <3>2 DEF StartMessage, UpdateOrgID, SendDeadLetter, MarkMessage, kafka, counters,
                         CacheReach
    <3>3. CASE CommitOffsets
        BY <3>1, <3>3 DEF CommitOffsets, CacheReach, counters
    <3>4. CASE \E q \in Replicas : Rebalance(q)
        BY <3>1, <3>4 DEF Rebalance, CacheReach
    <3>5. CASE (\E m \in Messages : Produce(m)) \/ UNCHANGED vars
      <4>1. UNCHANGED <<committed, position, owner, stage, losses>>
          BY <3>5 DEF Produce, vars, kafka, counters
      <4> QED
          BY <3>1, <4>1 DEF CacheReach
    <3>6. CASE \E q \in Replicas : LoseSession(q)
        BY <3>6 DEF LoseSession, DvoTypeOK
    <3> QED
        BY <1>5, <3>2, <3>3, <3>4, <3>5, <3>6 DEF Next, HandleStep
  <2> QED
      BY <1>2, <2>1, <2>2
<1> QED
    BY <1>3, <1>4, <1>5

\* Every step preserves the inductive invariant.
LEMMA DvoInvStep ==
    ASSUME DvoTypeOK, DvoInv, [Next]_vars
    PROVE  DvoTypeOK' /\ DvoInv'
<1>1. DvoTypeOK'
    BY DvoTypeStep
<1>2. CacheFromLog'
    BY <1>1, CacheStep
<1> QED
    BY <1>1, <1>2, StageStep, SettledStep, RowsStep DEF DvoInv

\* It holds in the beginning.
LEMMA DvoInvInit ==
    ASSUME Init
    PROVE  DvoTypeOK /\ DvoInv
<1> USE DEF Init
<1>1. DvoTypeOK
    BY DEF DvoTypeOK, Stages, NoTime
<1>2. DvoInv
    BY DEF DvoInv, OrgSettled, OnlyValidWritten, OneDatePerCluster, OneRowPerNamespace,
           ReportedNotAfterChecked, CacheFromLog
<1> QED
    BY <1>1, <1>2

\* And so always.
LEMMA DvoInvAlways == Spec => [](DvoTypeOK /\ DvoInv)
<1>1. Init => DvoTypeOK /\ DvoInv
    BY DvoInvInit
<1>2. DvoTypeOK /\ DvoInv /\ [Next]_vars => (DvoTypeOK /\ DvoInv)'
    BY DvoInvStep
<1> QED
    BY <1>1, <1>2, PTL DEF Spec

\* Every variable of the DVO writer keeps its type: the numbers in dvo.dvo_report
\* are numbers, and no row gets a date that did not parse.
THEOREM DvoTypeCorrect == Spec => []DvoTypeOK
BY DvoInvAlways, PTL

\* The rows of a cluster have one organization and one last_checked_at, one row for
\* each namespace, and no reported_at after it; what writeDVOReport looks up by
\* (org_id, cluster_id) is all there is of the cluster.
THEOREM DvoTableIsConsistent == Spec => []DvoInv
BY DvoInvAlways, PTL

\* What a step does to two rows of a cluster.
LEMMA ReportedAtStep ==
    ASSUME "lookup" \notin Faults, DvoTypeOK, DvoInv, [Next]_vars,
           NEW old \in dvoReport, NEW new \in dvoReport', old.cluster = new.cluster
    PROVE  /\ old.lastChecked <= new.lastChecked
           /\ old.namespace = new.namespace
                  => new.reportedAt \in {old.reportedAt, RFC3339(old.reportedAt)}
<1>0. old.lastChecked \in Nat
    BY DEF DvoTypeOK, DvoRow, Time
<1> DEFINE Same(row) == /\ row \in dvoReport /\ row.cluster = new.cluster
                        /\ row.namespace = new.namespace
                        /\ row.lastChecked = new.lastChecked
                        /\ row.reportedAt = new.reportedAt
<1>1. ASSUME NEW row, Same(row)
      PROVE  old.lastChecked = new.lastChecked
             /\ (old.namespace = new.namespace => new.reportedAt = old.reportedAt)
    BY <1>1 DEF DvoInv, OneDatePerCluster, OneRowPerNamespace
<1>2. CASE UNCHANGED dvoReport
  <2>1. Same(new)
      BY <1>2
  <2> QED
      BY <1>0, <1>1, <2>1
<1>3. CASE stage = "org" /\ UpdateOrgID /\ dvoReport' = Moved(Msg.cluster, Msg.org)
  <2>1. \E row : Same(row)
      BY <1>3, MsgIsMessage, MovedRow
  <2> QED
      BY <1>0, <1>1, <2>1
<1>4. CASE stage = "write" /\ ~NewerInDB /\
           \E rows : /\ dvoReport' = (dvoReport \ Of(Msg.cluster)) \union rows
                     /\ Written(Msg, rows) /\ KeepsReportedAt(Of(Msg.cluster), rows)
  <2>1. PICK rows : /\ dvoReport' = (dvoReport \ Of(Msg.cluster)) \union rows
                    /\ Written(Msg, rows) /\ KeepsReportedAt(Of(Msg.cluster), rows)
      BY <1>4
  <2>2. CASE new \in dvoReport
    <3>1. Same(new)
        BY <2>2
    <3> QED
        BY <1>0, <1>1, <3>1
  <2>3. CASE new \in rows
    <3>1. new.cluster = Msg.cluster /\ new.lastChecked = Msg.lastChecked
        BY <2>1, <2>3 DEF Written
    <3>2. old \in Of(Msg.cluster) /\ old \in Owned(Msg.cluster, Msg.org)
        BY <1>4, <3>1, Settled DEF Of
    <3>3. ~(old.lastChecked > Msg.lastChecked) /\ Msg.lastChecked \in Nat
        BY <1>4, <3>2, MsgIsMessage DEF NewerInDB
    <3>4. old.lastChecked <= new.lastChecked
        BY <1>0, <3>1, <3>3
    <3> QED
        BY <2>1, <2>3, <3>2, <3>4 DEF KeepsReportedAt
  <2> QED
      BY <2>1, <2>2, <2>3
<1> QED
    BY <1>2, <1>3, <1>4, TableStep

\* If getReportedAtMap does not fail, a namespace never loses its reported_at beyond
\* the fraction of a second, and last_checked_at of a cluster never goes back.
THEOREM ReportedAtAlwaysKept ==
    ASSUME "lookup" \notin Faults
    PROVE  Spec => ReportedAtIsKept
<1> DEFINE A == \A old \in dvoReport, new \in dvoReport' :
                    old.cluster = new.cluster =>
                        /\ old.lastChecked <= new.lastChecked
                        /\ old.namespace = new.namespace
                               => new.reportedAt \in {old.reportedAt, RFC3339(old.reportedAt)}
<1>1. DvoTypeOK /\ DvoInv /\ [Next]_vars => [A]_vars
    BY ReportedAtStep
<1> QED
    BY <1>1, DvoInvAlways, PTL DEF Spec, ReportedAtIsKept

-----------------------------------------------------------------------------

\* A step leaves it alone or makes it what the message says.
LEMMA ContentsStep ==
    ASSUME DvoTypeOK, DvoInv, [Next]_vars, NEW c \in Clusters
    PROVE  \/ ContentsIn(c)' = ContentsIn(c)
           \/ /\ stage = "write" /\ WriteReport /\ c = Msg.cluster
              /\ ~NewerInDB /\ ContentsIn(c)' = ReportContents(Msg)
<1>1. CASE UNCHANGED dvoReport
    BY <1>1 DEF ContentsIn, Of
<1>2. CASE stage = "org" /\ UpdateOrgID /\ dvoReport' = Moved(Msg.cluster, Msg.org)
  <2>1. Msg.org \in Orgs
      BY <1>2, MsgIsMessage
  <2>2. \A new \in dvoReport' : \E old \in dvoReport :
            old.cluster = new.cluster /\ ContentsOf(old) = ContentsOf(new)
      BY <1>2, <2>1, MovedRow
  <2>3. ASSUME NEW old \in dvoReport
        PROVE  \E new \in dvoReport' :
                   old.cluster = new.cluster /\ ContentsOf(old) = ContentsOf(new)
    <3>1. CASE old.cluster # Msg.cluster
      <4>1. old \in dvoReport'
          BY <1>2, <3>1 DEF Moved, Of
      <4> QED
          BY <4>1
    <3>2. CASE old.cluster = Msg.cluster
      <4> DEFINE new == [old EXCEPT !.org = Msg.org]
      <4>1. new \in dvoReport'
          BY <1>2, <3>2 DEF Moved, Of
      <4>2. /\ old.cluster = new.cluster /\ old.namespace = new.namespace
            /\ old.lastChecked = new.lastChecked
            /\ old.recommendations = new.recommendations
            /\ old.objects = new.objects /\ old.ruleHits = new.ruleHits
          BY DEF DvoTypeOK, DvoRow
      <4> HIDE DEF new
      <4> QED
          BY <4>1, <4>2 DEF ContentsOf
    <3> QED
        BY <3>1, <3>2
  <2> QED
      BY <2>2, <2>3 DEF ContentsIn, Of
<1>3. CASE /\ stage = "write" /\ WriteReport /\ ~NewerInDB
           /\ \E new : dvoReport' = (dvoReport \ Of(Msg.cluster)) \union new /\ Written(Msg, new)
  <2>1. PICK new : dvoReport' = (dvoReport \ Of(Msg.cluster)) \union new /\ Written(Msg, new)
      BY <1>3
  <2>2. (\A row \in new : row.cluster = Msg.cluster)
        /\ {ContentsOf(row) : row \in new} = ReportContents(Msg)
      BY <2>1 DEF Written
  <2>3. CASE c = Msg.cluster
    <3>1. Of(c)' = new
        BY <2>1, <2>2, <2>3 DEF Of
    <3> QED
        BY <1>3, <2>2, <2>3, <3>1 DEF ContentsIn
  <2>4. CASE c # Msg.cluster
    <3>1. Of(c)' = Of(c)
        BY <2>1, <2>2, <2>4 DEF Of
    <3> QED
        BY <3>1 DEF ContentsIn
  <2> QED
      BY <2>3, <2>4
<1> QED
    BY <1>1, <1>2, <1>3, TableStep

\* Only valid reports get to WriteReport.
LEMMA WriteIsValid ==
    ASSUME DvoTypeOK, DvoInv, stage = "write"
    PROVE  Valid(Msg)
BY DEF DvoInv, OnlyValidWritten, DvoTypeOK, Valid, Time

\* The second part of RowsAreOneReport.
OneReport ==
    \A c \in Clusters : Of(c) # {} =>
        \E i \in 1..Len(log) :
            Valid(log[i]) /\ log[i].cluster = c /\ ContentsIn(c) = ReportContents(log[i])

\* Every step preserves it.
LEMMA OneReportStep ==
    ASSUME DvoTypeOK, DvoInv, OneReport, [Next]_vars
    PROVE  OneReport'
<1> SUFFICES ASSUME NEW c \in Clusters, Of(c)' # {}
             PROVE  \E i \in 1..Len(log') :
                        /\ Valid(log'[i]) /\ log'[i].cluster = c
                        /\ ContentsIn(c)' = ReportContents(log'[i])
    BY DEF OneReport
<1>1. \A i \in 1..Len(log) : i \in 1..Len(log') /\ log'[i] = log[i]
    BY LogGrows
<1>2. CASE ContentsIn(c)' = ContentsIn(c)
  <2>1. Of(c) # {}
      BY <1>2 DEF ContentsIn
  <2>2. PICK i \in 1..Len(log) :
            Valid(log[i]) /\ log[i].cluster = c /\ ContentsIn(c) = ReportContents(log[i])
      BY <2>1 DEF OneReport
  <2> QED
      BY <1>1, <1>2, <2>2
<1>3. CASE stage = "write" /\ c = Msg.cluster /\ ContentsIn(c)' = ReportContents(Msg)
  <2>1. position + 1 \in 1..Len(log) /\ Valid(Msg) /\ Msg = log[position + 1]
      BY <1>3, MsgIsMessage, WriteIsValid DEF Msg
  <2> QED
      BY <1>1, <1>3, <2>1
<1> QED
    BY <1>2, <1>3, ContentsStep

\* The rows of a cluster are always all rows of one report of it, with the numbers
\* that report implies, whatever failed or was delivered again.
THEOREM DvoRowsAreOneReport == Spec => []RowsAreOneReport
<1>1. Init => OneReport
    BY DEF Init, OneReport, Of
<1>2. DvoTypeOK /\ DvoInv /\ OneReport /\ [Next]_vars => OneReport'
    BY OneReportStep
<1>3. DvoTypeOK /\ DvoInv /\ OneReport => RowsAreOneReport
    BY DEF DvoInv, OneDatePerCluster, OneReport, RowsAreOneReport, ContentsIn, Of
<1> QED
    BY <1>1, <1>2, <1>3, DvoInvAlways, PTL DEF Spec

-----------------------------------------------------------------------------

\* The bound on the messages that were handled.
LEMMA HandledType ==
    ASSUME DvoTypeOK
    PROVE  Handled \in 0..Len(log) /\ Handled \in Nat
<1>1. position \in Nat /\ position <= Len(log) /\ Len(log) \in Nat
      /\ (stage = "mark" => position < Len(log))
    BY DEF DvoTypeOK
<1>2. CASE stage = "mark"
    BY <1>1, <1>2 DEF Handled
<1>3. CASE stage # "mark"
    BY <1>1, <1>3 DEF Handled
<1> QED
    BY <1>2, <1>3

\* The cluster and the date of a message of the topic.
LEMMA LogIsTyped ==
    ASSUME DvoTypeOK, NEW i \in 1..Len(log)
    PROVE  log[i].cluster \in Clusters /\ log[i].lastChecked \in Nat
<1>1. log[i] \in Messages
    BY DEF DvoTypeOK
<1> QED
    BY <1>1, DvoConstants DEF Message

\* A last report has the latest date, and no other has it.
LEMMA LastIsNewest ==
    ASSUME DvoTypeOK, NEW i \in 1..Len(log), NEW j \in 1..Len(log), LastReport(i),
           Valid(log[j]), log[j].cluster = log[i].cluster
    PROVE  /\ j <= i /\ log[j].lastChecked <= log[i].lastChecked
           /\ j # i => log[j].lastChecked < log[i].lastChecked
<1>1. DOMAIN log = 1..Len(log) /\ Len(log) \in Nat
    BY DEF DvoTypeOK
<1>2. ~(j > i)
    BY <1>1 DEF LastReport
<1>3. j <= i /\ log[i].lastChecked \in Nat /\ log[j].lastChecked \in Nat
    BY <1>1, <1>2, LogIsTyped
<1>4. j < i => log[j].lastChecked < log[i].lastChecked
    BY <1>1 DEF LastReport, InOrder
<1> QED
    BY <1>3, <1>4

\* A last report of the next state was one before, if it was there.
LEMMA LastReportBefore ==
    ASSUME DvoTypeOK, [Next]_vars, NEW i \in 1..Len(log), LastReport(i)'
    PROVE  LastReport(i) /\ log'[i] = log[i]
<1>1. \A j \in 1..Len(log) : j \in 1..Len(log') /\ log'[j] = log[j]
    BY LogGrows
<1>2. DOMAIN log = 1..Len(log) /\ DOMAIN log' = 1..Len(log')
    BY LogGrows DEF DvoTypeOK
<1>3. \A j \in DOMAIN log : j \in DOMAIN log' /\ log'[j] = log[j]
    BY <1>1, <1>2
<1>4. InOrder
  <2>1. InOrder'
      BY DEF LastReport
  <2> SUFFICES ASSUME NEW j \in DOMAIN log, NEW k \in DOMAIN log, j < k, Valid(log[j]),
                      Valid(log[k]), log[j].cluster = log[k].cluster
               PROVE  log[j].lastChecked < log[k].lastChecked
      BY DEF InOrder
  <2> QED
      BY <1>3, <2>1 DEF InOrder
<1>5. Valid(log[i]) /\ i \in DOMAIN log
    BY <1>2, <1>3 DEF LastReport
<1>6. \A j \in DOMAIN log : j > i => ~(Valid(log[j]) /\ log[j].cluster = log[i].cluster)
    BY <1>2, <1>3 DEF LastReport
<1> QED
    BY <1>1, <1>4, <1>5, <1>6 DEF LastReport

\* The rows of a report have its date.
LEMMA RowsHaveItsDate ==
    ASSUME NEW c, NEW m, ContentsIn(c) = ReportContents(m), NEW row \in Of(c)
    PROVE  row.lastChecked = m.lastChecked
<1>1. ContentsOf(row) \in ReportContents(m)
    BY DEF ContentsIn
<1>2. PICK ns : ContentsOf(row) = RowContents(m, ns)
    BY <1>1 DEF ReportContents
<1>3. ContentsOf(row).lastChecked = row.lastChecked
    BY DEF ContentsOf
<1>4. RowContents(m, ns).lastChecked = m.lastChecked
    BY DEF RowContents
<1> QED
    BY <1>2, <1>3, <1>4

\* The table has nothing newer than a last report.
LEMMA NothingNewer ==
    ASSUME DvoTypeOK, OneReport, NEW i \in 1..Len(log), LastReport(i),
           NEW row \in Of(log[i].cluster)
    PROVE  ~(row.lastChecked > log[i].lastChecked)
<1>1. PICK j \in 1..Len(log) :
          /\ Valid(log[j]) /\ log[j].cluster = log[i].cluster
          /\ ContentsIn(log[i].cluster) = ReportContents(log[j])
    BY LogIsTyped DEF OneReport
<1>2. row.lastChecked = log[j].lastChecked
    BY <1>1, RowsHaveItsDate
<1>3. /\ log[j].lastChecked <= log[i].lastChecked
      /\ log[i].lastChecked \in Nat /\ log[j].lastChecked \in Nat
    BY <1>1, LastIsNewest, LogIsTyped
<1> QED
    BY <1>2, <1>3

\* A stored last report stays: an older one is refused by the date of its rows, or,
\* if it has none, because no report of the cluster comes after it.
LEMMA StoredStays ==
    ASSUME DvoTypeOK, DvoInv, [Next]_vars, NEW i \in 1..Len(log), LastReport(i)', IsStored(i),
           i <= Handled \/ ReportContents(log[i]) # {}
    PROVE  IsStored(i)'
<1> DEFINE c == log[i].cluster
           n == position + 1
<1>1. LastReport(i) /\ log'[i] = log[i] /\ c \in Clusters
    BY LastReportBefore, LogIsTyped
<1>2. CASE ContentsIn(c)' = ContentsIn(c)
    BY <1>1, <1>2 DEF IsStored
<1>3. CASE stage = "write" /\ c = Msg.cluster /\ ~NewerInDB /\ ContentsIn(c)' = ReportContents(Msg)
  <2>1. n \in 1..Len(log) /\ Valid(log[n]) /\ Msg = log[n] /\ log[n].cluster = c
      BY <1>3, MsgIsMessage, WriteIsValid DEF Msg
  <2>2. n <= i /\ (n # i => Msg.lastChecked < log[i].lastChecked)
      BY <1>1, <2>1, LastIsNewest
  <2>3. CASE n = i
      BY <1>1, <1>3, <2>1, <2>3 DEF IsStored
  <2>4. CASE n # i
    <3>1. ~(i <= Handled)
        BY <1>3, <2>2, <2>4 DEF Handled, DvoTypeOK
    <3>2. ContentsIn(c) # {}
        BY <3>1 DEF IsStored
    <3>3. PICK row : row \in Of(c)
        BY <3>2 DEF ContentsIn
    <3>4. row.lastChecked = log[i].lastChecked
        BY <3>3, RowsHaveItsDate DEF IsStored
    <3>5. log[i].lastChecked \in Nat /\ Msg.lastChecked \in Nat
        BY <1>3, LogIsTyped, MsgIsMessage
    <3>6. row.lastChecked > Msg.lastChecked
        BY <2>2, <2>4, <3>4, <3>5
    <3>7. row \in Owned(Msg.cluster, Msg.org)
        BY <1>3, <3>3, Settled
    <3> QED
        BY <1>3, <3>6, <3>7 DEF NewerInDB
  <2> QED
      BY <2>3, <2>4
<1> QED
    BY <1>1, <1>2, <1>3, ContentsStep

\* What WriteReport does with the report that it is given.
LEMMA WriteStores ==
    ASSUME DvoTypeOK, DvoInv, WriteReport
    PROVE  /\ \/ OldByCache \/ NewerInDB
              \/ stage' = "fail"
              \/ stage' = "mark" /\ ContentsIn(Msg.cluster)' = ReportContents(Msg)
           /\ (OldByCache \/ NewerInDB) => UNCHANGED <<dvoReport, cache>>
<1>1. CASE OldByCache \/ NewerInDB
    BY <1>1 DEF WriteReport
<1>2. CASE ~OldByCache /\ ~NewerInDB /\ stage' = "fail"
    BY <1>2
<1>3. CASE ~OldByCache /\ ~NewerInDB /\ stage' # "fail"
  <2>1. stage = "write" /\ stage' = "mark" /\ UpdateReport(Msg)
      BY <1>3 DEF WriteReport
  <2>2. PICK new : dvoReport' = (dvoReport \ Of(Msg.cluster)) \union new /\ Written(Msg, new)
      BY <1>3, <2>1, ReportIsWritten
  <2>3. {row \in dvoReport' : row.cluster = Msg.cluster} = new
      BY <2>2 DEF Of, Written
  <2>4. Msg' = Msg
      BY DEF WriteReport, kafka, Msg
  <2>5. ContentsIn(Msg.cluster)' = {ContentsOf(row) : row \in new}
      BY <2>3, <2>4 DEF ContentsIn, Of
  <2> QED
      BY <1>3, <2>1, <2>2, <2>5 DEF Written
<1> QED
    BY <1>1, <1>2, <1>3

\* Every step preserves CachedLast.
LEMMA CachedLastStep ==
    ASSUME DvoTypeOK, DvoInv, CachedLast, [Next]_vars, DvoTypeOK'
    PROVE  CachedLast'
<1> SUFFICES ASSUME NEW i \in 1..Len(log'), NEW r \in Replicas,
                    cache'[r][log'[i].cluster] = log'[i].lastChecked,
                    LastReport(i)', ReportContents(log'[i]) # {}
             PROVE  \/ IsStored(i)'
                    \/ i \in failed'
                    \/ r = owner' /\ i = position' + 1 /\ stage' = "fail"
    BY DEF CachedLast
<1> DEFINE c == log'[i].cluster
           t == log'[i].lastChecked
<1>1. t # NoTime /\ Len(log) \in Nat /\ Len(log') \in Nat /\ Len(log) <= Len(log')
    BY LogGrows DEF LastReport, Valid, DvoTypeOK
<1>2. CASE i \notin 1..Len(log)
  <2>1. \E m \in Messages : Produce(m)
      BY <1>1, <1>2 DEF Next, HandleStep, CommitOffsets, Rebalance, LoseSession, Crash,
         StartMessage, UpdateOrgID, WriteReport, SendDeadLetter, MarkMessage, vars, kafka
  <2>2. cache[r][c] = t /\ c \in Clusters
    <3>1. cache' = cache
        BY <2>1 DEF Produce
    <3>2. log'[i] \in Messages
        BY LogGrows
    <3> QED
        BY <3>1, <3>2, DvoConstants DEF Message
  <2>3. PICK j \in 1..Len(log) : Valid(log[j]) /\ log[j].cluster = c /\ log[j].lastChecked = t
      BY <1>1, <2>2 DEF DvoInv, CacheFromLog
  <2>4. /\ log'[j] = log[j] /\ j \in DOMAIN log' /\ i \in DOMAIN log'
        /\ j < i /\ t \in Nat
    <3>1. DOMAIN log' = 1..Len(log') /\ t = log[j].lastChecked
        BY <2>3, LogGrows
    <3> QED
        BY <1>1, <1>2, <3>1, LogGrows, LogIsTyped
  <2> QED
      BY <2>3, <2>4 DEF LastReport, InOrder
<1>3. CASE i \in 1..Len(log)
  <2>1. LastReport(i) /\ log'[i] = log[i] /\ c \in Clusters
      BY <1>3, LastReportBefore, LogIsTyped
  <2>2. CASE cache'[r][c] = cache[r][c]
    <3>1. \/ IsStored(i)
          \/ i \in failed
          \/ r = owner /\ i = position + 1 /\ stage = "fail"
        BY <1>3, <2>1, <2>2 DEF CachedLast
    <3>2. CASE IsStored(i)
        BY <1>3, <2>1, <3>2, StoredStays
    <3>3. CASE i \in failed
        BY <3>3, LogGrows
    <3>4. CASE r = owner /\ i = position + 1 /\ stage = "fail"
      <4>1. CASE SendDeadLetter
          BY <3>4, <4>1 DEF SendDeadLetter
      <4>2. CASE Crash
        <5>1. cache'[r][c] = NoTime
            BY <2>1, <3>4, <4>2 DEF Crash, DvoTypeOK
        <5> QED
            BY <1>1, <5>1
      <4>3. CASE ~SendDeadLetter /\ ~Crash
        <5>1. UNCHANGED <<owner, position, stage>>
            BY <3>4, <4>3 DEF Next, HandleStep, CommitOffsets, Rebalance, LoseSession, Produce,
               StartMessage, UpdateOrgID, WriteReport, MarkMessage, vars, kafka
        <5> QED
            BY <3>4, <5>1
      <4> QED
          BY <4>1, <4>2, <4>3
    <3> QED
        BY <3>1, <3>2, <3>3, <3>4
  <2>3. CASE cache'[r][c] # cache[r][c]
    <3>1. ~Crash
      <4>1. ASSUME Crash PROVE cache'[r][c] \in {NoTime, cache[r][c]}
          BY <2>1, <4>1 DEF Crash, DvoTypeOK
      <4> QED
          BY <1>1, <2>3, <4>1
    <3>2. WriteReport
        BY <2>3, <3>1 DEF Next, HandleStep, CommitOffsets, Rebalance, LoseSession, Produce,
           StartMessage, UpdateOrgID, SendDeadLetter, MarkMessage, vars
    <3>3. cache' = [cache EXCEPT ![owner][Msg.cluster] = Msg.lastChecked]
        BY <2>3, <3>2 DEF WriteReport
    <3>4. r = owner /\ c = Msg.cluster /\ t = Msg.lastChecked
        BY <2>1, <2>3, <3>3 DEF DvoTypeOK
    <3>5. stage = "write" /\ owner' = owner /\ position' = position
        BY <3>2 DEF WriteReport, kafka
    <3>6. position + 1 \in 1..Len(log) /\ Valid(Msg) /\ Msg = log[position + 1]
        BY <3>5, MsgIsMessage, WriteIsValid DEF Msg
    <3>7. i = position + 1
      <4>1. position + 1 # i => Msg.lastChecked < log[i].lastChecked
          BY <1>3, <2>1, <3>4, <3>6, LastIsNewest
      <4>2. log[i].lastChecked \in Nat /\ Msg.lastChecked = log[i].lastChecked
          BY <1>3, <2>1, <3>4, LogIsTyped
      <4> QED
          BY <4>1, <4>2
    <3>8. stage' = "fail" \/ IsStored(i)'
      <4>1. ~(OldByCache \/ NewerInDB)
          BY <2>3, <3>2, WriteStores
      <4>2. stage' = "fail" \/ ContentsIn(Msg.cluster)' = ReportContents(Msg)
          BY <3>2, <4>1, WriteStores
      <4>3. Msg' = Msg /\ log'[i] = Msg /\ c = Msg.cluster
          BY <2>1, <3>2, <3>4, <3>6, <3>7 DEF WriteReport, kafka, Msg
      <4> QED
          BY <4>2, <4>3 DEF IsStored, ContentsIn, Of
    <3> QED
        BY <3>4, <3>5, <3>7, <3>8
  <2> QED
      BY <2>2, <2>3
<1> QED
    BY <1>2, <1>3

\* The steps that handle a message.
LEMMA HandlingStep ==
    ASSUME DvoTypeOK, [Next]_vars
    PROVE  \/ Handled' <= Handled
           \/ /\ Handled = position /\ Handled' = position + 1
              /\ UNCHANGED <<log, position, losses>>
              /\ \/ WriteReport /\ stage' = "mark"
                 \/ SendDeadLetter
                 \/ StartMessage /\ ~Valid(Msg)
<1>0. position \in Nat /\ committed \in Nat /\ committed <= position
    BY DEF DvoTypeOK
<1>1. CASE StartMessage
    BY <1>0, <1>1 DEF StartMessage, Handled, kafka, counters, Valid, Msg
<1>2. CASE UpdateOrgID \/ MarkMessage
    BY <1>0, <1>2 DEF UpdateOrgID, MarkMessage, Handled, kafka
<1>3. CASE WriteReport
    BY <1>0, <1>3 DEF WriteReport, Handled, kafka, counters
<1>4. CASE SendDeadLetter
    BY <1>0, <1>4 DEF SendDeadLetter, Handled, kafka, counters
<1>5. CASE CommitOffsets
    BY <1>0, <1>5 DEF CommitOffsets, Handled
<1>6. CASE \E r \in Replicas : Rebalance(r) \/ LoseSession(r)
    BY <1>0, <1>6 DEF Rebalance, LoseSession, Handled
<1>7. CASE Crash
    BY <1>0, <1>7 DEF Crash, Handled
<1>8. CASE (\E m \in Messages : Produce(m)) \/ UNCHANGED vars
  <2>1. UNCHANGED <<position, stage>>
      BY <1>8 DEF Produce, vars, kafka
  <2> QED
      BY <1>0, <2>1 DEF Handled
<1> QED
    BY <1>1, <1>2, <1>3, <1>4, <1>5, <1>6, <1>7, <1>8 DEF Next, HandleStep

\* A last report that is refused as old was stored by an earlier delivery.
LEMMA RefusedIsStored ==
    ASSUME DvoTypeOK, DvoInv, OneReport, CachedLast, stage = "write", OldByCache \/ NewerInDB,
           LastReport(position + 1), position + 1 \notin failed, Repeatable(position + 1)
    PROVE  IsStored(position + 1)
<1> DEFINE i == position + 1
           c == Msg.cluster
<1>1. /\ i \in 1..Len(log) /\ Msg = log[i] /\ c \in Clusters
      /\ Msg.lastChecked \in Nat /\ owner \in Replicas
    BY MsgIsMessage DEF Msg, DvoTypeOK
<1>2. ~NewerInDB
    BY <1>1, NothingNewer DEF NewerInDB, Owned
<1>3. cache[owner][c] # NoTime /\ Msg.lastChecked <= cache[owner][c] /\ cache[owner][c] \in Nat
    BY <1>1, <1>2 DEF OldByCache, DvoTypeOK
<1>4. PICK j \in 1..Len(log) : /\ losses = 0 => j <= CacheReach(owner)
                               /\ Valid(log[j]) /\ log[j].cluster = c
                               /\ log[j].lastChecked = cache[owner][c]
    BY <1>1, <1>3 DEF DvoInv, CacheFromLog
<1>5. log[j].lastChecked <= log[i].lastChecked /\ (j # i => log[j].lastChecked < log[i].lastChecked)
    BY <1>1, <1>4, LastIsNewest
<1>6. j = i /\ cache[owner][c] = log[i].lastChecked
    BY <1>1, <1>3, <1>4, <1>5
<1>7. losses # 0
    BY <1>4, <1>6 DEF CacheReach, DvoTypeOK
<1>8. ReportContents(log[i]) # {}
    BY <1>7 DEF Repeatable
<1> QED
    BY <1>1, <1>6, <1>8 DEF CachedLast

\* Every step preserves TableIsCurrent.
LEMMA CurrentStep ==
    ASSUME DvoTypeOK, DvoInv, OneReport, TableIsCurrent, [Next]_vars, DvoTypeOK'
    PROVE  TableIsCurrent'
<1>1. CachedLast'
    BY CachedLastStep DEF TableIsCurrent
<1> SUFFICES ASSUME NEW i \in 1..Handled', i \notin failed', LastReport(i)', Repeatable(i)'
             PROVE  IsStored(i)'
    BY <1>1 DEF TableIsCurrent
<1>2. /\ Handled \in 0..Len(log) /\ Handled \in Nat /\ Len(log) \in Nat
      /\ position \in Nat /\ Handled' \in Nat
  <2>1. Handled' \in Nat
    <3>1. position' \in Nat
        BY DEF DvoTypeOK
    <3>2. Handled' = position' \/ Handled' = position' + 1
        BY DEF Handled
    <3>3. \A n \in Nat : n + 1 \in Nat
        OBVIOUS
    <3> QED
        BY <3>1, <3>2, <3>3
  <2> QED
      BY <2>1, HandledType DEF DvoTypeOK
\* It did not fail before, and its session was as good.
<1>3. ASSUME i \in 1..Len(log) PROVE LastReport(i) /\ log'[i] = log[i] /\ i \notin failed
    BY <1>3, LastReportBefore, LogGrows
<1>4. losses' = 0 => losses = 0
  <2>1. losses \in Nat
      BY DEF DvoTypeOK
  <2>2. losses' = losses \/ losses' = losses + 1
      BY DEF Next, HandleStep, CommitOffsets, Rebalance, LoseSession, Crash, Produce,
         StartMessage, UpdateOrgID, WriteReport, SendDeadLetter, MarkMessage, vars, counters
  <2> QED
      BY <2>1, <2>2
<1>5. CASE i <= Handled
  <2>1. i \in 1..Handled /\ i \in 1..Len(log)
      BY <1>2, <1>5
  <2>2. Repeatable(i)
      BY <1>3, <1>4, <2>1 DEF Repeatable
  <2>3. IsStored(i)
      BY <1>3, <2>1, <2>2 DEF TableIsCurrent
  <2> QED
      BY <1>5, <2>1, <2>3, StoredStays
<1>6. CASE ~(i <= Handled)
  <2>1. ~(Handled' <= Handled)
      BY <1>2, <1>6
  <2>2. /\ Handled = position /\ Handled' = position + 1 /\ UNCHANGED <<log, position, losses>>
        /\ \/ WriteReport /\ stage' = "mark"
           \/ SendDeadLetter
           \/ StartMessage /\ ~Valid(Msg)
      BY <2>1, HandlingStep
  <2>3. i = position + 1
      BY <1>2, <1>6, <2>2
  <2>4. i \in 1..Len(log)
    <3>1. position < Len(log)
        BY <2>2 DEF WriteReport, SendDeadLetter, StartMessage, DvoTypeOK
    <3> QED
        BY <1>2, <2>3, <3>1
  <2>5. LastReport(i) /\ i \notin failed /\ Msg = log[i] /\ Valid(Msg)
      BY <1>3, <2>3, <2>4 DEF Msg, LastReport
  <2>6. ~SendDeadLetter
      BY <2>3 DEF SendDeadLetter
  <2>7. WriteReport /\ stage' = "mark" /\ stage = "write"
      BY <2>2, <2>5, <2>6 DEF WriteReport
  <2>8. CASE OldByCache \/ NewerInDB
    <3>1. Repeatable(i)
        BY <2>2 DEF Repeatable
    <3>2. IsStored(i)
        BY <2>3, <2>5, <2>7, <2>8, <3>1, RefusedIsStored DEF TableIsCurrent
    <3>3. UNCHANGED <<dvoReport, log>>
        BY <2>2, <2>7, <2>8, WriteStores
    <3> QED
        BY <3>2, <3>3 DEF IsStored, ContentsIn, Of
  <2>9. CASE ~(OldByCache \/ NewerInDB)
    <3>1. ContentsIn(Msg.cluster)' = ReportContents(Msg)
        BY <2>7, <2>9, WriteStores
    <3>2. Msg' = Msg /\ log' = log
        BY <2>2 DEF Msg
    <3> QED
        BY <2>5, <3>1, <3>2 DEF IsStored, ContentsIn
  <2> QED
      BY <2>8, <2>9
<1> QED
    BY <1>5, <1>6

\* Once the last report of a cluster has been handled without failing, the table is
\* that of this report, whatever was lost, crashed, failed or came again before: if
\* it was refused as old, an earlier delivery of it has been stored.  Only an empty
\* report can be refused, after a lost session, without the table being its own.
THEOREM DvoTableIsCurrent == Spec => []TableIsCurrent
<1>1. Init => OneReport /\ TableIsCurrent
    BY DEF Init, OneReport, Of, TableIsCurrent, CachedLast, Handled
<1>2. DvoTypeOK /\ DvoInv /\ OneReport /\ TableIsCurrent /\ [Next]_vars
          => OneReport' /\ TableIsCurrent'
    BY DvoInvStep, OneReportStep, CurrentStep
<1> QED
    BY <1>1, <1>2, DvoInvAlways, PTL DEF Spec

\* So it holds the last report of each cluster when the partition is read to its end.
THEOREM DvoAlwaysConverges == Spec => []DvoConverges
<1>1. DvoTypeOK /\ TableIsCurrent => DvoConverges
  <2> SUFFICES ASSUME DvoTypeOK, TableIsCurrent, position = Len(log), NEW i \in DOMAIN log,
                      i \notin failed, LastReport(i), Repeatable(i)
               PROVE  IsStored(i)
      BY DEF DvoConverges
  <2>1. Handled = Len(log) /\ DOMAIN log = 1..Len(log)
      BY DEF DvoTypeOK, Handled
  <2> QED
      BY <2>1 DEF TableIsCurrent
<1>2. Spec => [](DvoTypeOK /\ TableIsCurrent)
    BY DvoTypeCorrect, DvoTableIsCurrent, PTL
<1> QED
    BY <1>1, <1>2, PTL
=============================================================================

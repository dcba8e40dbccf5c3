----------------------------- MODULE ScenarioProofs ----------------------------
(***************************************************************************)
(* A selected Scenario runs a valid schedule, for every registry, every    *)
(* set of test declarations and every ScenarioDescription.  The argument:  *)
(* the resolver's order meets each requirement earlier in the order; the  *)
(* filter at the end of get_test_order keeps the relative order of the     *)
(* names it keeps (Rank is strictly increasing on the kept positions and  *)
(* onto 1 .. n); and a requirement met by a dropped, assumed name is met   *)
(* by the assumption itself, since an AssumptionDependency provides        *)
(* nothing but its own name.                                               *)
(***************************************************************************)
EXTENDS Scenario, FiniteSetTheorems, TLAPS

\* The kept positions of a finite sequence form a finite set of at most n.
LEMMA KeptFinite ==
  ASSUME NEW s, NEW n \in Nat, DOMAIN s = 1 .. n, NEW A
  PROVE  /\ IsFiniteSet(KeptAt(s, A))
         /\ Cardinality(KeptAt(s, A)) \in 0 .. n
<1>1. IsFiniteSet(1 .. n) /\ Cardinality(1 .. n) = n
  BY FS_Interval
<1>2. KeptAt(s, A) \subseteq 1 .. n
  BY DEF KeptAt
<1>3. IsFiniteSet(KeptAt(s, A)) /\ Cardinality(KeptAt(s, A)) <= n
  BY <1>1, <1>2, FS_Subset
<1>4. Cardinality(KeptAt(s, A)) \in Nat
  BY <1>3, FS_CardinalityType
<1>5. QED
  BY <1>3, <1>4

\* The rank of a kept position lies in 1 .. (number of kept positions).
LEMMA RankBounds ==
  ASSUME NEW s, NEW n \in Nat, DOMAIN s = 1 .. n, NEW A, NEW i \in KeptAt(s, A)
  PROVE  Rank(s, A, i) \in 1 .. Cardinality(KeptAt(s, A))
<1> DEFINE K == KeptAt(s, A)
           P == {p \in K : p <= i}
<1>1. IsFiniteSet(K) /\ Cardinality(K) \in Nat
  BY KeptFinite
<1>2. IsFiniteSet(P) /\ Cardinality(P) <= Cardinality(K)
  BY <1>1, FS_Subset
<1>3. Cardinality(P) \in Nat /\ P # {}
  <2>1. i \in P
    BY DEF KeptAt
  <2>2. QED
    BY <1>2, <2>1, FS_CardinalityType
<1>4. Cardinality(P) # 0
  BY <1>2, <1>3, FS_EmptySet
<1>5. QED
  BY <1>1, <1>2, <1>3, <1>4 DEF Rank

\* Rank is strictly increasing on the kept positions.
LEMMA RankMonotone ==
  ASSUME NEW s, NEW n \in Nat, DOMAIN s = 1 .. n, NEW A,
         NEW i \in KeptAt(s, A), NEW j \in KeptAt(s, A), i < j
  PROVE  Rank(s, A, i) < Rank(s, A, j)
<1> DEFINE K == KeptAt(s, A)
           Pi == {p \in K : p <= i}
           Pj == {p \in K : p <= j}
<1>1. IsFiniteSet(K)
  BY KeptFinite
<1>2. IsFiniteSet(Pj) /\ Pi \subseteq Pj
  <2>1. K \subseteq 1 .. n
    BY DEF KeptAt
  <2>2. QED
    BY <1>1, <2>1, FS_Subset
<1>3. Cardinality(Pi) <= Cardinality(Pj) /\ (Cardinality(Pj) = Cardinality(Pi) => Pj = Pi)
  BY <1>2, FS_Subset
<1>4. j \in Pj /\ j \notin Pi
  BY DEF KeptAt
<1>5. Cardinality(Pi) \in Nat /\ Cardinality(Pj) \in Nat
  BY <1>2, FS_Subset, FS_CardinalityType
<1>6. QED
  BY <1>3, <1>4, <1>5 DEF Rank

\* Every rank 1 .. (number of kept positions) is the rank of a kept position.
LEMMA RankOnto ==
  ASSUME NEW s, NEW n \in Nat, DOMAIN s = 1 .. n, NEW A,
         NEW k \in 1 .. Cardinality(KeptAt(s, A))
  PROVE  \E i \in KeptAt(s, A) : Rank(s, A, i) = k
<1> DEFINE K == KeptAt(s, A)
           C == Cardinality(K)
           f == [i \in K |-> Rank(s, A, i)]
<1>1. IsFiniteSet(K) /\ C \in Nat
  BY KeptFinite
<1>2. IsFiniteSet(1 .. C) /\ Cardinality(1 .. C) = C
  BY <1>1, FS_Interval
<1>3. f \in [K -> 1 .. C]
  BY RankBounds
<1>4. f \in Injection(K, 1 .. C)
  <2>1. \A a, b \in K : a # b => f[a] # f[b]
    <3> SUFFICES ASSUME NEW a \in K, NEW b \in K, a # b PROVE f[a] # f[b]
      OBVIOUS
    <3>1. a \in Nat /\ b \in Nat
      BY DEF KeptAt
    <3>2. a < b \/ b < a
      BY <3>1
    <3>3. f[a] = Rank(s, A, a) /\ f[b] = Rank(s, A, b)
      OBVIOUS
    <3>4. Rank(s, A, a) \in Nat /\ Rank(s, A, b) \in Nat
      BY RankBounds
    <3>5. CASE a < b
      BY <3>3, <3>4, <3>5, RankMonotone
    <3>6. CASE b < a
      BY <3>3, <3>4, <3>6, RankMonotone
    <3>7. QED
      BY <3>2, <3>5, <3>6
  <2>2. QED
    BY <1>3, <2>1 DEF Injection, IsInjective
<1>5. f \in Surjection(K, 1 .. C)
  BY <1>1, <1>2, <1>4, FS_Injection
<1>6. QED
  BY <1>5 DEF Surjection

\* The k-th name the filter keeps is the name at the kept position of rank k.
LEMMA FilteredAt ==
  ASSUME NEW s, NEW n \in Nat, DOMAIN s = 1 .. n, NEW A,
         NEW k \in 1 .. Cardinality(KeptAt(s, A))
  PROVE  \E i \in KeptAt(s, A) : Rank(s, A, i) = k /\ Filtered(s, A)[k] = s[i]
<1> DEFINE i == CHOOSE p \in KeptAt(s, A) : Rank(s, A, p) = k
<1>1. i \in KeptAt(s, A) /\ Rank(s, A, i) = k
  BY RankOnto
<1>2. Filtered(s, A)[k] = s[i]
  BY DEF Filtered
<1>3. QED
  BY <1>1, <1>2

\* Each kept name is in the filtered order, at the rank of its position.
LEMMA FilteredHas ==
  ASSUME NEW s, NEW n \in Nat, DOMAIN s = 1 .. n, NEW A, NEW i \in KeptAt(s, A)
  PROVE  /\ Rank(s, A, i) \in 1 .. Cardinality(KeptAt(s, A))
         /\ Filtered(s, A)[Rank(s, A, i)] = s[i]
<1>1. Rank(s, A, i) \in 1 .. Cardinality(KeptAt(s, A))
  BY RankBounds
<1>2. PICK p \in KeptAt(s, A) :
        Rank(s, A, p) = Rank(s, A, i) /\ Filtered(s, A)[Rank(s, A, i)] = s[p]
  BY <1>1, FilteredAt
<1>3. p = i
  <2>1. p \in Nat /\ i \in Nat
    BY DEF KeptAt
  <2>2. Rank(s, A, p) \in Nat /\ Rank(s, A, i) \in Nat
    BY RankBounds
  <2>3. p < i => Rank(s, A, p) < Rank(s, A, i)
    BY RankMonotone
  <2>4. i < p => Rank(s, A, i) < Rank(s, A, p)
    BY RankMonotone
  <2>5. QED
    BY <1>2, <2>1, <2>2, <2>3, <2>4
<1>4. QED
  BY <1>1, <1>2, <1>3

\* The filtered order is a sequence over the names of s.
LEMMA FilteredSeq ==
  ASSUME NEW s, NEW n \in Nat, DOMAIN s = 1 .. n, NEW A,
         NEW T, \A i \in 1 .. n : s[i] \in T
  PROVE  Filtered(s, A) \in Seq(T)
<1>1. Cardinality(KeptAt(s, A)) \in Nat
  BY KeptFinite
<1>2. \A k \in 1 .. Cardinality(KeptAt(s, A)) : Filtered(s, A)[k] \in T
  <2> SUFFICES ASSUME NEW k \in 1 .. Cardinality(KeptAt(s, A))
               PROVE  Filtered(s, A)[k] \in T
    OBVIOUS
  <2>1. PICK i \in KeptAt(s, A) : Filtered(s, A)[k] = s[i]
    BY FilteredAt
  <2>2. QED
    BY <2>1 DEF KeptAt
<1>3. Filtered(s, A) \in [1 .. Cardinality(KeptAt(s, A)) -> T]
  BY <1>2 DEF Filtered
<1>4. QED
  BY <1>1, <1>3

\* What get_test_order knows of an order the resolver returns for the graph
\* it built: a duplicate-free sequence of registry tests that contains the
\* Tests list and meets each requirement (in the graph) earlier in the order.
LEMMA ResolvedShape ==
  ASSUME registry \subseteq Names, NEW s \in R!Resolve(Graph, desc.tests)
  PROVE  \E n \in Nat :
           /\ DOMAIN s = 1 .. n
           /\ \A i \in 1 .. n : s[i] \in registry
           /\ \A i, j \in 1 .. n : i # j => s[i] # s[j]
           /\ desc.tests \subseteq ToSet(s)
           /\ \A i \in 1 .. n : R!ReqsBefore(Graph, s, i)
<1>1. s \in R!HardOrders(Graph, desc.tests)
  BY DEF R!Resolve
<1>2. DOMAIN Graph = registry
  BY DEF Graph
<1>3. PICK S \in SUBSET registry : s \in R!SetToSeqs(S)
  BY <1>1, <1>2 DEF R!HardOrders, R!Orders
<1>4. IsFiniteSet(S) /\ Cardinality(S) \in Nat
  <2>1. IsFiniteSet(Names) /\ S \subseteq Names
    BY <1>3, ChoicesAssumption
  <2>2. IsFiniteSet(S)
    BY <2>1, FS_Subset
  <2>3. QED
    BY <2>2, FS_CardinalityType
<1>9. R!Cardinality(S) = Cardinality(S)
  BY DEF R!Cardinality, Cardinality
<1>5. /\ s \in [1 .. Cardinality(S) -> S]
      /\ \A i, j \in 1 .. Cardinality(S) : i # j => s[i] # s[j]
  BY <1>3, <1>9 DEF R!SetToSeqs
<1>6. /\ desc.tests \subseteq R!ToSet(s)
      /\ \A i \in DOMAIN s : R!ReqsBefore(Graph, s, i)
  BY <1>1 DEF R!HardOrders
<1>8. ToSet(s) = R!ToSet(s)
  BY DEF ToSet, R!ToSet
<1>7. QED
  BY <1>3, <1>4, <1>5, <1>6, <1>8

\* get_test_order's filtered order is a schedule of registry tests: the
\* filter keeps order and duplicates out, and a requirement met in the graph
\* by a dropped, assumed name is met by that assumption (an
\* AssumptionDependency provides only its own name).
LEMMA ResolvedIsSchedule ==
  ASSUME registry \subseteq Names, NEW s \in R!Resolve(Graph, desc.tests)
  PROVE  /\ IsSchedule(TestOrder(s))
         /\ TestOrder(s) \in Seq(Names)
<1> DEFINE A == desc.assumptions
           K == KeptAt(s, A)
           t == TestOrder(s)
<1>1. PICK n \in Nat :
        /\ DOMAIN s = 1 .. n
        /\ \A i \in 1 .. n : s[i] \in registry
        /\ \A i, j \in 1 .. n : i # j => s[i] # s[j]
        /\ desc.tests \subseteq ToSet(s)
        /\ \A i \in 1 .. n : R!ReqsBefore(Graph, s, i)
  BY ResolvedShape
<1>2. t = Filtered(s, A) /\ DOMAIN t = 1 .. Cardinality(K)
  BY DEF TestOrder, Filtered
<1>3. Cardinality(K) \in Nat
  <2>1. DOMAIN s = 1 .. n
    BY <1>1
  <2>2. QED
    BY <2>1, KeptFinite
<1>4. \A k \in DOMAIN t : \E i \in K : Rank(s, A, i) = k /\ t[k] = s[i]
  BY <1>1, <1>2, FilteredAt
<1>5. t \in Seq(Names)
  BY <1>1, <1>2, FilteredSeq
<1>6. IsInjective(t)
  <2> SUFFICES ASSUME NEW a \in DOMAIN t, NEW b \in DOMAIN t, t[a] = t[b]
               PROVE  a = b
    BY DEF IsInjective
  <2>1. PICK i \in K : Rank(s, A, i) = a /\ t[a] = s[i]
    BY <1>4
  <2>2. PICK j \in K : Rank(s, A, j) = b /\ t[b] = s[j]
    BY <1>4
  <2>3. i = j
    BY <1>1, <2>1, <2>2 DEF KeptAt
  <2>4. QED
    BY <2>1, <2>2, <2>3
<1>7. ToSet(t) \subseteq registry \ A
  <2> SUFFICES ASSUME NEW k \in DOMAIN t PROVE t[k] \in registry \ A
    BY DEF ToSet
  <2>1. PICK i \in K : t[k] = s[i]
    BY <1>4
  <2>2. QED
    BY <1>1, <2>1 DEF KeptAt
<1>8. desc.tests \ A \subseteq ToSet(t)
  <2> SUFFICES ASSUME NEW x \in desc.tests \ A PROVE x \in ToSet(t)
    OBVIOUS
  <2>1. PICK i \in 1 .. n : s[i] = x
    BY <1>1 DEF ToSet
  <2>2. i \in K
    BY <1>1, <2>1 DEF KeptAt
  <2>3. Rank(s, A, i) \in DOMAIN t /\ t[Rank(s, A, i)] = x
    BY <1>1, <1>2, <2>1, <2>2, FilteredHas
  <2>4. QED
    BY <2>3 DEF ToSet
<1>9. \A k \in DOMAIN t : \A r \in testDefs[t[k]].req :
        \/ \E j \in 1 .. k - 1 : R!Satisfies(testDefs, t[j], r)
        \/ MetByAssumption(r)
  <2> SUFFICES ASSUME NEW k \in DOMAIN t, NEW r \in testDefs[t[k]].req
               PROVE  \/ \E j \in 1 .. k - 1 : R!Satisfies(testDefs, t[j], r)
                      \/ MetByAssumption(r)
    OBVIOUS
  <2>1. PICK i \in K : Rank(s, A, i) = k /\ t[k] = s[i]
    BY <1>4
  <2>2. i \in 1 .. n /\ s[i] \in registry /\ s[i] \notin A
    BY <1>1, <2>1 DEF KeptAt
  <2>3. Graph[s[i]] = testDefs[s[i]]
    BY <2>2 DEF Graph
  <2>4. PICK j \in 1 .. i - 1 : R!Satisfies(Graph, s[j], r)
    BY <1>1, <2>1, <2>2, <2>3 DEF R!ReqsBefore
  <2>5. j \in 1 .. n /\ s[j] \in registry
    BY <1>1, <2>2
  <2>6. CASE s[j] \in A
    <3>1. Graph[s[j]] = AssumptionDependency
      BY <2>5, <2>6 DEF Graph
    <3>2. r = s[j]
      BY <2>4, <3>1 DEF R!Satisfies, AssumptionDependency
    <3>3. R!Satisfies(testDefs, s[j], r)
      BY <3>2 DEF R!Satisfies
    <3>4. QED
      BY <2>5, <2>6, <3>3 DEF MetByAssumption
  <2>7. CASE s[j] \notin A
    <3>1. j \in K
      BY <2>5, <2>7, <1>1 DEF KeptAt
    <3>2. Rank(s, A, j) \in 1 .. Cardinality(K)
          /\ t[Rank(s, A, j)] = s[j]
      BY <1>1, <1>2, <3>1, FilteredHas
    <3>3. Rank(s, A, j) < k
      <4>1. DOMAIN s = 1 .. n /\ j < i
        BY <1>1, <2>2, <2>4
      <4>2. QED
        BY <4>1, <2>1, <3>1, RankMonotone
    <3>4. Graph[s[j]] = testDefs[s[j]]
      BY <2>5, <2>7 DEF Graph
    <3>5. R!Satisfies(testDefs, s[j], r)
      BY <2>4, <3>4 DEF R!Satisfies
    <3>6. k \in Nat
      BY <1>2, <1>3
    <3>7. QED
      BY <3>2, <3>3, <3>5, <3>6
  <2>8. QED
    BY <2>6, <2>7
<1>10. QED
  BY <1>5, <1>6, <1>7, <1>8, <1>9 DEF IsSchedule

(***************************************************************************)
(* The inductive invariant: ScheduleSound with the types it relies on.     *)
(* select() reads only the registry, the declarations and the description, *)
(* which no step changes, so the only fact the induction needs beyond the  *)
(* types is the schedule lemma above.                                      *)
(***************************************************************************)
SInv == TypeOK /\ ScheduleSound

\* Before the first select() there is no Scenario, and the types hold.
LEMMA SInvInit == Init => SInv
BY DEF Init, SInv, TypeOK, ScheduleSound

\* Each select() and deselect preserves the invariant.
LEMMA SInvNext == SInv /\ [Next]_vars => SInv'
<1> SUFFICES ASSUME SInv, [Next]_vars PROVE SInv'
  OBVIOUS
<1>1. registry \subseteq Names
  BY DEF SInv, TypeOK
<1>2. CASE SelectOk
  <2>1. PICK s \in R!Resolve(Graph, desc.tests) :
          testSequence' = TestOrder(s) /\ tests' = ToSet(TestOrder(s))
    BY <1>2 DEF SelectOk
  <2>2. IsSchedule(TestOrder(s)) /\ TestOrder(s) \in Seq(Names)
    BY <1>1, ResolvedIsSchedule
  <2>3. /\ registry' = registry /\ testDefs' = testDefs
        /\ loadedJigs' = loadedJigs /\ desc' = desc
        /\ result' = "Selected"
    BY <1>2 DEF SelectOk
  <2>4. ToSet(TestOrder(s)) \subseteq Names
    BY <2>2 DEF ToSet
  <2>5. TypeOK'
    BY <2>1, <2>2, <2>3, <2>4 DEF SInv, TypeOK
  <2>6. IsSchedule(testSequence)'
    BY <2>1, <2>2, <2>3 DEF IsSchedule, MetByAssumption
  <2>7. QED
    BY <2>1, <2>5, <2>6 DEF SInv, ScheduleSound
<1>3. CASE SelectIncompatibleJig \/ SelectUnresolvable \/ Deselect
  <2>1. /\ registry' = registry /\ testDefs' = testDefs
        /\ loadedJigs' = loadedJigs /\ desc' = desc
        /\ result' \in {"IncompatibleJig", "Unresolvable", "none"}
        /\ testSequence' = <<>> /\ tests' = {}
    BY <1>3 DEF SelectIncompatibleJig, SelectUnresolvable, Deselect
  <2>2. <<>> \in Seq(Names)
    OBVIOUS
  <2>3. QED
    BY <2>1, <2>2 DEF SInv, TypeOK, ScheduleSound
<1>4. CASE UNCHANGED vars
  BY <1>4 DEF vars, SInv, TypeOK, ScheduleSound, IsSchedule, MetByAssumption
<1>5. QED
  BY <1>2, <1>3, <1>4 DEF Next

(***************************************************************************)
(* Whatever the registry, the tests' declarations and the scenario's      *)
(* description, a Scenario that select() returns runs every test at most  *)
(* once, runs no assumed test, includes every non-assumed test of the     *)
(* Tests list, and runs each test after a test (or an assumed registry    *)
(* test) that meets each of its requirements; its tests map holds exactly *)
(* the names of its test_sequence.                                         *)
(***************************************************************************)
THEOREM ScheduleSoundHolds == Spec => []ScheduleSound
<1>1. Init => SInv
  BY SInvInit
<1>2. SInv /\ [Next]_vars => SInv'
  BY SInvNext
<1>3. SInv => ScheduleSound
  BY DEF SInv
<1>4. QED
  BY <1>1, <1>2, <1>3, PTL DEF Spec

\* The scenario state keeps its types on every step.
THEOREM ScenarioTypeCorrect == Spec => []TypeOK
<1>1. SInv => TypeOK
  BY DEF SInv
<1>2. QED
  BY <1>1, SInvInit, SInvNext, PTL DEF Spec
=============================================================================

--------------------------- MODULE RetentionProofs ---------------------------
(***************************************************************************)
(* Lemmas about GetFullChain and GetPrunedBackups, for every set of backups *)
(* with distinct names, every order of it and every list of policies.       *)
(***************************************************************************)
EXTENDS Retention, FiniteSetTheorems, WellFoundedInduction, TLAPS

UniqueNames(backups) ==
    \A b, c \in backups : b.snap = c.snap => b = c

(* GetFullChain's result is itself restorable: with distinct names, the     *)
(* base of a chain's member is in the chain.                                *)
LEMMA ChainClosed ==
    ASSUME NEW B, UniqueNames(B), NEW b \in B, Restorable(b, B)
    PROVE  b \in GetFullChain(b, B) /\ BaseClosed(GetFullChain(b, B))
<1>1. b \in GetFullChain(b, B)
    BY DEF GetFullChain
<1>2. ASSUME NEW c \in GetFullChain(b, B), ~IsFull(c)
      PROVE  \E e \in GetFullChain(b, B) : e.snap = c.base
    <2>1. PICK C \in SUBSET B : b \in C /\ BaseClosed(C)
        BY DEF Restorable
    <2>2. c \in C
        BY <1>2, <2>1 DEF GetFullChain
    <2>3. PICK e \in C : e.snap = c.base
        BY <1>2, <2>1, <2>2 DEF BaseClosed
    <2>4. ASSUME NEW D \in SUBSET B, b \in D, BaseClosed(D)
          PROVE  e \in D
        <3>1. c \in D
            BY <1>2, <2>4 DEF GetFullChain
        <3>2. PICK f \in D : f.snap = c.base
            BY <1>2, <2>4, <3>1 DEF BaseClosed
        <3> QED
            BY <2>3, <3>2 DEF UniqueNames
    <2>5. e \in GetFullChain(b, B)
        BY <2>4 DEF GetFullChain
    <2> QED
        BY <2>3, <2>5
<1> QED
    BY <1>1, <1>2 DEF BaseClosed

(* What GetPrunedBackups leaves can be restored from what it leaves,        *)
(* whatever the policies retain and in whatever order they look.            *)
LEMMA KeptClosed ==
    ASSUME NEW B, NEW order, NEW policies, UniqueNames(B),
           policies = <<>> => BaseClosed(B)
    PROVE  BaseClosed(B \ GetPrunedBackups(B, order, policies))
<1> DEFINE retained == ApplyRetentionPolicies(policies, Restorables(order, B))
           fronts == {b \in B : Restorable(b, B) /\ b.snap \in retained}
           chained == UNION {GetFullChain(b, B) : b \in fronts}
           names == {b.snap : b \in chained}
           kept == B \ GetPrunedBackups(B, order, policies)
<1>1. CASE policies = <<>>
    <2>1. GetPrunedBackups(B, order, policies) = {}
        BY <1>1 DEF GetPrunedBackups
    <2> QED
        BY <1>1, <2>1
<1>2. CASE policies # <<>>
    <2>1. kept = {b \in B : b.snap \in names}
        BY <1>2 DEF GetPrunedBackups
    <2>2. \A b \in fronts : GetFullChain(b, B) \subseteq B
        BY DEF GetFullChain
    <2>3. kept = chained
        BY <2>1, <2>2 DEF UniqueNames
    <2>4. \A b \in fronts : BaseClosed(GetFullChain(b, B))
        BY ChainClosed
    <2>5. BaseClosed(chained)
        BY <2>4 DEF BaseClosed
    <2> QED
        BY <2>3, <2>5
<1> QED
    BY <1>1, <1>2
-----------------------------------------------------------------------------
(* Induction.  A set of naturals has a least element, and a finite one a    *)
(* greatest; an induction argues about the least number it fails for.       *)

(* A nonempty set of naturals has a least element.                          *)
LEMMA LeastElement ==
    ASSUME NEW T, T \subseteq Nat, T # {}
    PROVE  \E m \in T : \A k \in T : m <= k
<1> DEFINE D == {0 .. n : n \in T}
<1>1. D \subseteq FiniteSubsetsOf(Nat)
    <2> SUFFICES ASSUME NEW n \in T PROVE 0 .. n \in FiniteSubsetsOf(Nat)
        OBVIOUS
    <2>1. IsFiniteSet(0 .. n)
        BY FS_Interval
    <2> QED
        BY <2>1 DEF FiniteSubsetsOf
<1>2. D # {}
    OBVIOUS
<1>3. \E x \in D : \A y \in D : ~ (<<y, x>> \in StrictSubsetOrdering(Nat))
    <2> HIDE DEF D
    <2> QED
        BY <1>1, <1>2, WFMin, FS_StrictSubsetOrderingWellFounded
<1>4. PICK m \in T : \A y \in D : ~ (<<y, 0 .. m>> \in StrictSubsetOrdering(Nat))
    BY <1>3
<1>5. ASSUME NEW k \in T, k < m PROVE FALSE
    <2>1. <<0 .. k, 0 .. m>> \in StrictSubsetOrdering(Nat)
        BY <1>5 DEF StrictSubsetOrdering
    <2> QED
        BY <2>1, <1>4
<1> QED
    BY <1>5

(* What holds of 0 and passes from each number to the next holds up to n.   *)
LEMMA UpTo ==
    ASSUME NEW n \in Nat, NEW G, 0 \in G, \A k \in 1 .. n : k - 1 \in G => k \in G
    PROVE  \A k \in 0 .. n : k \in G
<1> DEFINE T == {k \in 0 .. n : k \notin G}
<1>1. SUFFICES ASSUME T # {} PROVE FALSE
    OBVIOUS
<1>2. PICK k \in T : \A i \in T : k <= i
    <2>1. T \subseteq Nat
        OBVIOUS
    <2> HIDE DEF T
    <2> QED
        BY <1>1, <2>1, LeastElement
<1>3. k \in 1 .. n /\ k - 1 \in 0 .. n /\ ~(k <= k - 1)
    BY <1>2
<1> QED
    BY <1>2, <1>3

(* A finite nonempty set of naturals has a greatest element.                *)
LEMMA GreatestElement ==
    ASSUME NEW T, T \subseteq Nat, T # {}, IsFiniteSet(T)
    PROVE  \E m \in T : \A k \in T : k <= m
<1> DEFINE Above(x) == {y \in T : y > x}
           D == {Above(x) : x \in T}
<1>1. D \subseteq FiniteSubsetsOf(Nat)
    <2> SUFFICES ASSUME NEW x \in T PROVE Above(x) \in FiniteSubsetsOf(Nat)
        OBVIOUS
    <2>1. IsFiniteSet(Above(x))
        BY FS_Subset
    <2> QED
        BY <2>1 DEF FiniteSubsetsOf
<1>2. D # {}
    OBVIOUS
<1>3. \E x \in D : \A y \in D : ~ (<<y, x>> \in StrictSubsetOrdering(Nat))
    <2> HIDE DEF D
    <2> QED
        BY <1>1, <1>2, WFMin, FS_StrictSubsetOrderingWellFounded
<1>4. PICK m \in T : \A y \in D : ~ (<<y, Above(m)>> \in StrictSubsetOrdering(Nat))
    BY <1>3
<1>5. ASSUME NEW k \in T, k > m PROVE FALSE
    <2>1. k \in Above(m) /\ k \notin Above(k)
        BY <1>5
    <2>2. ASSUME NEW y \in Above(k) PROVE y \in Above(m)
        <3>1. y \in Nat /\ k \in Nat /\ m \in Nat /\ y > k
            BY <2>2
        <3> QED
            BY <1>5, <2>2, <3>1
    <2>3. Above(k) \subseteq Above(m)
        BY <2>2
    <2>4. <<Above(k), Above(m)>> \in StrictSubsetOrdering(Nat)
        BY <2>1, <2>3 DEF StrictSubsetOrdering
    <2> QED
        BY <2>4, <1>4
<1> QED
    BY <1>5

(* A loop over n elements, each step of which computes from what it had,    *)
(* has a run: the function a recursive definition of it chooses exists.     *)
IsRun(f, n, start, Step) ==
    /\ f[0] = start
    /\ \A k \in 1 .. n : f[k] = Step[k][f[k - 1]]

LEMMA LoopRuns ==
    ASSUME NEW n \in Nat, NEW A, NEW start \in A, NEW Step \in [1 .. n -> [A -> A]]
    PROVE  \E f \in [0 .. n -> A] : IsRun(f, n, start, Step)
<1> DEFINE Runs(m) == \E f \in [0 .. m -> A] : IsRun(f, m, start, Step)
           T == {m \in 0 .. n : ~Runs(m)}
<1>1. SUFFICES ASSUME T # {} PROVE FALSE
    <2>1. n \in 0 .. n
        OBVIOUS
    <2> HIDE DEF Runs
    <2>2. Runs(n)
        BY <1>1, <2>1
    <2> QED
        BY <2>2 DEF Runs
<1>2. PICK m \in T : \A k \in T : m <= k
    <2>1. T \subseteq Nat
        OBVIOUS
    <2> HIDE DEF T
    <2> QED
        BY <1>1, <2>1, LeastElement
<1>3. Runs(0)
    <2> DEFINE f == [k \in 0 .. 0 |-> start]
    <2>1. f \in [0 .. 0 -> A] /\ f[0] = start /\ 1 .. 0 = {}
        OBVIOUS
    <2>2. IsRun(f, 0, start, Step)
        BY <2>1 DEF IsRun
    <2> QED
        BY <2>1, <2>2
<1>4. m \in 1 .. n /\ Runs(m - 1)
    <2> HIDE DEF Runs
    <2>1. m \in 0 .. n /\ ~Runs(m)
        BY <1>2
    <2>2. m \in 1 .. n
        BY <1>3, <2>1
    <2>3. m - 1 \in 0 .. n /\ ~(m <= m - 1)
        BY <2>2
    <2> QED
        BY <1>2, <2>2, <2>3
<1>5. PICK f \in [0 .. m - 1 -> A] : IsRun(f, m - 1, start, Step)
    BY <1>4
<1> DEFINE g == [k \in 0 .. m |-> IF k = m THEN Step[m][f[m - 1]] ELSE f[k]]
<1>6. g \in [0 .. m -> A]
    <2>1. f[m - 1] \in A
        BY <1>4
    <2>2. Step[m][f[m - 1]] \in A
        BY <1>4, <2>1
    <2> QED
        BY <1>4, <2>2
<1>7. ASSUME NEW k \in 1 .. m PROVE g[k] = Step[k][g[k - 1]]
    <2>1. k \in 0 .. m /\ k - 1 \in 0 .. m /\ k - 1 # m
        BY <1>4
    <2>2. g[k - 1] = f[k - 1]
        BY <2>1
    <2>3. CASE k = m
        BY <2>1, <2>2, <2>3
    <2>4. CASE k # m
        <3>1. k \in 1 .. m - 1
            BY <1>4, <2>4
        <3> QED
            BY <1>5, <2>1, <2>2, <2>4, <3>1 DEF IsRun
    <2> QED
        BY <2>3, <2>4
<1>8. g[0] = start
    BY <1>4, <1>5 DEF IsRun
<1>9. IsRun(g, m, start, Step)
    BY <1>7, <1>8 DEF IsRun
<1>10. Runs(m)
    BY <1>6, <1>9
<1> QED
    BY <1>10, <1>2

(* The steps of the scan of one policy.                                     *)
LEMMA ScanSteps ==
    ASSUME NEW policy, NEW s \in Seq(Backup)
    PROVE  \E scan \in [0 .. Len(s) -> [names : SUBSET Nat, last : Nat, count : Nat]] :
               /\ scan[0] = NothingRetained
               /\ \A k \in 1 .. Len(s) : scan[k] = Visit(policy, scan[k - 1], s[k])
               /\ RetainedBy(policy, s) = scan[Len(s)].names
<1> DEFINE n == Len(s)
           A == [names : SUBSET Nat, last : Nat, count : Nat]
           Step == [k \in 1 .. n |-> [acc \in A |-> Visit(policy, acc, s[k])]]
           Eqn(f) == f = [k \in 0 .. n |-> IF k = 0 THEN NothingRetained
                                           ELSE Visit(policy, f[k - 1], s[k])]
           scan == CHOOSE f : Eqn(f)
<1>1. n \in Nat
    OBVIOUS
<1>2. NothingRetained \in A
    BY DEF NothingRetained
<1>3. Step \in [1 .. n -> [A -> A]]
    <2> SUFFICES ASSUME NEW acc \in A, NEW k \in 1 .. n PROVE Visit(policy, acc, s[k]) \in A
        OBVIOUS
    <2>1. s[k] \in Backup
        BY <1>1
    <2>2. s[k].snap \in Nat
        BY <2>1 DEF Backup, Snapshot
    <2> QED
        BY <2>2 DEF Visit
<1>4. PICK f \in [0 .. n -> A] : IsRun(f, n, NothingRetained, Step)
    <2> HIDE DEF n, A, Step
    <2> QED
        BY <1>1, <1>2, <1>3, LoopRuns
<1>5. ASSUME NEW k \in 1 .. n PROVE f[k] = Visit(policy, f[k - 1], s[k])
    <2>1. k - 1 \in 0 .. n
        BY <1>1
    <2> HIDE DEF A
    <2>2. f[k - 1] \in A
        BY <2>1
    <2>3. Step[k][f[k - 1]] = Visit(policy, f[k - 1], s[k])
        BY <2>2
    <2> QED
        BY <1>4, <2>3 DEF IsRun
<1>6. Eqn(f)
    BY <1>4, <1>5 DEF IsRun
<1>7. Eqn(scan)
    BY <1>6
<1>8. RetainedBy(policy, s) = scan[n].names
    BY DEF RetainedBy
<1> HIDE DEF scan
<1>9. scan[0] = NothingRetained /\ \A k \in 1 .. n : scan[k] = Visit(policy, scan[k - 1], s[k])
    BY <1>1, <1>7
<1>10. \A k \in 0 .. n : scan[k] \in A
    <2> DEFINE T == {k \in 0 .. n : scan[k] \notin A}
    <2>1. SUFFICES ASSUME T # {} PROVE FALSE
        OBVIOUS
    <2>2. PICK k \in T : \A i \in T : k <= i
        <3>1. T \subseteq Nat
            OBVIOUS
        <3> HIDE DEF T
        <3> QED
            BY <2>1, <3>1, LeastElement
    <2>3. k \in 1 .. n
        BY <1>2, <1>9
    <2>4. scan[k - 1] \in A
        <3>1. k - 1 \in 0 .. n /\ ~(k <= k - 1)
            BY <1>1, <2>3
        <3> HIDE DEF A
        <3> QED
            BY <2>2, <3>1
    <2> HIDE DEF A
    <2>5. Visit(policy, scan[k - 1], s[k]) = Step[k][scan[k - 1]]
        BY <2>3, <2>4
    <2> HIDE DEF Step
    <2>6. scan[k] \in A
        BY <1>3, <1>9, <2>3, <2>4, <2>5
    <2> QED
        BY <2>2, <2>6
<1>11. scan \in [0 .. n -> A]
    BY <1>7, <1>10
<1> QED
    BY <1>8, <1>9, <1>11

-----------------------------------------------------------------------------
(* The scan computes the greedy selection.                                  *)

Accumulator == [names : SUBSET Nat, last : Nat, count : Nat]

(* What the loop knows when it has seen the eligible subjects E.            *)
ScanOK(policy, E, acc) ==
    /\ acc.names \subseteq E
    /\ IsFiniteSet(acc.names)
    /\ acc.count = Cardinality(acc.names)
    /\ acc.names # {} => acc.last \in acc.names /\ \A u \in acc.names : acc.last <= u
    /\ Greedy(policy, E, acc.names)

(* One step of the loop, on a subject older than those it has seen.         *)
LEMMA VisitGreedy ==
    ASSUME NEW policy \in RetentionPolicy, NEW E \in SUBSET Nat, NEW acc \in Accumulator,
           ScanOK(policy, E, acc), NEW b \in Backup, \A u \in E : u > b.snap
    PROVE  ScanOK(policy,
                  IF policy.fullOnly => IsFull(b) THEN E \cup {b.snap} ELSE E,
                  Visit(policy, acc, b))
<1> DEFINE t == b.snap
           R == acc.names
           newer == {u \in R : u > t}
           fits == /\ Cardinality(R) < policy.count
                   /\ \A u \in R : 10 * (u - t) >= 9 * policy.interval
<1>t. t \in Nat /\ acc.last \in Nat /\ policy.interval \in Nat /\ \A u \in E : u \in Nat
    BY DEF Backup, Snapshot, Accumulator, RetentionPolicy
<1>1. CASE ~(policy.fullOnly => IsFull(b))
    <2>1. Visit(policy, acc, b) = acc
        BY <1>1 DEF Visit, MayRetain
    <2> QED
        BY <1>1, <2>1
<1>2. CASE policy.fullOnly => IsFull(b)
    <2>0. R \subseteq E
        BY DEF ScanOK
    <2>o. \A u \in E : u > t /\ u # t /\ t <= u
        BY <1>t
    <2>1. R \subseteq E /\ newer = R /\ t \notin E
        BY <2>0, <2>o
    <2>2. MayRetain(policy, acc, b) <=> fits
        <3>1. acc.count = 0 <=> R = {}
            BY FS_EmptySet DEF ScanOK
        <3>2. CASE R = {}
            BY <1>2, <3>1, <3>2 DEF MayRetain, ScanOK
        <3>3. CASE R # {}
            <4>1. acc.last \in R /\ \A u \in R : u \in Nat /\ acc.last <= u
                BY <1>t, <2>1, <3>3 DEF ScanOK
            <4>2. (10 * (acc.last - t) >= 9 * policy.interval)
                      <=> \A u \in R : 10 * (u - t) >= 9 * policy.interval
                BY <1>t, <4>1
            <4> QED
                BY <1>2, <3>1, <3>3, <4>2 DEF MayRetain, ScanOK
        <3> QED
            BY <3>2, <3>3
    <2>3. ASSUME NEW S, S \in {R, R \cup {t}}, t \in S <=> fits
          PROVE  Greedy(policy, E \cup {t}, S)
        <3> SUFFICES ASSUME NEW x \in E \cup {t}
                     PROVE  LET nw == {u \in S : u > x}
                            IN  x \in S <=> /\ Cardinality(nw) < policy.count
                                            /\ \A u \in nw : 10 * (u - x) >= 9 * policy.interval
            BY DEF Greedy
        <3>1. CASE x = t
            <4>1. {u \in S : u > t} = R
                BY <1>t, <2>1, <2>3
            <4> QED
                BY <2>3, <3>1, <4>1
        <3>2. CASE x # t
            <4>1. x \in E /\ x > t /\ ~(t > x)
                BY <1>t, <3>2
            <4>2. {u \in S : u > x} = {u \in R : u > x}
                BY <2>3, <4>1
            <4>3. x \in S <=> x \in R
                BY <2>3, <3>2
            <4> QED
                BY <4>1, <4>2, <4>3 DEF ScanOK, Greedy
        <3> QED
            BY <3>1, <3>2
    <2>4. CASE fits
        <3>1. Visit(policy, acc, b) = [names |-> R \cup {t}, last |-> t, count |-> acc.count + 1]
            BY <2>2, <2>4 DEF Visit
        <3>2. Greedy(policy, E \cup {t}, R \cup {t})
            BY <2>3, <2>4
        <3>3. IsFiniteSet(R \cup {t}) /\ Cardinality(R \cup {t}) = acc.count + 1
            <4>1. IsFiniteSet(R) /\ Cardinality(R) = acc.count /\ t \notin R
                BY <2>1 DEF ScanOK
            <4> HIDE DEF R, t
            <4> QED
                BY <4>1, FS_AddElement
        <3>4. R \cup {t} \subseteq E \cup {t} /\ \A u \in R \cup {t} : t <= u
            <4>1. \A u \in R : t <= u
                BY <2>0, <2>o
            <4>2. t <= t
                BY <1>t
            <4> QED
                BY <2>0, <4>1, <4>2
        <3> QED
            BY <1>2, <3>1, <3>2, <3>3, <3>4 DEF ScanOK
    <2>5. CASE ~fits
        <3>1. Visit(policy, acc, b) = acc
            BY <2>2, <2>5 DEF Visit
        <3>2. Greedy(policy, E \cup {t}, R)
            BY <2>1, <2>3, <2>5
        <3> QED
            BY <1>2, <3>1, <3>2 DEF ScanOK
    <2> QED
        BY <2>4, <2>5
<1> QED
    BY <1>1, <1>2

Elements(s) == {s[i] : i \in 1 .. Len(s)}

Descending(s) == \A i, j \in 1 .. Len(s) : i < j => s[i].snap > s[j].snap

(* The single pass of ApplyRetentionPolicies over a descending list         *)
(* computes a greedy selection of its eligible members.                     *)
LEMMA ScanGreedy ==
    ASSUME NEW policy \in RetentionPolicy, NEW s \in Seq(Backup), Descending(s),
           NEW B, B = Elements(s)
    PROVE  /\ RetainedBy(policy, s) \subseteq Eligible(policy, B)
           /\ Greedy(policy, Eligible(policy, B), RetainedBy(policy, s))
<1> DEFINE n == Len(s)
           E(k) == Eligible(policy, {s[i] : i \in 1 .. k})
<1>1. PICK scan \in [0 .. n -> Accumulator] :
          /\ scan[0] = NothingRetained
          /\ \A k \in 1 .. n : scan[k] = Visit(policy, scan[k - 1], s[k])
          /\ RetainedBy(policy, s) = scan[n].names
    BY ScanSteps DEF Accumulator
<1> DEFINE Good(k) == ScanOK(policy, E(k), scan[k])
           T == {k \in 0 .. n : ~Good(k)}
<1>2. n \in Nat /\ \A k \in 1 .. n : s[k] \in Backup /\ s[k].snap \in Nat
    <2>1. n \in Nat /\ \A k \in 1 .. n : s[k] \in Backup
        OBVIOUS
    <2> QED
        BY <2>1 DEF Backup, Snapshot
<1>3. Good(0)
    <2>1. E(0) = {} /\ scan[0].names = {} /\ scan[0].count = 0
        BY <1>1 DEF NothingRetained, Eligible
    <2> HIDE DEF E
    <2> QED
        BY <2>1, FS_EmptySet DEF ScanOK, Greedy
<1>4. ASSUME NEW k \in 1 .. n, Good(k - 1) PROVE Good(k)
    <2>1. \A u \in E(k - 1) : u \in Nat /\ u > s[k].snap
        <3> SUFFICES ASSUME NEW i \in 1 .. (k - 1) PROVE s[i].snap \in Nat /\ s[i].snap > s[k].snap
            BY DEF Eligible
        <3>1. i \in 1 .. n /\ k \in 1 .. n /\ i < k
            BY <1>2
        <3>2. s[i].snap > s[k].snap
            BY <3>1 DEF Descending
        <3> QED
            BY <1>2, <3>1, <3>2
    <2>2. E(k) = IF policy.fullOnly => IsFull(s[k]) THEN E(k - 1) \cup {s[k].snap} ELSE E(k - 1)
        <3>1. 1 .. k = (1 .. (k - 1)) \cup {k}
            OBVIOUS
        <3>2. {s[i] : i \in 1 .. k} = {s[i] : i \in 1 .. (k - 1)} \cup {s[k]}
            BY <3>1
        <3> QED
            BY <3>2 DEF Eligible
    <2>3. scan[k - 1] \in Accumulator /\ s[k] \in Backup /\ E(k - 1) \in SUBSET Nat
        BY <1>2, <2>1
    <2>4. scan[k] = Visit(policy, scan[k - 1], s[k])
        BY <1>1
    <2> HIDE DEF E
    <2> QED
        BY <1>4, <2>1, <2>2, <2>3, <2>4, VisitGreedy
<1>5. Good(n)
    <2>1. SUFFICES ASSUME T # {} PROVE FALSE
        <3> HIDE DEF Good
        <3> QED
            BY <1>2, <2>1
    <2>2. PICK k \in T : \A i \in T : k <= i
        <3>1. T \subseteq Nat
            OBVIOUS
        <3> HIDE DEF T
        <3> QED
            BY <2>1, <3>1, LeastElement
    <2> HIDE DEF Good
    <2>3. k \in 1 .. n /\ ~Good(k)
        BY <1>3, <2>2
    <2>4. k - 1 \in 0 .. n /\ ~(k <= k - 1)
        BY <2>3
    <2> QED
        BY <1>4, <2>2, <2>3, <2>4
<1> QED
    BY <1>1, <1>5 DEF ScanOK, Elements

(* There is only one greedy selection.                                      *)
LEMMA GreedyUnique ==
    ASSUME NEW policy, NEW E \in SUBSET Nat, IsFiniteSet(E),
           NEW R \in SUBSET E, NEW S \in SUBSET E, Greedy(policy, E, R), Greedy(policy, E, S)
    PROVE  R = S
<1> DEFINE T == {t \in E : ~(t \in R <=> t \in S)}
<1>1. SUFFICES ASSUME T # {} PROVE FALSE
    OBVIOUS
<1>2. PICK t \in T : \A u \in T : u <= t
    <2>1. T \subseteq Nat /\ IsFiniteSet(T)
        BY FS_Subset
    <2> HIDE DEF T
    <2> QED
        BY <1>1, <2>1, GreatestElement
<1>3. \A u \in E : u > t => (u \in R <=> u \in S)
    <2> SUFFICES ASSUME NEW u \in E, u > t, ~(u \in R <=> u \in S) PROVE FALSE
        OBVIOUS
    <2>1. u \in Nat /\ t \in Nat /\ u <= t
        BY <1>2
    <2> QED
        BY <2>1
<1>4. {u \in R : u > t} = {u \in S : u > t}
    BY <1>3
<1> QED
    BY <1>4 DEF Greedy

-----------------------------------------------------------------------------
(* Listings.                                                                *)

(* Backups with distinct names, all older than some instant, are finitely   *)
(* many.                                                                    *)
LEMMA FinitelyMany ==
    ASSUME NEW B \in SUBSET Backup, UniqueNames(B), NEW n \in Nat, \A b \in B : b.snap <= n
    PROVE  IsFiniteSet(B)
<1> DEFINE f == [b \in B |-> b.snap]
<1>1. \A b \in B : b.snap \in 0 .. n
    BY DEF Backup, Snapshot
<1>2. f \in Injection(B, 0 .. n)
    BY <1>1 DEF Injection, IsInjective, UniqueNames
<1>3. IsFiniteSet(0 .. n)
    BY FS_Interval
<1> QED
    BY <1>2, <1>3, FS_Injection

(* SortedListBackups lists all of them, the most recent first.              *)
LEMMA SortedDescending ==
    ASSUME NEW B \in SUBSET Backup, IsFiniteSet(B), UniqueNames(B)
    PROVE  /\ SortedListBackups(B) \in Seq(Backup)
           /\ Descending(SortedListBackups(B))
           /\ B = Elements(SortedListBackups(B))
<1> DEFINE n == Cardinality(B)
           s == SortedListBackups(B)
           rank == [b \in B |-> Cardinality(Newer(b, B))]
<1>1. n \in Nat
    BY FS_CardinalityType
<1>2. ASSUME NEW b \in B
      PROVE  IsFiniteSet(Newer(b, B)) /\ rank[b] \in 0 .. n - 1
    <2>1. Newer(b, B) \in SUBSET B /\ b \notin Newer(b, B)
        BY DEF Newer, Backup, Snapshot
    <2>2. IsFiniteSet(Newer(b, B)) /\ Cardinality(Newer(b, B)) <= n /\ Cardinality(Newer(b, B)) # n
        BY <2>1, FS_Subset
    <2>3. Cardinality(Newer(b, B)) \in Nat
        BY <2>2, FS_CardinalityType
    <2> QED
        BY <1>1, <2>2, <2>3
(* A more recent backup has a lower rank.                                   *)
<1>3. ASSUME NEW a \in B, NEW b \in B, a.snap > b.snap
      PROVE  rank[a] < rank[b]
    <2>1. a.snap \in Nat /\ b.snap \in Nat /\ \A c \in B : c.snap \in Nat
        BY DEF Backup, Snapshot
    <2>2. Newer(a, B) \in SUBSET Newer(b, B) /\ a \in Newer(b, B) /\ a \notin Newer(a, B)
        BY <1>3, <2>1 DEF Newer
    <2>3. rank[a] <= rank[b] /\ rank[a] # rank[b]
        BY <1>2, <2>2, FS_Subset
    <2> QED
        BY <1>1, <1>2, <2>3
<1>4. \A a, b \in B : rank[a] = rank[b] => a = b
    <2> SUFFICES ASSUME NEW a \in B, NEW b \in B, a # b PROVE rank[a] # rank[b]
        OBVIOUS
    <2>1. a.snap \in Nat /\ b.snap \in Nat /\ a.snap # b.snap
        BY DEF Backup, Snapshot, UniqueNames
    <2>2. a.snap > b.snap \/ b.snap > a.snap
        BY <2>1
    <2>3. rank[a] \in Int /\ rank[b] \in Int
        BY <1>2
    <2> HIDE DEF rank
    <2> QED
        BY <1>3, <2>2, <2>3
<1>5. \A i \in 1 .. n : \E b \in B : rank[b] = i - 1
    <2>1. rank \in Injection(B, 0 .. n - 1)
        <3>1. rank \in [B -> 0 .. n - 1]
            BY <1>2
        <3> QED
            BY <1>4, <3>1 DEF Injection, IsInjective
    <2>2. IsFiniteSet(0 .. n - 1) /\ Cardinality(0 .. n - 1) = n
        <3>1. n \in Nat
            BY <1>1
        <3> HIDE DEF n, rank
        <3>2. 0 \in Int /\ n - 1 \in Int /\ (0 > n - 1 => n = 0) /\ (n - 1) - 0 + 1 = n
            BY <3>1
        <3> QED
            BY <3>2, FS_Interval
    <2>3. rank \in Surjection(B, 0 .. n - 1)
        BY <2>1, <2>2, FS_Injection
    <2>4. \A i \in 1 .. n : i - 1 \in 0 .. n - 1
        BY <1>1
    <2> QED
        BY <2>3, <2>4 DEF Surjection
<1>6. s = [i \in 1 .. n |-> CHOOSE b \in B : rank[b] = i - 1]
    BY DEF SortedListBackups
<1>7. \A i \in 1 .. n : s[i] \in B /\ rank[s[i]] = i - 1
    BY <1>5, <1>6
<1> HIDE DEF s, n, rank
<1>8. s \in Seq(Backup) /\ Len(s) = n
    <2>1. s \in [1 .. n -> Backup]
        BY <1>6, <1>7
    <2> QED
        BY <1>1, <2>1
<1>9. Descending(s)
    <2> SUFFICES ASSUME NEW i \in 1 .. n, NEW j \in 1 .. n, i < j, ~(s[i].snap > s[j].snap)
                 PROVE  FALSE
        BY <1>8 DEF Descending
    <2>1. rank[s[i]] < rank[s[j]] /\ rank[s[i]] # rank[s[j]]
        BY <1>1, <1>7
    <2>2. s[i].snap \in Nat /\ s[j].snap \in Nat /\ s[i].snap # s[j].snap
        BY <1>7, <2>1 DEF Backup, Snapshot, UniqueNames
    <2>3. rank[s[j]] < rank[s[i]]
        BY <1>3, <1>7, <2>2
    <2> QED
        BY <1>1, <1>7, <2>1, <2>3
<1>10. ASSUME NEW b \in B PROVE \E i \in 1 .. n : b = s[i]
    <2>1. rank[b] \in 0 .. n - 1
        BY <1>2
    <2>2. rank[b] + 1 \in 1 .. n
        BY <1>1, <2>1
    <2>3. rank[s[rank[b] + 1]] = rank[b]
        BY <1>1, <1>7, <2>1, <2>2
    <2> QED
        BY <1>4, <1>7, <2>2, <2>3
<1>11. B = Elements(s)
    BY <1>7, <1>8, <1>10 DEF Elements
<1> QED
    BY <1>8, <1>9, <1>11 DEF s

(* The steps of the loop that collects the subjects.                        *)
LEMMA AmongSteps ==
    ASSUME NEW s \in Seq(Backup), NEW B
    PROVE  \E among \in [0 .. Len(s) -> Seq(Backup)] :
               /\ among[0] = <<>>
               /\ \A k \in 1 .. Len(s) :
                      among[k] = IF Restorable(s[k], B) THEN Append(among[k - 1], s[k])
                                 ELSE among[k - 1]
               /\ Restorables(s, B) = among[Len(s)]
<1> DEFINE n == Len(s)
           A == Seq(Backup)
           Look(acc, k) == IF Restorable(s[k], B) THEN Append(acc, s[k]) ELSE acc
           Step == [k \in 1 .. n |-> [acc \in A |-> Look(acc, k)]]
           Eqn(f) == f = [k \in 0 .. n |-> IF k = 0 THEN <<>> ELSE Look(f[k - 1], k)]
           among == CHOOSE f : Eqn(f)
<1>1. n \in Nat /\ <<>> \in A
    OBVIOUS
<1>2. \A k \in 1 .. n, acc \in A : Look(acc, k) \in A
    BY <1>1
<1>3. Step \in [1 .. n -> [A -> A]]
    <2> HIDE DEF Look, A, n
    <2> QED
        BY <1>2
<1>4. PICK f \in [0 .. n -> A] : IsRun(f, n, <<>>, Step)
    <2> HIDE DEF n, A, Step
    <2> QED
        BY <1>1, <1>3, LoopRuns
<1>5. ASSUME NEW k \in 1 .. n PROVE f[k] = Look(f[k - 1], k)
    <2>1. k - 1 \in 0 .. n
        BY <1>1
    <2> HIDE DEF A, Look
    <2>2. f[k - 1] \in A
        BY <2>1
    <2>3. Step[k][f[k - 1]] = Look(f[k - 1], k)
        BY <2>2
    <2> QED
        BY <1>4, <2>3 DEF IsRun
<1>6. Eqn(f)
    <2> HIDE DEF A, Look
    <2> QED
        BY <1>1, <1>4, <1>5 DEF IsRun
<1>7. Eqn(among)
    BY <1>6
<1>8. Restorables(s, B) = among[n]
    BY DEF Restorables
<1> HIDE DEF among
<1>9. among[0] = <<>> /\ \A k \in 1 .. n : among[k] = Look(among[k - 1], k)
    <2> HIDE DEF A, Look
    <2> QED
        BY <1>1, <1>7
<1>10. \A k \in 0 .. n : among[k] \in A
    <2> DEFINE T == {k \in 0 .. n : among[k] \notin A}
    <2>1. SUFFICES ASSUME T # {} PROVE FALSE
        OBVIOUS
    <2>2. PICK k \in T : \A i \in T : k <= i
        <3>1. T \subseteq Nat
            OBVIOUS
        <3> HIDE DEF T
        <3> QED
            BY <2>1, <3>1, LeastElement
    <2> HIDE DEF A, Look
    <2>3. k \in 1 .. n
        BY <1>1, <1>9, <2>2
    <2>4. among[k - 1] \in A
        BY <2>2, <2>3
    <2>5. among[k] \in A
        BY <1>2, <1>9, <2>3, <2>4
    <2> QED
        BY <2>2, <2>5
<1>11. among \in [0 .. n -> A]
    BY <1>7, <1>10
<1> QED
    BY <1>8, <1>9, <1>11

(* Restorables keeps the order, and exactly the backups that have their     *)
(* chain.                                                                   *)
LEMMA RestorablesListed ==
    ASSUME NEW s \in Seq(Backup), NEW B, Descending(s)
    PROVE  /\ Restorables(s, B) \in Seq(Backup)
           /\ Descending(Restorables(s, B))
           /\ Elements(Restorables(s, B)) = {b \in Elements(s) : Restorable(b, B)}
<1> DEFINE n == Len(s)
           Seen(k) == {s[i] : i \in {j \in 1 .. k : Restorable(s[j], B)}}
<1>1. PICK among \in [0 .. n -> Seq(Backup)] :
          /\ among[0] = <<>>
          /\ \A k \in 1 .. n : among[k] = IF Restorable(s[k], B) THEN Append(among[k - 1], s[k])
                                          ELSE among[k - 1]
          /\ Restorables(s, B) = among[n]
    BY AmongSteps
<1> DEFINE Good(k) == Descending(among[k]) /\ Elements(among[k]) = Seen(k)
           T == {k \in 0 .. n : ~Good(k)}
<1>2. n \in Nat /\ \A k \in 1 .. n : s[k] \in Backup
    OBVIOUS
<1>3. Good(0)
    BY <1>1 DEF Descending, Elements
<1>4. ASSUME NEW k \in 1 .. n, Good(k - 1) PROVE Good(k)
    <2> DEFINE a == among[k - 1]
    <2>0. k - 1 \in 0 .. n
        BY <1>2
    <2>1. k - 1 \in 0 .. n /\ a \in Seq(Backup)
        BY <2>0
    <2>2. 1 .. k = (1 .. (k - 1)) \cup {k}
        OBVIOUS
    <2>3. CASE ~Restorable(s[k], B)
        <3>1. Seen(k) = Seen(k - 1)
            BY <2>2, <2>3
        <3>2. among[k] = a
            BY <1>1, <2>3
        <3> QED
            BY <1>4, <3>1, <3>2
    <2>4. CASE Restorable(s[k], B)
        <3>1. Seen(k) = Seen(k - 1) \cup {s[k]}
            BY <2>2, <2>4
        <3>2. among[k] = Append(a, s[k])
            BY <1>1, <2>4
        <3>3. /\ Len(among[k]) = Len(a) + 1 /\ Len(a) \in Nat
              /\ among[k][Len(a) + 1] = s[k]
              /\ \A i \in 1 .. Len(a) : among[k][i] = a[i]
            BY <1>2, <2>1, <3>2
        <3>4. \A i \in 1 .. Len(a) : a[i].snap > s[k].snap
            <4> SUFFICES ASSUME NEW i \in 1 .. Len(a) PROVE a[i].snap > s[k].snap
                OBVIOUS
            <4>1. a[i] \in Seen(k - 1)
                BY <1>4 DEF Elements
            <4>2. PICK j \in 1 .. (k - 1) : a[i] = s[j]
                BY <4>1
            <4>3. j \in 1 .. n /\ j < k
                BY <1>2, <4>2
            <4> QED
                BY <4>2, <4>3 DEF Descending
        <3> HIDE DEF a
        <3>5. Descending(among[k])
            <4> SUFFICES ASSUME NEW i \in 1 .. Len(a) + 1, NEW j \in 1 .. Len(a) + 1, i < j
                         PROVE  among[k][i].snap > among[k][j].snap
                BY <3>3 DEF Descending
            <4>1. i \in 1 .. Len(a)
                BY <3>3
            <4>2. CASE j = Len(a) + 1
                BY <3>3, <3>4, <4>1, <4>2
            <4>3. CASE j # Len(a) + 1
                <5>1. j \in 1 .. Len(a)
                    BY <3>3, <4>3
                <5> QED
                    BY <1>4, <3>3, <4>1, <5>1 DEF Descending, a
            <4> QED
                BY <4>2, <4>3
        <3>6. Elements(among[k]) = Elements(a) \cup {s[k]}
            <4>1. 1 .. (Len(a) + 1) = (1 .. Len(a)) \cup {Len(a) + 1}
                BY <3>3
            <4>2. \A i \in 1 .. Len(a) + 1 :
                      among[k][i] = IF i = Len(a) + 1 THEN s[k] ELSE a[i]
                BY <3>3, <4>1
            <4>3. Elements(among[k]) = {among[k][i] : i \in 1 .. (Len(a) + 1)}
                BY <3>3 DEF Elements
            <4>4. Elements(a) = {a[i] : i \in 1 .. Len(a)}
                BY DEF Elements
            <4>5. \A i \in 1 .. Len(a) : i # Len(a) + 1
                BY <3>3
            <4>6. ASSUME NEW x \in Elements(among[k]) PROVE x \in Elements(a) \cup {s[k]}
                BY <4>1, <4>2, <4>3, <4>4
            <4>7. ASSUME NEW i \in 1 .. Len(a) PROVE a[i] \in Elements(among[k])
                BY <4>1, <4>2, <4>3, <4>5
            <4>8. s[k] \in Elements(among[k])
                BY <4>1, <4>2, <4>3
            <4> QED
                BY <4>4, <4>6, <4>7, <4>8
        <3>7. Elements(a) = Seen(k - 1)
            BY <1>4 DEF a
        <3> QED
            BY <3>1, <3>5, <3>6, <3>7
    <2> QED
        BY <2>3, <2>4
<1>5. Good(n)
    <2>1. SUFFICES ASSUME T # {} PROVE FALSE
        <3> HIDE DEF Good
        <3> QED
            BY <1>2, <2>1
    <2>2. PICK k \in T : \A i \in T : k <= i
        <3>1. T \subseteq Nat
            OBVIOUS
        <3> HIDE DEF T
        <3> QED
            BY <2>1, <3>1, LeastElement
    <2> HIDE DEF Good
    <2>3. k \in 1 .. n /\ ~Good(k)
        BY <1>3, <2>2
    <2>4. k - 1 \in 0 .. n /\ ~(k <= k - 1)
        BY <2>3
    <2> QED
        BY <1>4, <2>2, <2>3, <2>4
<1>6. among[n] \in Seq(Backup)
    BY <1>2
<1>7. Seen(n) = {b \in Elements(s) : Restorable(b, B)}
    BY DEF Elements
<1> QED
    BY <1>1, <1>5, <1>6, <1>7

-----------------------------------------------------------------------------
(* Pruning is stable.                                                       *)

LEMMA NamesFinite ==
    ASSUME NEW B, IsFiniteSet(B)
    PROVE  IsFiniteSet({b.snap : b \in B})
<1> DEFINE f == [b \in B |-> b.snap]
<1>1. f \in Surjection(B, {b.snap : b \in B})
    BY DEF Surjection
<1> QED
    BY <1>1, FS_Surjection

LEMMA EligibleNames ==
    ASSUME NEW B \in SUBSET Backup, NEW policy
    PROVE  /\ Eligible(policy, B) \subseteq {b.snap : b \in B}
           /\ Eligible(policy, B) \in SUBSET Nat
           /\ IsFiniteSet(B) => IsFiniteSet(Eligible(policy, B))
<1>1. Eligible(policy, B) \subseteq {b.snap : b \in B}
    BY DEF Eligible
<1>2. \A b \in B : b.snap \in Nat
    BY DEF Backup, Snapshot
<1>3. IsFiniteSet(B) => IsFiniteSet({b.snap : b \in B})
    BY NamesFinite
<1>4. IsFiniteSet(B) => IsFiniteSet(Eligible(policy, B))
    BY <1>1, <1>3, FS_Subset
<1> QED
    BY <1>1, <1>2, <1>4

(* What one policy retains depends on what it retains only: removing other  *)
(* subjects from the list changes nothing.                                  *)
LEMMA ScanStable ==
    ASSUME NEW policy \in RetentionPolicy,
           NEW s \in Seq(Backup), Descending(s), NEW P, P = Elements(s),
           NEW t \in Seq(Backup), Descending(t), NEW Q, Q = Elements(t),
           IsFiniteSet(P), UniqueNames(P), Q \subseteq P,
           RetainedBy(policy, s) \subseteq {b.snap : b \in Q}
    PROVE  RetainedBy(policy, t) = RetainedBy(policy, s)
<1> DEFINE R == RetainedBy(policy, s)
           E == Eligible(policy, P)
           F == Eligible(policy, Q)
<1>1. P \in SUBSET Backup /\ Q \in SUBSET Backup
    <2>1. \A i \in 1 .. Len(s) : s[i] \in Backup
        OBVIOUS
    <2> QED
        BY <2>1 DEF Elements
<1>2. R \subseteq E /\ Greedy(policy, E, R)
    BY ScanGreedy
<1>3. RetainedBy(policy, t) \subseteq F /\ Greedy(policy, F, RetainedBy(policy, t))
    BY ScanGreedy
<1>4. F \subseteq E
    BY DEF Eligible
<1>5. R \subseteq F
    <2> SUFFICES ASSUME NEW r \in R PROVE r \in F
        OBVIOUS
    <2>1. PICK b \in P : r = b.snap /\ (policy.fullOnly => IsFull(b))
        BY <1>2 DEF Eligible
    <2>2. PICK c \in Q : r = c.snap
        OBVIOUS
    <2>3. b = c
        BY <2>1, <2>2 DEF UniqueNames
    <2> QED
        BY <2>1, <2>2, <2>3 DEF Eligible
<1>6. Greedy(policy, F, R)
    BY <1>2, <1>4 DEF Greedy
<1>7. F \in SUBSET Nat /\ IsFiniteSet(F)
    <2>1. IsFiniteSet(Q)
        BY FS_Subset
    <2> QED
        BY <1>1, <2>1, EligibleNames
<1> HIDE DEF R, F
<1> QED
    BY <1>3, <1>5, <1>6, <1>7, GreedyUnique DEF R, F

(* The same for a list of policies.                                         *)
LEMMA AppliedStable ==
    ASSUME NEW policies \in Seq(RetentionPolicy),
           NEW s \in Seq(Backup), Descending(s), NEW P, P = Elements(s),
           NEW t \in Seq(Backup), Descending(t), NEW Q, Q = Elements(t),
           IsFiniteSet(P), UniqueNames(P), Q \subseteq P,
           ApplyRetentionPolicies(policies, s) \subseteq {b.snap : b \in Q}
    PROVE  ApplyRetentionPolicies(policies, t) = ApplyRetentionPolicies(policies, s)
<1>1. ASSUME NEW i \in DOMAIN policies
      PROVE  RetainedBy(policies[i], t) = RetainedBy(policies[i], s)
    <2>1. policies[i] \in RetentionPolicy
        OBVIOUS
    <2>2. RetainedBy(policies[i], s) \subseteq {b.snap : b \in Q}
        BY DEF ApplyRetentionPolicies
    <2> QED
        BY <2>1, <2>2, ScanStable
<1> QED
    BY <1>1 DEF ApplyRetentionPolicies

Subjects(B) == {b \in B : Restorable(b, B)}

(* What GetPrunedBackups hands to the policies: the restorable backups of   *)
(* the listing, the most recent first.                                      *)
LEMMA SubjectsListed ==
    ASSUME NEW B \in SUBSET Backup, IsFiniteSet(B), UniqueNames(B)
    PROVE  LET r == Restorables(SortedListBackups(B), B)
           IN  /\ r \in Seq(Backup)
               /\ Descending(r)
               /\ Subjects(B) = Elements(r)
<1> DEFINE s == SortedListBackups(B)
           r == Restorables(s, B)
<1>1. s \in Seq(Backup) /\ Descending(s) /\ B = Elements(s)
    BY SortedDescending
<1> HIDE DEF s
<1>2. /\ r \in Seq(Backup) /\ Descending(r)
      /\ Elements(r) = {b \in Elements(s) : Restorable(b, B)}
    BY <1>1, RestorablesListed
<1>3. {b \in Elements(s) : Restorable(b, B)} = Subjects(B)
    BY <1>1 DEF Subjects
<1> QED
    BY <1>2, <1>3 DEF s

(* The chain of a backup is the same in every listing that has all of it.   *)
LEMMA ChainStable ==
    ASSUME NEW B, UniqueNames(B), NEW S \in SUBSET B, NEW b \in B, Restorable(b, B),
           GetFullChain(b, B) \subseteq S
    PROVE  Restorable(b, S) /\ GetFullChain(b, S) = GetFullChain(b, B)
<1>1. b \in GetFullChain(b, B) /\ BaseClosed(GetFullChain(b, B))
    BY ChainClosed
<1>2. Restorable(b, S)
    BY <1>1 DEF Restorable
<1>3. GetFullChain(b, S) \subseteq GetFullChain(b, B)
    BY <1>1 DEF GetFullChain
<1>4. GetFullChain(b, B) \subseteq GetFullChain(b, S)
    BY DEF GetFullChain
<1> QED
    BY <1>2, <1>3, <1>4

(* The kept set does not change while only pruned backups disappear: a      *)
(* second pass, or one that was interrupted and started again, prunes what  *)
(* is left of what the first one pruned, and nothing else.                  *)
LEMMA PruneStable ==
    ASSUME NEW policies \in Seq(RetentionPolicy),
           NEW B \in SUBSET Backup, IsFiniteSet(B), UniqueNames(B), NEW S \in SUBSET B,
           B \ S \subseteq GetPrunedBackups(B, SortedListBackups(B), policies)
    PROVE  GetPrunedBackups(S, SortedListBackups(S), policies)
               = S \cap GetPrunedBackups(B, SortedListBackups(B), policies)
<1> DEFINE s == Restorables(SortedListBackups(B), B)
           t == Restorables(SortedListBackups(S), S)
           retained == ApplyRetentionPolicies(policies, s)
           fronts == {b \in Subjects(B) : b.snap \in retained}
           chained == UNION {GetFullChain(b, B) : b \in fronts}
           pruned == GetPrunedBackups(B, SortedListBackups(B), policies)
<1>1. CASE policies = <<>>
    BY <1>1 DEF GetPrunedBackups
<1>2. CASE policies # <<>>
    <2>1. s \in Seq(Backup) /\ Descending(s) /\ Subjects(B) = Elements(s)
        BY SubjectsListed
    <2>2. IsFiniteSet(S) /\ UniqueNames(S) /\ S \in SUBSET Backup
        BY FS_Subset DEF UniqueNames
    <2>3. t \in Seq(Backup) /\ Descending(t) /\ Subjects(S) = Elements(t)
        BY <2>2, SubjectsListed
    <2>4. IsFiniteSet(Subjects(B)) /\ UniqueNames(Subjects(B))
        BY FS_Subset DEF Subjects, UniqueNames
    <2>5. Subjects(S) \subseteq Subjects(B)
        BY DEF Subjects, Restorable
    <2>6. pruned = {b \in B : b.snap \notin {c.snap : c \in chained}}
        BY <1>2 DEF GetPrunedBackups, Subjects
    <2>7. \A b \in fronts : GetFullChain(b, B) \subseteq S
        BY <2>6 DEF GetFullChain
    <2>8. ASSUME NEW b \in fronts
          PROVE  b \in Subjects(S) /\ GetFullChain(b, S) = GetFullChain(b, B)
        <3>1. b \in B /\ Restorable(b, B)
            BY DEF Subjects
        <3>2. b \in GetFullChain(b, B)
            BY <3>1, ChainClosed
        <3>3. Restorable(b, S) /\ GetFullChain(b, S) = GetFullChain(b, B)
            BY <2>7, <3>1, ChainStable
        <3> QED
            BY <2>7, <3>2, <3>3 DEF Subjects
    <2>9. retained \subseteq {b.snap : b \in fronts}
        <3> SUFFICES ASSUME NEW i \in DOMAIN policies, NEW r \in RetainedBy(policies[i], s)
                     PROVE  r \in {b.snap : b \in fronts}
            BY DEF ApplyRetentionPolicies
        <3>1. policies[i] \in RetentionPolicy
            OBVIOUS
        <3>2. r \in Eligible(policies[i], Subjects(B))
            <4> HIDE DEF s
            <4> QED
                BY <2>1, <3>1, ScanGreedy
        <3>3. PICK b \in Subjects(B) : r = b.snap
            BY <3>2 DEF Eligible
        <3> QED
            BY <3>3 DEF ApplyRetentionPolicies
    <2>10. retained \subseteq {b.snap : b \in Subjects(S)}
        BY <2>8, <2>9
    <2>11. ApplyRetentionPolicies(policies, t) = retained
        <3> HIDE DEF s, t
        <3> QED
            BY <2>1, <2>3, <2>4, <2>5, <2>10, AppliedStable
    <2>12. {b \in Subjects(S) : b.snap \in retained} = fronts
        BY <2>5, <2>8
    <2>13. UNION {GetFullChain(b, S) : b \in fronts} = chained
        BY <2>8
    <2>14. GetPrunedBackups(S, SortedListBackups(S), policies)
               = {b \in S : b.snap \notin {c.snap : c \in chained}}
        <3> DEFINE frontsS == {b \in S : Restorable(b, S) /\ b.snap \in ApplyRetentionPolicies(policies, t)}
        <3>1. frontsS = fronts
            BY <2>11, <2>12 DEF Subjects
        <3>2. GetPrunedBackups(S, SortedListBackups(S), policies)
                  = {b \in S : b.snap \notin
                                 {c.snap : c \in UNION {GetFullChain(b2, S) : b2 \in frontsS}}}
            BY <1>2 DEF GetPrunedBackups
        <3> QED
            BY <2>13, <3>1, <3>2
    <2> QED
        BY <2>6, <2>14
<1> QED
    BY <1>1, <1>2

(* Of the backups that have their chain and that a policy considers, the    *)
(* most recent one survives.                                                *)
LEMMA NewestKept ==
    ASSUME NEW policies \in Seq(RetentionPolicy), NEW i \in DOMAIN policies,
           policies[i].count > 0,
           NEW B \in SUBSET Backup, IsFiniteSet(B), UniqueNames(B),
           NEW b \in B, Restorable(b, B), policies[i].fullOnly => IsFull(b),
           \A c \in B : Restorable(c, B) /\ (policies[i].fullOnly => IsFull(c)) => c.snap <= b.snap
    PROVE  b \notin GetPrunedBackups(B, SortedListBackups(B), policies)
<1> DEFINE s == Restorables(SortedListBackups(B), B)
           R == RetainedBy(policies[i], s)
           E == Eligible(policies[i], Subjects(B))
<1>1. s \in Seq(Backup) /\ Descending(s) /\ Subjects(B) = Elements(s)
    BY SubjectsListed
<1>2. policies[i] \in RetentionPolicy
    OBVIOUS
<1>3. R \subseteq E /\ Greedy(policies[i], E, R)
    <2> HIDE DEF s
    <2> QED
        BY <1>1, <1>2, ScanGreedy
<1>4. b.snap \in E
    BY DEF Eligible, Subjects
<1>5. {u \in R : u > b.snap} = {}
    <2> SUFFICES ASSUME NEW c \in Subjects(B), c.snap > b.snap,
                        policies[i].fullOnly => IsFull(c)
                 PROVE  FALSE
        BY <1>3 DEF Eligible
    <2>1. c \in Backup /\ c.snap <= b.snap /\ b \in Backup
        BY DEF Subjects
    <2> QED
        BY <2>1 DEF Backup, Snapshot
<1>6. b.snap \in R
    <2> HIDE DEF R, E
    <2> QED
        BY <1>3, <1>4, <1>5, FS_EmptySet DEF Greedy
<1>7. b.snap \in ApplyRetentionPolicies(policies, s)
    BY <1>6 DEF ApplyRetentionPolicies
<1>8. b \in GetFullChain(b, B)
    BY ChainClosed
<1> HIDE DEF s
<1> QED
    BY <1>7, <1>8 DEF GetPrunedBackups, s

(* A subject listed first is the first the policies look at, and every      *)
(* policy that considers it retains it: no order of the others is assumed.  *)
LEMMA FirstAmong ==
    ASSUME NEW s \in Seq(Backup), Len(s) > 0, NEW B, Restorable(s[1], B)
    PROVE  /\ Restorables(s, B) \in Seq(Backup)
           /\ Len(Restorables(s, B)) > 0
           /\ Restorables(s, B)[1] = s[1]
<1>1. PICK among \in [0 .. Len(s) -> Seq(Backup)] :
          /\ among[0] = <<>>
          /\ \A k \in 1 .. Len(s) :
                 among[k] = IF Restorable(s[k], B) THEN Append(among[k - 1], s[k]) ELSE among[k - 1]
          /\ Restorables(s, B) = among[Len(s)]
    BY AmongSteps
<1> DEFINE n == Len(s)
           G == {k \in 0 .. n : k > 0 => Len(among[k]) > 0 /\ among[k][1] = s[1]}
<1>2. n \in Nat /\ n > 0 /\ \A k \in 1 .. n : s[k] \in Backup
    OBVIOUS
<1>3. ASSUME NEW k \in 1 .. n, k - 1 \in G PROVE k \in G
    <2>0. k - 1 \in 0 .. n /\ s[k] \in Backup
        BY <1>2
    <2>1. k - 1 \in 0 .. n /\ among[k - 1] \in Seq(Backup) /\ s[k] \in Backup
        BY <2>0
    <2>2. CASE k = 1
        <3>1. among[k] = IF Restorable(s[k], B) THEN Append(among[k - 1], s[k]) ELSE among[k - 1]
            BY <1>1
        <3>2. among[k] = Append(<<>>, s[k])
            BY <1>1, <2>2, <3>1
        <3> QED
            BY <2>1, <2>2, <3>2
    <2>3. CASE k # 1
        <3>1. Len(among[k - 1]) > 0 /\ among[k - 1][1] = s[1]
            BY <1>3, <2>1, <2>3
        <3>2. Len(Append(among[k - 1], s[k])) > 0 /\ Append(among[k - 1], s[k])[1] = s[1]
            BY <2>1, <3>1
        <3>3. among[k] = Append(among[k - 1], s[k]) \/ among[k] = among[k - 1]
            BY <1>1
        <3>4. Len(among[k]) > 0 /\ among[k][1] = s[1]
            BY <3>1, <3>2, <3>3, Zenon
        <3>5. k \in 0 .. n
            BY <1>2
        <3> QED
            BY <3>4, <3>5
    <2> QED
        BY <2>2, <2>3
<1>4. 0 \in G
    BY <1>2
<1>5. n \in G
    <2> HIDE DEF G, n
    <2>1. \A k \in 0 .. n : k \in G
        BY <1>2, <1>3, <1>4, UpTo
    <2> QED
        BY <1>2, <2>1
<1> QED
    BY <1>1, <1>2, <1>5

LEMMA FirstRetained ==
    ASSUME NEW s \in Seq(Backup), Len(s) > 0,
           NEW policy, policy.count > 0, policy.fullOnly => IsFull(s[1])
    PROVE  s[1].snap \in RetainedBy(policy, s)
<1>1. PICK scan \in [0 .. Len(s) -> [names : SUBSET Nat, last : Nat, count : Nat]] :
          /\ scan[0] = NothingRetained
          /\ \A k \in 1 .. Len(s) : scan[k] = Visit(policy, scan[k - 1], s[k])
          /\ RetainedBy(policy, s) = scan[Len(s)].names
    BY ScanSteps
<1> DEFINE n == Len(s)
           G == {k \in 0 .. n : k > 0 => s[1].snap \in scan[k].names}
<1>2. n \in Nat /\ n > 0
    OBVIOUS
<1>3. ASSUME NEW k \in 1 .. n, k - 1 \in G PROVE k \in G
    <2>1. CASE k = 1
        <3>1. scan[k] = Visit(policy, NothingRetained, s[1])
            BY <1>1, <1>2, <2>1
        <3>2. MayRetain(policy, NothingRetained, s[1])
            BY DEF MayRetain, NothingRetained
        <3> QED
            BY <3>1, <3>2 DEF Visit
    <2>2. CASE k # 1
        <3>1. s[1].snap \in scan[k - 1].names
            BY <1>3, <2>2
        <3>2. scan[k] = Visit(policy, scan[k - 1], s[k])
            BY <1>1
        <3> QED
            BY <3>1, <3>2 DEF Visit
    <2> QED
        BY <2>1, <2>2
<1>4. 0 \in G
    BY <1>2
<1>5. n \in G
    <2> HIDE DEF G, n
    <2>1. \A k \in 0 .. n : k \in G
        BY <1>2, <1>3, <1>4, UpTo
    <2> QED
        BY <1>2, <2>1
<1> QED
    BY <1>1, <1>2, <1>5

(* So the backup command keeps the backup it has just made.                 *)
LEMMA NewBackupKept ==
    ASSUME NEW B, NEW new \in B, new \in Backup, NEW order \in Seq(Backup),
           Restorable(new, B), NEW policies, NEW i \in DOMAIN policies,
           policies[i].count > 0, policies[i].fullOnly => IsFull(new)
    PROVE  new \notin GetPrunedBackups(B, NewBackupFirst(new, order), policies)
<1> DEFINE s == NewBackupFirst(new, order)
           r == Restorables(s, B)
<1>1. s \in Seq(Backup) /\ Len(s) > 0 /\ s[1] = new
    BY DEF NewBackupFirst
<1>2. r \in Seq(Backup) /\ Len(r) > 0 /\ r[1] = new
    <2> HIDE DEF s
    <2> QED
        BY <1>1, FirstAmong
<1>3. new.snap \in RetainedBy(policies[i], r)
    <2> HIDE DEF r
    <2> QED
        BY <1>2, FirstRetained
<1>4. new.snap \in ApplyRetentionPolicies(policies, r)
    BY <1>3 DEF ApplyRetentionPolicies
<1>5. new \in GetFullChain(new, B)
    BY DEF GetFullChain
<1> HIDE DEF r
<1> QED
    BY <1>4, <1>5 DEF GetPrunedBackups, r

-----------------------------------------------------------------------------
(* Archives.                                                                *)

Archived(archives) == [snap : archives, base : {NoBase}]

(* Archives are handed to the policies as full backups, newest first.       *)
LEMMA ArchivesListed ==
    ASSUME NEW A \in SUBSET Snapshot, IsFiniteSet(A)
    PROVE  /\ SortedListArchives(A) \in Seq(Backup)
           /\ Descending(SortedListArchives(A))
           /\ Archived(A) = Elements(SortedListArchives(A))
           /\ IsFiniteSet(Archived(A)) /\ UniqueNames(Archived(A))
           /\ {b.snap : b \in Archived(A)} = A
<1> DEFINE f == [a \in A |-> [snap |-> a, base |-> NoBase]]
           B == Archived(A)
<1>1. B \in SUBSET Backup /\ UniqueNames(B)
    <2>1. NoBase \in Nat
        BY DEF NoBase
    <2>2. \A b \in B : b \in Backup /\ b = [snap |-> b.snap, base |-> NoBase]
        BY <2>1 DEF Archived, Backup
    <2> QED
        BY <2>2 DEF UniqueNames
<1>2. f \in Surjection(A, B)
    BY DEF Surjection, Archived
<1>3. IsFiniteSet(B)
    BY <1>2, FS_Surjection
<1>4. {b.snap : b \in B} = A
    <2>1. \A a \in A : f[a] \in B /\ f[a].snap = a
        BY DEF Archived
    <2>2. \A b \in B : b.snap \in A
        BY DEF Archived
    <2> QED
        BY <2>1, <2>2
<1>5. SortedListArchives(A) = SortedListBackups(B)
    BY DEF SortedListArchives, Archived
<1> HIDE DEF B
<1>6. /\ SortedListBackups(B) \in Seq(Backup) /\ Descending(SortedListBackups(B))
      /\ B = Elements(SortedListBackups(B))
    BY <1>1, <1>3, SortedDescending
<1> QED
    BY <1>1, <1>3, <1>4, <1>5, <1>6 DEF B

(* What the policies retain of the archives are archives, and removing      *)
(* others does not change it.                                               *)
LEMMA ArchivesStable ==
    ASSUME NEW policies \in Seq(RetentionPolicy), NEW A \in SUBSET Snapshot, IsFiniteSet(A)
    PROVE  LET retained == ApplyRetentionPolicies(policies, SortedListArchives(A))
           IN  /\ retained \subseteq A
               /\ \A K \in SUBSET A : retained \subseteq K =>
                      ApplyRetentionPolicies(policies, SortedListArchives(K)) = retained
<1> DEFINE s == SortedListArchives(A)
           retained == ApplyRetentionPolicies(policies, s)
<1>1. /\ s \in Seq(Backup) /\ Descending(s) /\ Archived(A) = Elements(s)
      /\ IsFiniteSet(Archived(A)) /\ UniqueNames(Archived(A))
      /\ {b.snap : b \in Archived(A)} = A
    BY ArchivesListed
<1> HIDE DEF s
<1>2. retained \subseteq A
    <2> SUFFICES ASSUME NEW i \in DOMAIN policies PROVE RetainedBy(policies[i], s) \subseteq A
        BY DEF ApplyRetentionPolicies
    <2>1. policies[i] \in RetentionPolicy
        OBVIOUS
    <2>2. RetainedBy(policies[i], s) \subseteq Eligible(policies[i], Archived(A))
        BY <1>1, <2>1, ScanGreedy
    <2>3. Eligible(policies[i], Archived(A)) \subseteq {b.snap : b \in Archived(A)}
        BY DEF Eligible
    <2> QED
        BY <1>1, <2>2, <2>3
<1>3. ASSUME NEW K \in SUBSET A, retained \subseteq K
      PROVE  ApplyRetentionPolicies(policies, SortedListArchives(K)) = retained
    <2>1. IsFiniteSet(K)
        BY FS_Subset
    <2>2. /\ SortedListArchives(K) \in Seq(Backup) /\ Descending(SortedListArchives(K))
          /\ Archived(K) = Elements(SortedListArchives(K))
          /\ {b.snap : b \in Archived(K)} = K
        BY <2>1, ArchivesListed
    <2>3. Archived(K) \subseteq Archived(A)
        BY DEF Archived
    <2> HIDE DEF retained
    <2>4. ApplyRetentionPolicies(policies, s) \subseteq {b.snap : b \in Archived(K)}
        BY <1>3, <2>2 DEF retained
    <2> QED
        BY <1>1, <2>2, <2>3, <2>4, AppliedStable DEF retained
<1> QED
    BY <1>2, <1>3 DEF s

=============================================================================

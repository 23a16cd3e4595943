-------------------------- MODULE MCRetentionProofs --------------------------
(***************************************************************************)
(* What GetPrunedBackups keeps, whatever the instants, intervals and        *)
(* counts: the results about Retention, as theorems of MCRetention.  And    *)
(* what ParseRetentionPolicy reads, whatever the text.                      *)
(***************************************************************************)
EXTENDS MCRetention, RetentionProofs, SequenceTheorems

LEMMA ListingsUnique == \A L \in Listings : UniqueNames(L)
<1> SUFFICES ASSUME NEW L \in Listings PROVE UniqueNames(L)
    OBVIOUS
<1>1. PICK T \in SUBSET Times :
          L \in {{[snap |-> t, base |-> f[t]] : t \in T} : f \in [T -> {NoBase} \cup Times]}
    BY DEF Listings
<1>2. PICK f \in [T -> {NoBase} \cup Times] : L = {[snap |-> t, base |-> f[t]] : t \in T}
    BY <1>1
<1> QED
    BY <1>2 DEF UniqueNames

(* For any listing, orphans included, and any policies: what pruning leaves *)
(* can be restored from what it leaves (lib/retention.go GetPrunedBackups). *)
THEOREM PruningKeepsChains == Spec => []KeepsWholeChains
<1>1. Init => UniqueNames(backups)
    BY ListingsUnique DEF Init, UniqueNames
<1>2. UniqueNames(backups) /\ [Next]_vars => UniqueNames(backups)'
    BY DEF Next, Prune, Parse, vars, Kept, UniqueNames
<1>3. UniqueNames(backups) => KeepsWholeChains
    <2> SUFFICES ASSUME UniqueNames(backups), policies # <<>>, NEW b \in Kept
                 PROVE  Restorable(b, Kept)
        BY DEF KeepsWholeChains
    <2>1. BaseClosed(Kept)
        BY KeptClosed DEF Kept, Pruned
    <2> QED
        BY <2>1 DEF Restorable
<1> QED
    BY <1>1, <1>2, <1>3, PTL DEF Spec

-----------------------------------------------------------------------------
(* The inputs.                                                              *)

Listing(B) ==
    /\ B \in SUBSET Backup
    /\ IsFiniteSet(B)
    /\ UniqueNames(B)
    /\ \A b \in B : b.snap \in Times /\ b.base \in {NoBase} \cup Times /\ b.base < b.snap

InputOK ==
    /\ Listing(backups)
    /\ backups # {} => policies \in Seq(RetentionPolicy) /\ text = <<>>

LEMMA ListingsTyped == \A L \in Listings : Listing(L)
<1> SUFFICES ASSUME NEW L \in Listings PROVE Listing(L)
    OBVIOUS
<1> DEFINE Bases(t) == {NoBase} \cup {s \in Times : s < t}
<1>1. PICK T \in SUBSET Times :
          L \in {{[snap |-> t, base |-> f[t]] : t \in T} :
                    f \in {g \in [T -> {NoBase} \cup Times] : \A t \in T : g[t] \in Bases(t)}}
    BY DEF Listings
<1>2. PICK f \in [T -> {NoBase} \cup Times] :
          /\ \A t \in T : f[t] \in Bases(t)
          /\ L = {[snap |-> t, base |-> f[t]] : t \in T}
    BY <1>1
<1>3. \A t \in T : t \in Snapshot /\ t \in Nat /\ t > 0 /\ f[t] \in Nat /\ f[t] < t
    <2>1. \A t \in T : t \in Snapshot /\ t \in Nat /\ t > 0
        BY RetentionAssumption DEF Snapshot, NoBase
    <2>2. \A t \in T : f[t] = NoBase \/ (f[t] \in Times /\ f[t] < t)
        BY <1>2
    <2>3. ASSUME NEW t \in T PROVE f[t] \in Nat /\ f[t] < t
        <3>1. CASE f[t] = NoBase
            BY <2>1, <3>1 DEF NoBase
        <3>2. CASE f[t] \in Times /\ f[t] < t
            BY <3>2, RetentionAssumption DEF Snapshot
        <3> QED
            BY <2>2, <3>1, <3>2
    <2> QED
        BY <2>1, <2>3
<1>4. L \in SUBSET Backup
    BY <1>2, <1>3 DEF Backup
<1>5. \A b \in L : b.snap \in Times /\ b.base \in {NoBase} \cup Times /\ b.base < b.snap
    BY <1>2, <1>3
<1>6. IsFiniteSet(L)
    <2> DEFINE g == [t \in T |-> [snap |-> t, base |-> f[t]]]
    <2>1. g \in Surjection(T, L)
        BY <1>2 DEF Surjection
    <2>2. IsFiniteSet(T)
        BY RetentionAssumption, FS_Subset
    <2> QED
        BY <2>1, <2>2, FS_Surjection
<1> QED
    BY <1>4, <1>5, <1>6, ListingsUnique DEF Listing

LEMMA PoliciesTyped == Policies \subseteq Seq(RetentionPolicy)
<1> SUFFICES ASSUME NEW n \in 0 .. MaxPolicies,
                    NEW p \in [1 .. n -> [interval : Intervals, count : Counts, fullOnly : BOOLEAN]]
             PROVE  p \in Seq(RetentionPolicy)
    BY DEF Policies
<1>1. [interval : Intervals, count : Counts, fullOnly : BOOLEAN] \subseteq RetentionPolicy
    BY RetentionAssumption DEF RetentionPolicy
<1>2. n \in Nat
    BY RetentionAssumption
<1>3. p \in [1 .. n -> RetentionPolicy]
    BY <1>1
<1> QED
    BY <1>2, <1>3

(* The empty text is not a policy.                                          *)
LEMMA EmptyText == ~ParseRetentionPolicy(<<>>).ok
BY DEF ParseRetentionPolicy, SelectInSeq, Error

LEMMA InputStays == Spec => []InputOK
<1>1. Init => InputOK
    <2>1. Listing({})
        BY FS_EmptySet DEF Listing, UniqueNames
    <2> QED
        BY <2>1, ListingsTyped, PoliciesTyped DEF Init, InputOK
<1>2. InputOK /\ [Next]_vars => InputOK'
    <2> SUFFICES ASSUME InputOK, [Next]_vars PROVE InputOK'
        OBVIOUS
    <2>1. CASE Prune
        <3>1. Kept \in SUBSET backups
            BY DEF Kept
        <3>2. Listing(Kept)
            BY <3>1, FS_Subset DEF InputOK, Listing, UniqueNames
        <3> QED
            BY <2>1, <3>1, <3>2 DEF Prune, InputOK
    <2>2. CASE Parse
        <3>1. text # <<>>
            BY <2>2, EmptyText DEF Parse
        <3> QED
            BY <2>2, <3>1 DEF Parse, InputOK
    <2>3. CASE UNCHANGED vars
        BY <2>3 DEF vars, InputOK
    <2> QED
        BY <2>1, <2>2, <2>3 DEF Next
<1> QED
    BY <1>1, <1>2, PTL DEF Spec

-----------------------------------------------------------------------------
(* What is retained.                                                        *)

(* For any listing and any policies, the single pass over the subjects      *)
(* retains the one greedy selection there is (ApplyRetentionPolicies).      *)
THEOREM ScanIsGreedy == Spec => []RetainsGreedily
<1>1. InputOK => RetainsGreedily
    <2> SUFFICES ASSUME InputOK, NEW i \in DOMAIN policies
                 PROVE  {S \in SUBSET Eligible(policies[i], backups) :
                            Greedy(policies[i], Eligible(policies[i], backups), S)}
                            = {RetainedBy(policies[i], order)}
        BY DEF RetainsGreedily
    <2> DEFINE E == Eligible(policies[i], backups)
               R == RetainedBy(policies[i], order)
    <2>1. order \in Seq(Backup) /\ Descending(order) /\ backups = Elements(order)
        BY SortedDescending DEF InputOK, Listing, order
    <2>2. E \in SUBSET Nat /\ IsFiniteSet(E)
        BY EligibleNames DEF InputOK, Listing
    <2>3. R \in SUBSET E /\ Greedy(policies[i], E, R)
        <3>1. CASE backups # {}
            <4>1. policies[i] \in RetentionPolicy
                BY <3>1 DEF InputOK
            <4> QED
                BY <2>1, <4>1, ScanGreedy
        <3>2. CASE backups = {}
            <4>1. Len(order) = 0
                <5>1. Len(order) \in Nat /\ \A k \in 1 .. Len(order) : order[k] \in Elements(order)
                    BY <2>1 DEF Elements
                <5> QED
                    BY <2>1, <3>2, <5>1
            <4>2. R = {}
                <5>1. PICK scan \in [0 .. Len(order) ->
                                        [names : SUBSET Nat, last : Nat, count : Nat]] :
                          scan[0] = NothingRetained /\ R = scan[Len(order)].names
                    BY <2>1, ScanSteps
                <5> QED
                    BY <4>1, <5>1 DEF NothingRetained
            <4> QED
                BY <3>2, <4>2 DEF Eligible, Greedy
        <3> QED
            BY <3>1, <3>2
    <2> HIDE DEF E, R
    <2>4. \A S \in SUBSET E : Greedy(policies[i], E, S) => S = R
        BY <2>2, <2>3, GreedyUnique
    <2> QED
        BY <2>3, <2>4 DEF E, R
<1> QED
    BY <1>1, InputStays, PTL

(* For any listing and any policies, a second pass removes nothing          *)
(* (GetPrunedBackups).                                                      *)
THEOREM PruningIsStable == Spec => []PruneIdempotent
<1>1. InputOK => PruneIdempotent
    <2> SUFFICES ASSUME InputOK
                 PROVE  GetPrunedBackups(Kept, SortedListBackups(Kept), policies) = {}
        BY DEF PruneIdempotent
    <2>1. CASE backups = {}
        BY <2>1 DEF Kept, GetPrunedBackups
    <2>2. CASE backups # {}
        <3>1. /\ policies \in Seq(RetentionPolicy)
              /\ backups \in SUBSET Backup /\ IsFiniteSet(backups) /\ UniqueNames(backups)
            BY <2>2 DEF InputOK, Listing
        <3>2. Kept \in SUBSET backups /\ backups \ Kept \subseteq Pruned /\ Kept \cap Pruned = {}
            BY DEF Kept
        <3> QED
            BY <3>1, <3>2, PruneStable DEF Pruned, order
    <2> QED
        BY <2>1, <2>2
<1> QED
    BY <1>1, InputStays, PTL

(* For any listing and any policies: the most recent restorable backup that *)
(* a policy considers stays (ApplyRetentionPolicies).                       *)
THEOREM NewestStays == Spec => []MostRecentRetained
<1>1. InputOK => MostRecentRetained
    <2> SUFFICES ASSUME InputOK, NEW i \in DOMAIN policies,
                        NEW b \in backups, Restorable(b, backups), Considers(policies[i], b),
                        \A c \in backups :
                            Restorable(c, backups) /\ Considers(policies[i], c) => c.snap <= b.snap
                 PROVE  b \in Kept
        BY DEF MostRecentRetained
    <2>1. /\ policies \in Seq(RetentionPolicy)
          /\ backups \in SUBSET Backup /\ IsFiniteSet(backups) /\ UniqueNames(backups)
        BY DEF InputOK, Listing
    <2>2. /\ policies[i].count > 0
          /\ policies[i].fullOnly => IsFull(b)
          /\ \A c \in backups :
                Restorable(c, backups) /\ (policies[i].fullOnly => IsFull(c)) => c.snap <= b.snap
        BY DEF Considers
    <2>3. b \notin Pruned
        BY <2>1, <2>2, NewestKept DEF Pruned, order
    <2> QED
        BY <2>3 DEF Kept
<1> QED
    BY <1>1, InputStays, PTL

(* For any listing, any policies and any instant the clock gives the new    *)
(* backup: what the backup command's prune leaves can be restored, and the  *)
(* new backup stays if a policy considers it (cmd/backup.go, PruneBackups). *)
THEOREM NewBackupSurvives == Spec => []NewBackupStays
<1>1. InputOK => NewBackupStays
    <2> DEFINE names == {b.snap : b \in backups}
               bases == {b.base : b \in backups}
    <2> SUFFICES ASSUME InputOK, policies # <<>>,
                        NEW new \in [snap : Times \ (names \cup bases), base : {NoBase} \cup names]
                 PROVE  LET all  == backups \cup {new}
                            left == all \ GetPrunedBackups(all, NewBackupFirst(new, order), policies)
                        IN  /\ \A b \in left : Restorable(b, left)
                            /\ Restorable(new, all) /\ (\E i \in DOMAIN policies : Considers(policies[i], new))
                                   => new \in left
        BY DEF NewBackupStays
    <2> DEFINE all  == backups \cup {new}
               left == all \ GetPrunedBackups(all, NewBackupFirst(new, order), policies)
    <2>1. backups \in SUBSET Backup /\ IsFiniteSet(backups) /\ UniqueNames(backups)
        BY DEF InputOK, Listing
    <2>2. new \in Backup
        <3>1. new = [snap |-> new.snap, base |-> new.base] /\ new.snap \in Times
              /\ new.base \in {NoBase} \cup names
            OBVIOUS
        <3>2. new.snap \in Snapshot /\ new.base \in Nat
            BY <2>1, <3>1, RetentionAssumption DEF NoBase, Backup, Snapshot
        <3> QED
            BY <3>1, <3>2 DEF Backup
    <2>3. UniqueNames(all)
        BY <2>1 DEF UniqueNames
    <2>4. ASSUME NEW b \in left PROVE Restorable(b, left)
        <3>1. BaseClosed(left)
            <4> HIDE DEF all
            <4> QED
                BY <2>3, KeptClosed
        <3> HIDE DEF left
        <3> QED
            BY <2>4, <3>1 DEF Restorable
    <2>5. ASSUME Restorable(new, all), NEW i \in DOMAIN policies, Considers(policies[i], new)
          PROVE  new \in left
        <3>1. order \in Seq(Backup)
            BY <2>1, SortedDescending DEF order
        <3>2. new \in all /\ policies[i].count > 0 /\ (policies[i].fullOnly => IsFull(new))
            BY <2>5 DEF Considers
        <3> HIDE DEF all
        <3> QED
            BY <2>2, <2>5, <3>1, <3>2, NewBackupKept
    <2> QED
        BY <2>4, <2>5
<1> QED
    BY <1>1, InputStays, PTL

-----------------------------------------------------------------------------
(* The loop of GetFullChain.                                                *)

(* What the loop visits from b: the least set that has b and, with each of  *)
(* its members, the base if the index has it.                               *)
Follows(D) == \A d \in D, e \in backups : e.snap = d.base => e \in D

Visited(b) == {c \in backups : \A D \in SUBSET backups : b \in D /\ Follows(D) => c \in D}

Outcome(b) == [chain |-> Visited(b), ok |-> Restorable(b, backups)]

(* The next turn of the loop: the base is none, gone, or visited next.      *)
LEMMA VisitedStep ==
    ASSUME Listing(backups), NEW b \in backups
    PROVE  /\ \A e \in backups : e.snap = b.base => Visited(b) = {b} \cup Visited(e)
           /\ (\A e \in backups : e.snap # b.base) => Visited(b) = {b}
<1>1. UniqueNames(backups)
    BY DEF Listing
<1>2. \A c \in backups : c \in Visited(c) /\ Follows(Visited(c)) /\ Visited(c) \in SUBSET backups
    <2> SUFFICES ASSUME NEW c \in backups
                 PROVE  c \in Visited(c) /\ Follows(Visited(c)) /\ Visited(c) \in SUBSET backups
        OBVIOUS
    <2>1. c \in Visited(c) /\ Visited(c) \in SUBSET backups
        BY DEF Visited
    <2>2. ASSUME NEW d \in Visited(c), NEW e \in backups, e.snap = d.base,
                 NEW D \in SUBSET backups, c \in D, Follows(D)
          PROVE  e \in D
        BY <2>2 DEF Visited, Follows
    <2>3. Follows(Visited(c))
        BY <2>2 DEF Follows, Visited
    <2> QED
        BY <2>1, <2>3
<1>3. ASSUME NEW e \in backups, e.snap = b.base
      PROVE  Visited(b) = {b} \cup Visited(e)
    <2>1. Follows({b} \cup Visited(e))
        BY <1>1, <1>2, <1>3 DEF Follows, UniqueNames
    <2>2. Visited(b) \subseteq {b} \cup Visited(e)
        BY <1>2, <2>1 DEF Visited
    <2>3. e \in Visited(b)
        BY <1>2, <1>3 DEF Follows
    <2>4. Visited(e) \subseteq Visited(b)
        BY <1>2, <2>3 DEF Visited
    <2> QED
        BY <1>2, <2>2, <2>4
<1>4. ASSUME \A e \in backups : e.snap # b.base PROVE Visited(b) = {b}
    <2>1. Follows({b})
        BY <1>4 DEF Follows
    <2> QED
        BY <1>2, <2>1 DEF Visited
<1> QED
    BY <1>3, <1>4

LEMMA RestorableStep ==
    ASSUME Listing(backups), NEW b \in backups
    PROVE  /\ IsFull(b) => Restorable(b, backups)
           /\ \A e \in backups : ~IsFull(b) /\ e.snap = b.base =>
                  (Restorable(b, backups) <=> Restorable(e, backups))
           /\ ~IsFull(b) /\ (\A e \in backups : e.snap # b.base) => ~Restorable(b, backups)
<1>1. UniqueNames(backups)
    BY DEF Listing
<1>2. IsFull(b) => Restorable(b, backups)
    <2>1. IsFull(b) => BaseClosed({b})
        BY DEF BaseClosed
    <2> QED
        BY <2>1 DEF Restorable
<1>3. ASSUME NEW e \in backups, ~IsFull(b), e.snap = b.base
      PROVE  Restorable(b, backups) <=> Restorable(e, backups)
    <2>1. ASSUME NEW C \in SUBSET backups, b \in C, BaseClosed(C) PROVE e \in C
        BY <1>1, <1>3, <2>1 DEF BaseClosed, UniqueNames
    <2>2. ASSUME NEW C \in SUBSET backups, e \in C, BaseClosed(C)
          PROVE  BaseClosed(C \cup {b}) /\ C \cup {b} \in SUBSET backups
        BY <1>3, <2>2 DEF BaseClosed
    <2> QED
        BY <2>1, <2>2 DEF Restorable
<1>4. ~IsFull(b) /\ (\A e \in backups : e.snap # b.base) => ~Restorable(b, backups)
    BY DEF Restorable, BaseClosed
<1> QED
    BY <1>2, <1>3, <1>4

(* A restorable backup's chain is what the loop visits.                     *)
LEMMA VisitedChain ==
    ASSUME Listing(backups), NEW b \in backups, Restorable(b, backups)
    PROVE  GetFullChain(b, backups) = Visited(b)
<1>1. UniqueNames(backups) /\ \A c \in backups : c.snap # NoBase
    BY DEF Listing, Backup, Snapshot
<1> DEFINE C == GetFullChain(b, backups)
<1>2. b \in C /\ BaseClosed(C) /\ C \in SUBSET backups
    BY <1>1, ChainClosed DEF GetFullChain
<1>3. ASSUME NEW D \in SUBSET backups, BaseClosed(D) PROVE Follows(D)
    <2> SUFFICES ASSUME NEW d \in D, NEW e \in backups, e.snap = d.base PROVE e \in D
        BY DEF Follows
    <2>1. ~IsFull(d)
        BY <1>1 DEF IsFull
    <2>2. PICK f \in D : f.snap = d.base
        BY <1>3, <2>1 DEF BaseClosed
    <2> QED
        BY <1>1, <2>2 DEF UniqueNames
<1>4. Visited(b) \subseteq C
    BY <1>2, <1>3 DEF Visited
<1>5. ASSUME NEW D \in SUBSET backups, b \in D, Follows(D) PROVE C \subseteq D
    <2>1. BaseClosed(C \cap D)
        <3> SUFFICES ASSUME NEW d \in C \cap D, ~IsFull(d)
                     PROVE  \E e \in C \cap D : e.snap = d.base
            BY DEF BaseClosed
        <3>1. PICK e \in C : e.snap = d.base
            BY <1>2 DEF BaseClosed
        <3> QED
            BY <1>2, <1>5, <3>1 DEF Follows
    <2>2. b \in C \cap D /\ C \cap D \in SUBSET backups
        BY <1>2, <1>5
    <2> QED
        BY <2>1, <2>2 DEF GetFullChain
<1>6. C \subseteq Visited(b)
    BY <1>2, <1>5 DEF Visited
<1> QED
    BY <1>4, <1>6

(* The loop ends with the outcome of the declarative definitions.           *)
LEMMA LoopOutcome ==
    ASSUME Listing(backups), NEW b \in backups
    PROVE  ChainLoop(b) = Outcome(b)
<1> DEFINE at(s) == CHOOSE c \in backups : c.snap = s
           names == {NoBase} \cup Times
           missing(s) == \A c \in backups : c.snap # s
           Turn(s, next) == [chain |-> {at(s)} \cup next.chain, ok |-> next.ok]
           Eqn(f) == f = [s \in names |->
                             IF s = NoBase THEN [chain |-> {}, ok |-> TRUE]
                             ELSE IF missing(s) THEN [chain |-> {}, ok |-> FALSE]
                             ELSE Turn(s, f[at(s).base])]
           walk == CHOOSE f : Eqn(f)
           end(s) == IF s = NoBase THEN [chain |-> {}, ok |-> TRUE]
                     ELSE IF missing(s) THEN [chain |-> {}, ok |-> FALSE]
                     ELSE Outcome(at(s))
           f0 == [s \in names |-> end(s)]
<1>1. /\ \A s \in names : s \in Nat
      /\ \A c \in backups : c.snap \in names /\ c.base \in names /\ c.base < c.snap /\ c.snap # NoBase
    BY RetentionAssumption DEF Listing, Snapshot, NoBase, Backup
<1>2. \A c \in backups : at(c.snap) = c
    BY DEF Listing, UniqueNames
<1>3. ASSUME NEW c \in backups PROVE Outcome(c) = Turn(c.snap, end(c.base))
    <2>0. at(c.snap) = c
        BY <1>2
    <2> HIDE DEF at
    <2>1. CASE c.base = NoBase
        <3>1. IsFull(c) /\ \A e \in backups : e.snap # c.base
            BY <1>1, <2>1 DEF IsFull
        <3>2. Visited(c) = {c} /\ Restorable(c, backups)
            BY <3>1, VisitedStep, RestorableStep
        <3> QED
            BY <2>0, <2>1, <3>2 DEF Outcome
    <2>2. CASE c.base # NoBase /\ missing(c.base)
        <3>1. ~IsFull(c) /\ \A e \in backups : e.snap # c.base
            BY <2>2 DEF IsFull
        <3>2. Visited(c) = {c} /\ Restorable(c, backups) = FALSE
            BY <3>1, VisitedStep, RestorableStep
        <3> QED
            BY <2>0, <2>2, <3>2 DEF Outcome
    <2>3. CASE c.base # NoBase /\ ~missing(c.base)
        <3>1. PICK e \in backups : e.snap = c.base
            BY <2>3
        <3>2. at(c.base) = e
            BY <1>2, <3>1
        <3>3. Visited(c) = {c} \cup Visited(e) /\ (Restorable(c, backups) <=> Restorable(e, backups))
            BY <2>3, <3>1, VisitedStep, RestorableStep DEF IsFull
        <3>4. end(c.base) = Outcome(e)
            BY <2>3, <3>2
        <3>5. Outcome(c) = [chain |-> {c} \cup Visited(e), ok |-> Restorable(e, backups)]
            BY <3>3 DEF Outcome, Restorable
        <3>6. Turn(c.snap, Outcome(e)) = [chain |-> {c} \cup Visited(e), ok |-> Restorable(e, backups)]
            BY <2>0 DEF Outcome
        <3> QED
            BY <3>4, <3>5, <3>6
    <2> QED
        BY <2>1, <2>2, <2>3
<1> HIDE DEF Turn
<1>4. ASSUME NEW s \in names, s # NoBase, ~missing(s)
      PROVE  at(s) \in backups /\ at(s).snap = s /\ at(s).base \in names /\ at(s).base < s
    <2>1. PICK c \in backups : c.snap = s
        BY <1>4
    <2>2. at(s) = c
        BY <1>2, <2>1
    <2> QED
        BY <1>1, <2>1, <2>2
<1>5. \A s \in names : s # NoBase /\ ~missing(s) => end(s) = Turn(s, f0[at(s).base])
    <2> SUFFICES ASSUME NEW s \in names, s # NoBase, ~missing(s)
                 PROVE  end(s) = Turn(s, f0[at(s).base])
        OBVIOUS
    <2>1. at(s) \in backups /\ at(s).snap = s /\ at(s).base \in names
        BY <1>4
    <2>2. f0[at(s).base] = end(at(s).base)
        BY <2>1
    <2>3. end(s) = Outcome(at(s))
        OBVIOUS
    <2> HIDE DEF at, end, f0
    <2> QED
        BY <1>3, <2>1, <2>2, <2>3
<1> HIDE DEF at, missing
<1>6. Eqn(f0)
    <2>1. \A s \in names : f0[s] = IF s = NoBase THEN [chain |-> {}, ok |-> TRUE]
                                   ELSE IF missing(s) THEN [chain |-> {}, ok |-> FALSE]
                                   ELSE Turn(s, f0[at(s).base])
        BY <1>5
    <2> QED
        BY <2>1
<1>7. Eqn(walk)
    BY <1>6
<1> HIDE DEF walk, f0
<1>8. \A s \in names : walk[s] = f0[s]
    <2> DEFINE T == {s \in names : walk[s] # f0[s]}
    <2>1. SUFFICES ASSUME T # {} PROVE FALSE
        OBVIOUS
    <2>2. PICK s \in T : \A r \in T : s <= r
        <3>1. T \subseteq Nat
            BY <1>1
        <3> HIDE DEF T
        <3> QED
            BY <2>1, <3>1, LeastElement
    <2>3. s \in names /\ walk[s] # f0[s]
        BY <2>2
    <2>4. s # NoBase /\ ~missing(s)
        BY <1>6, <1>7, <2>3
    <2>5. walk[at(s).base] # f0[at(s).base] /\ at(s).base \in names
        <3>1. walk[s] = Turn(s, walk[at(s).base])
            BY <1>7, <2>3, <2>4
        <3>2. f0[s] = Turn(s, f0[at(s).base])
            BY <1>6, <2>3, <2>4
        <3> QED
            BY <1>4, <2>3, <2>4, <3>1, <3>2
    <2>6. ~(s <= at(s).base)
        BY <1>1, <1>4, <2>3, <2>4
    <2> QED
        BY <2>2, <2>5, <2>6
<1>9. walk[b.snap] = Outcome(b)
    BY <1>1, <1>2, <1>8 DEF f0, missing
<1>10. ChainLoop(b) = walk[b.snap]
    BY DEF ChainLoop, walk, at, missing, Turn
<1> QED
    BY <1>9, <1>10

(* For any listing: the declarative chain of a backup is what the loop of   *)
(* GetFullChain collects, and Restorable is its ok (lib/utils.go).          *)
THEOREM ChainIsLoop == Spec => []ChainMatchesLoop
<1>1. InputOK => ChainMatchesLoop
    BY LoopOutcome, VisitedChain DEF InputOK, ChainMatchesLoop, Outcome
<1> QED
    BY <1>1, InputStays, PTL

-----------------------------------------------------------------------------
(* The parser of policies.                                                 *)

(* A digit has one value, whichever way it is looked up, and is none of the *)
(* other tokens of a policy.                                                *)
LEMMA DigitIs ==
    ASSUME NEW c, \E d \in DOMAIN Digits : c = Digits[d]
    PROVE  /\ DigitValue(c) = Figure(c) /\ Figure(c) \in Nat
           /\ c \notin {"=", ":", "h", "d", "w", "m", "y"}
           /\ c \notin {"hourly", "daily", "weekly", "monthly", "yearly"}
<1>1. DOMAIN Digits = 1 .. 10 /\ \A i, j \in 1 .. 10 : Digits[i] = Digits[j] => i = j
    BY DEF Digits
<1>2. PICK d \in 1 .. 10 : c = Digits[d]
    BY <1>1
<1>3. (CHOOSE i \in DOMAIN Digits : Digits[i] = c) = d
    BY <1>1, <1>2
<1>4. Figure(c) = d - 1
    <2>1. d - 1 \in 0 .. 9 /\ Digits[(d - 1) + 1] = c
        BY <1>2
    <2>2. \A i \in 0 .. 9 : Digits[i + 1] = c => i = d - 1
        BY <1>1, <1>2
    <2> HIDE DEF Digits
    <2> QED
        BY <2>1, <2>2 DEF Figure
<1>5. DigitValue(c) = d - 1
    BY <1>3 DEF DigitValue
<1>6. c \notin {"=", ":", "h", "d", "w", "m", "y"}
      /\ c \notin {"hourly", "daily", "weekly", "monthly", "yearly"}
    BY <1>2 DEF Digits
<1> QED
    BY <1>4, <1>5, <1>6

(* Atoi fails on what is not a number, and on nothing else.                *)
LEMMA NumberText ==
    ASSUME NEW S, NEW t \in Seq(S)
    PROVE  /\ IsNumber(t) <=> ~(t = <<>> \/ ToSet(t) \ ToSet(Digits) # {})
           /\ IsNumber(t) => Len(t) \in Nat /\ Len(t) >= 1
           /\ IsNumber(t) => \A i \in 1 .. Len(t) : \E d \in DOMAIN Digits : t[i] = Digits[d]
<1>1. DOMAIN t = 1 .. Len(t) /\ Len(t) \in Nat
    OBVIOUS
<1>2. IsNumber(t) <=> ~(t = <<>> \/ ToSet(t) \ ToSet(Digits) # {})
    BY DEF IsNumber, ToSet
<1>3. t # <<>> => Len(t) >= 1
    BY <1>1, EmptySeq
<1> QED
    BY <1>1, <1>2, <1>3 DEF IsNumber

(* The loop of Atoi, from the first figure to the last.                     *)
LEMMA AtoiReads ==
    ASSUME NEW S, NEW t \in Seq(S), IsNumber(t)
    PROVE  \E read \in [0 .. Len(t) -> Nat] :
               /\ read[0] = 0
               /\ \A i \in 1 .. Len(t) : read[i] = 10 * read[i - 1] + Figure(t[i])
               /\ Atoi(t) = Ok(read[Len(t)])
<1> DEFINE n == Len(t)
           Step == [i \in 1 .. n |-> [x \in Nat |-> 10 * x + DigitValue(t[i])]]
           Eqn(f) == f = [i \in 0 .. n |-> IF i = 0 THEN 0 ELSE 10 * f[i - 1] + DigitValue(t[i])]
           read == CHOOSE f : Eqn(f)
<1>1. n \in Nat
    OBVIOUS
<1>2. \A i \in 1 .. n : DigitValue(t[i]) = Figure(t[i]) /\ DigitValue(t[i]) \in Nat
    BY NumberText, DigitIs
<1>3. Step \in [1 .. n -> [Nat -> Nat]]
    BY <1>2
<1>4. PICK f \in [0 .. n -> Nat] : IsRun(f, n, 0, Step)
    <2> HIDE DEF n, Step
    <2> QED
        BY <1>1, <1>3, LoopRuns
<1>5. ASSUME NEW i \in 1 .. n PROVE f[i] = 10 * f[i - 1] + DigitValue(t[i])
    <2>1. i - 1 \in 0 .. n
        BY <1>1
    <2>2. f[i - 1] \in Nat
        BY <2>1
    <2>3. Step[i][f[i - 1]] = 10 * f[i - 1] + DigitValue(t[i])
        BY <2>2
    <2> QED
        BY <1>4, <2>3 DEF IsRun
<1>6. Eqn(f)
    BY <1>4, <1>5 DEF IsRun
<1>7. Eqn(read)
    BY <1>6
<1>8. Atoi(t) = Ok(read[n])
    BY NumberText DEF Atoi
<1> HIDE DEF read
<1>9. read[0] = 0 /\ \A i \in 1 .. n : read[i] = 10 * read[i - 1] + DigitValue(t[i])
    BY <1>1, <1>7
<1>10. \A i \in 0 .. n : read[i] \in Nat
    <2> DEFINE G == {i \in 0 .. n : read[i] \in Nat}
    <2>1. 0 \in G /\ \A i \in 1 .. n : i - 1 \in G => i \in G
        BY <1>1, <1>2, <1>9
    <2>2. \A i \in 0 .. n : i \in G
        <3> HIDE DEF G, n
        <3> QED
            BY <1>1, <2>1, UpTo
    <2> QED
        BY <2>2
<1>11. read \in [0 .. n -> Nat]
    BY <1>7, <1>10
<1> QED
    BY <1>2, <1>8, <1>9, <1>11

(* The sum of the figures, from the last to the first.                      *)
LEMMA DecimalSums ==
    ASSUME NEW S, NEW t \in Seq(S), IsNumber(t)
    PROVE  \E ten, sum \in [0 .. Len(t) -> Nat] :
               /\ ten[0] = 1 /\ sum[0] = 0
               /\ \A i \in 1 .. Len(t) :
                      /\ ten[i] = 10 * ten[i - 1]
                      /\ sum[i] = sum[i - 1] + ten[i - 1] * Figure(t[Len(t) - i + 1])
               /\ Decimal(t) = sum[Len(t)]
<1> DEFINE n == Len(t)
           TenStep == [i \in 1 .. n |-> [x \in Nat |-> 10 * x]]
           TenEqn(f) == f = [i \in 0 .. n |-> IF i = 0 THEN 1 ELSE 10 * f[i - 1]]
           ten == CHOOSE f : TenEqn(f)
           SumStep == [i \in 1 .. n |-> [x \in Nat |-> x + ten[i - 1] * Figure(t[n - i + 1])]]
           SumEqn(f) == f = [i \in 0 .. n |-> IF i = 0 THEN 0
                                              ELSE f[i - 1] + ten[i - 1] * Figure(t[n - i + 1])]
           sum == CHOOSE f : SumEqn(f)
<1>1. n \in Nat
    OBVIOUS
<1>2. \A i \in 1 .. n : Figure(t[n - i + 1]) \in Nat
    <2>1. \A i \in 1 .. n : n - i + 1 \in 1 .. n
        BY <1>1
    <2> QED
        BY <2>1, NumberText, DigitIs
<1>3. Decimal(t) = sum[n]
    BY DEF Decimal
<1>4. TenEqn(ten)
    <2>1. TenStep \in [1 .. n -> [Nat -> Nat]]
        OBVIOUS
    <2>2. PICK f \in [0 .. n -> Nat] : IsRun(f, n, 1, TenStep)
        <3> HIDE DEF n, TenStep
        <3> QED
            BY <1>1, <2>1, LoopRuns
    <2>3. ASSUME NEW i \in 1 .. n PROVE f[i] = 10 * f[i - 1]
        <3>1. i - 1 \in 0 .. n
            BY <1>1
        <3>2. f[i - 1] \in Nat
            BY <3>1
        <3>3. TenStep[i][f[i - 1]] = 10 * f[i - 1]
            BY <3>2
        <3> QED
            BY <2>2, <3>3 DEF IsRun
    <2>4. TenEqn(f)
        BY <2>2, <2>3 DEF IsRun
    <2> QED
        BY <2>4
<1> HIDE DEF ten
<1>5. ten[0] = 1 /\ \A i \in 1 .. n : ten[i] = 10 * ten[i - 1]
    BY <1>1, <1>4
<1>6. \A i \in 0 .. n : ten[i] \in Nat
    <2> DEFINE G == {i \in 0 .. n : ten[i] \in Nat}
    <2>1. 0 \in G /\ \A i \in 1 .. n : i - 1 \in G => i \in G
        BY <1>1, <1>5
    <2>2. \A i \in 0 .. n : i \in G
        <3> HIDE DEF G, n
        <3> QED
            BY <1>1, <2>1, UpTo
    <2> QED
        BY <2>2
<1>7. \A i \in 1 .. n : ten[i - 1] * Figure(t[n - i + 1]) \in Nat
    <2> SUFFICES ASSUME NEW i \in 1 .. n PROVE ten[i - 1] * Figure(t[n - i + 1]) \in Nat
        OBVIOUS
    <2>1. i - 1 \in 0 .. n
        BY <1>1
    <2>2. ten[i - 1] \in Nat /\ Figure(t[n - i + 1]) \in Nat
        BY <1>2, <1>6, <2>1
    <2> QED
        BY <2>2
<1>8. SumEqn(sum)
    <2>1. SumStep \in [1 .. n -> [Nat -> Nat]]
        <3> SUFFICES ASSUME NEW i \in 1 .. n, NEW x \in Nat
                     PROVE  x + ten[i - 1] * Figure(t[n - i + 1]) \in Nat
            OBVIOUS
        <3>1. ten[i - 1] * Figure(t[n - i + 1]) \in Nat
            BY <1>7
        <3> QED
            BY <3>1
    <2>2. PICK f \in [0 .. n -> Nat] : IsRun(f, n, 0, SumStep)
        <3> HIDE DEF n, SumStep
        <3> QED
            BY <1>1, <2>1, LoopRuns
    <2>3. ASSUME NEW i \in 1 .. n
          PROVE  f[i] = f[i - 1] + ten[i - 1] * Figure(t[n - i + 1])
        <3>1. i - 1 \in 0 .. n
            BY <1>1
        <3>2. f[i - 1] \in Nat
            BY <3>1
        <3>3. SumStep[i][f[i - 1]] = f[i - 1] + ten[i - 1] * Figure(t[n - i + 1])
            BY <3>2
        <3>4. f[i] = SumStep[i][f[i - 1]]
            BY <2>2 DEF IsRun
        <3> QED
            BY <3>3, <3>4
    <2>4. SumEqn(f)
        BY <2>2, <2>3 DEF IsRun
    <2> QED
        BY <2>4
<1> HIDE DEF sum
<1>9. sum[0] = 0 /\ \A i \in 1 .. n : sum[i] = sum[i - 1] + ten[i - 1] * Figure(t[n - i + 1])
    BY <1>1, <1>8
<1>10. \A i \in 0 .. n : sum[i] \in Nat
    <2> DEFINE G == {i \in 0 .. n : sum[i] \in Nat}
    <2>1. 0 \in G
        BY <1>1, <1>9
    <2>2. ASSUME NEW i \in 1 .. n, i - 1 \in G PROVE i \in G
        <3>1. sum[i - 1] \in Nat /\ ten[i - 1] * Figure(t[n - i + 1]) \in Nat
            BY <1>7, <2>2
        <3>2. sum[i] \in Nat
            BY <1>9, <3>1
        <3> QED
            BY <1>1, <3>2
    <2>3. \A i \in 0 .. n : i \in G
        <3> HIDE DEF G, n
        <3> QED
            BY <1>1, <2>1, <2>2, UpTo
    <2> QED
        BY <2>3
<1>11. ten \in [0 .. n -> Nat] /\ sum \in [0 .. n -> Nat]
    BY <1>4, <1>6, <1>8, <1>10
<1> QED
    BY <1>3, <1>5, <1>9, <1>11

(* One more figure, read or summed.                                         *)
LEMMA Carry ==
    ASSUME NEW r \in Nat, NEW f \in Nat, NEW e \in Nat, NEW s \in Nat
    PROVE  (10 * r + f) * e + s = r * (10 * e) + (s + e * f)
OBVIOUS

(* Both ways to read a number agree.                                        *)
LEMMA AtoiDecimal ==
    ASSUME NEW S, NEW t \in Seq(S)
    PROVE  /\ IsNumber(t) => Atoi(t) = Ok(Decimal(t)) /\ Decimal(t) \in Nat
           /\ ~IsNumber(t) => Atoi(t) = Error(0)
<1>1. CASE ~IsNumber(t)
    BY <1>1, NumberText DEF Atoi
<1>2. CASE IsNumber(t)
    <2> DEFINE n == Len(t)
    <2>1. n \in Nat
        OBVIOUS
    <2>2. PICK read \in [0 .. n -> Nat] :
              /\ read[0] = 0
              /\ \A i \in 1 .. n : read[i] = 10 * read[i - 1] + Figure(t[i])
              /\ Atoi(t) = Ok(read[n])
        BY <1>2, AtoiReads
    <2>3. PICK ten, sum \in [0 .. n -> Nat] :
              /\ ten[0] = 1 /\ sum[0] = 0
              /\ \A i \in 1 .. n :
                     /\ ten[i] = 10 * ten[i - 1]
                     /\ sum[i] = sum[i - 1] + ten[i - 1] * Figure(t[n - i + 1])
              /\ Decimal(t) = sum[n]
        BY <1>2, DecimalSums
    <2>4. \A i \in 1 .. n : Figure(t[i]) \in Nat
        BY <1>2, NumberText, DigitIs
    <2> HIDE DEF n
    <2> DEFINE G == {i \in 0 .. n : read[n] = read[n - i] * ten[i] + sum[i]}
    <2>5. 0 \in G
        BY <2>1, <2>2, <2>3
    <2>6. ASSUME NEW i \in 1 .. n, i - 1 \in G PROVE i \in G
        <3> DEFINE k == n - i + 1
        <3>1. k \in 1 .. n /\ n - (i - 1) = k /\ k - 1 = n - i /\ i - 1 \in 0 .. n /\ n - i \in 0 .. n /\ i \in 0 .. n
            BY <2>1
        <3>2. read[n] = read[k] * ten[i - 1] + sum[i - 1]
            BY <2>6, <3>1
        <3>3. read[k] = 10 * read[n - i] + Figure(t[k])
            BY <2>2, <3>1
        <3>4. ten[i] = 10 * ten[i - 1] /\ sum[i] = sum[i - 1] + ten[i - 1] * Figure(t[k])
            BY <2>3
        <3>5. read[n - i] \in Nat /\ Figure(t[k]) \in Nat /\ ten[i - 1] \in Nat /\ sum[i - 1] \in Nat
            BY <2>4, <3>1
        <3> DEFINE r == read[n - i]
                   f == Figure(t[k])
                   e == ten[i - 1]
                   s == sum[i - 1]
        <3>6. r \in Nat /\ f \in Nat /\ e \in Nat /\ s \in Nat
            BY <3>5
        <3>7. read[n] = (10 * r + f) * e + s /\ ten[i] = 10 * e /\ sum[i] = s + e * f
            BY <3>2, <3>3, <3>4, Zenon
        <3> HIDE DEF k, r, f, e, s
        <3>8. (10 * r + f) * e + s = r * (10 * e) + (s + e * f)
            BY <3>6, Carry
        <3>9. read[n] = r * ten[i] + sum[i]
            BY <3>7, <3>8, Zenon
        <3> QED
            BY <3>1, <3>9 DEF r
    <2>7. n \in G
        <3>1. \A i \in 0 .. n : i \in G
            <4> HIDE DEF G
            <4> QED
                BY <2>1, <2>5, <2>6, UpTo
        <3> QED
            BY <2>1, <3>1
    <2>8. read[n] = sum[n]
        <3>1. read[n] = read[n - n] * ten[n] + sum[n] /\ n - n = 0 /\ ten[n] \in Nat /\ sum[n] \in Nat
            BY <2>1, <2>7
        <3> QED
            BY <2>2, <3>1
    <2>9. sum[n] \in Nat
        BY <2>1
    <2> QED
        BY <1>2, <2>2, <2>3, <2>8, <2>9
<1> QED
    BY <1>1, <1>2

(* What a text means as an interval to the code.                            *)
Means(t) == IntervalMeanings(t, 3600)

LengthsOfUnits == UnitLengths(3600)

LengthsOfAliases == AliasLengths(3600)

(* No text is of two forms: what an interval means is one value at most.    *)
LEMMA IntervalForms ==
    ASSUME NEW S, NEW t \in Seq(S)
    PROVE  /\ IsNumber(t) => Len(t) >= 1 /\ Last(t) \notin Units
                             /\ \A a \in LengthsOfAliases : t # <<a[1]>>
           /\ \A a \in LengthsOfAliases : t = <<a[1]>> => ~IsNumber(Front(t))
<1>1. ASSUME IsNumber(t)
      PROVE  Len(t) >= 1 /\ Last(t) \notin Units /\ \A a \in LengthsOfAliases : t # <<a[1]>>
    <2>1. Len(t) \in Nat /\ Len(t) >= 1 /\ \A i \in 1 .. Len(t) : \E d \in DOMAIN Digits : t[i] = Digits[d]
        BY <1>1, NumberText
    <2>2. Last(t) \notin Units
        <3>1. \E d \in DOMAIN Digits : t[Len(t)] = Digits[d]
            BY <2>1
        <3>2. t[Len(t)] \notin {"h", "d", "w", "m", "y"}
            BY <3>1, DigitIs
        <3> QED
            BY <3>2 DEF Last, Units
    <2>3. ASSUME NEW a \in LengthsOfAliases, t = <<a[1]>> PROVE FALSE
        <3>1. t[1] = a[1]
            BY <2>3
        <3>2. \E d \in DOMAIN Digits : t[1] = Digits[d]
            BY <2>1
        <3>3. t[1] \notin {"hourly", "daily", "weekly", "monthly", "yearly"}
            BY <3>2, DigitIs
        <3> QED
            BY <3>1, <3>3 DEF LengthsOfAliases, AliasLengths
    <2> QED
        BY <2>1, <2>2, <2>3
<1>2. ASSUME NEW a \in LengthsOfAliases, t = <<a[1]>> PROVE ~IsNumber(Front(t))
    <2>1. Len(t) = 1
        BY <1>2
    <2>2. Front(t) = <<>>
        BY <2>1 DEF Front
    <2> QED
        BY <2>2 DEF IsNumber
<1> QED
    BY <1>1, <1>2

(* What ParseInterval makes of a text is what it means, with an hour of     *)
(* 3600 seconds, an error if it means nothing.                              *)
LEMMA IntervalParsed ==
    ASSUME NEW S, NEW t \in Seq(S)
    PROVE  /\ Means(t) = IF ParseInterval(t).ok THEN {ParseInterval(t).value} ELSE {}
<1>1. Front(t) \in Seq(S)
    <2>1. CASE t = <<>>
        <3>1. Front(t) = <<>>
            BY <2>1 DEF Front
        <3> QED
            BY <3>1
    <2>2. CASE t # <<>>
        <3>1. Len(t) \in Nat /\ Len(t) >= 1
            BY <2>2, EmptySeq
        <3> QED
            BY <3>1 DEF Front
    <2> QED
        BY <2>1, <2>2
<1>2. CASE Len(t) = 1 /\ t[1] \in DOMAIN IntervalAliases
    <2>1. PICK a \in LengthsOfAliases : t = <<a[1]>>
        <3>1. \E a \in LengthsOfAliases : t[1] = a[1]
            BY <1>2 DEF IntervalAliases, LengthsOfAliases, AliasLengths
        <3>2. t = <<t[1]>>
            BY <1>2
        <3> QED
            BY <3>1, <3>2
    <2>2. ~IsNumber(t) /\ ~IsNumber(Front(t))
        BY <2>1, IntervalForms
    <2>3. \A b \in LengthsOfAliases : t = <<b[1]>> => b = a
        <3>1. \A b \in LengthsOfAliases : <<a[1]>> = <<b[1]>> => a[1] = b[1]
            OBVIOUS
        <3>2. \A b \in LengthsOfAliases : a[1] = b[1] => a = b
            BY DEF LengthsOfAliases, AliasLengths
        <3> QED
            BY <2>1, <3>1, <3>2
    <2>4. Means(t) = {a[2]}
        BY <2>1, <2>2, <2>3 DEF Means, IntervalMeanings, LengthsOfUnits, LengthsOfAliases
    <2>5. PICK u \in Units : IntervalAliases[t[1]] = <<"1", u>> /\ Seconds(u) = a[2]
        <3>1. t[1] = a[1]
            BY <2>1
        <3> QED
            BY <3>1 DEF IntervalAliases, LengthsOfAliases, AliasLengths, Units, Seconds, Hour
    <2>6. Front(<<"1", u>>) = <<"1">> /\ Last(<<"1", u>>) = u /\ <<"1", u>> # <<>>
        <3>1. <<"1", u>> \in Seq({"1", u}) /\ Len(<<"1", u>>) = 2
            OBVIOUS
        <3>2. Front(<<"1", u>>) = SubSeq(<<"1", u>>, 1, 1)
            BY <3>1 DEF Front
        <3>3. /\ SubSeq(<<"1", u>>, 1, 1) \in Seq({"1", u})
              /\ Len(SubSeq(<<"1", u>>, 1, 1)) = IF 1 <= 1 THEN 1 - 1 + 1 ELSE 0
              /\ \A i \in 1 .. 1 - 1 + 1 : SubSeq(<<"1", u>>, 1, 1)[i] = <<"1", u>>[1 + i - 1]
            <4>1. \A i \in 1 .. 1 : <<"1", u>>[i] \in {"1", u}
                OBVIOUS
            <4> QED
                BY <4>1, SubSeqProperties
        <3>4. Len(SubSeq(<<"1", u>>, 1, 1)) = 1 /\ SubSeq(<<"1", u>>, 1, 1)[1] = "1"
            BY <3>3
        <3> QED
            BY <3>1, <3>2, <3>3, <3>4 DEF Last
    <2>7. Atoi(<<"1">>) = Ok(1)
        <3>1. <<"1">> \in Seq({"1"}) /\ Len(<<"1">>) = 1
            OBVIOUS
        <3>2. IsNumber(<<"1">>)
            BY DEF IsNumber, Digits
        <3>3. PICK read \in [0 .. 1 -> Nat] :
                  /\ read[0] = 0
                  /\ \A i \in 1 .. 1 : read[i] = 10 * read[i - 1] + Figure(<<"1">>[i])
                  /\ Atoi(<<"1">>) = Ok(read[1])
            BY <3>1, <3>2, AtoiReads
        <3>4. Figure("1") = 1
            <4>1. \A d \in 0 .. 9 : Digits[d + 1] = "1" <=> d = 1
                BY DEF Digits
            <4> QED
                BY <4>1 DEF Figure
        <3> QED
            BY <3>3, <3>4
    <2>8. ParseInterval(t) = [ok |-> Ok(1).ok, value |-> Ok(1).value * Seconds(u)]
        BY <1>2, <2>5, <2>6, <2>7 DEF ParseInterval
    <2>9. a[2] \in Nat
        BY DEF LengthsOfAliases, AliasLengths
    <2>10. ParseInterval(t) = Ok(a[2])
        <3>1. ParseInterval(t) = Ok(1 * a[2])
            BY <2>5, <2>8 DEF Ok
        <3> QED
            BY <2>9, <3>1
    <2> QED
        BY <2>4, <2>10 DEF Ok
<1>3. CASE ~(Len(t) = 1 /\ t[1] \in DOMAIN IntervalAliases)
    <2>1. \A a \in LengthsOfAliases : t # <<a[1]>>
        <3> SUFFICES ASSUME NEW a \in LengthsOfAliases, t = <<a[1]>> PROVE FALSE
            OBVIOUS
        <3>1. Len(t) = 1 /\ t[1] = a[1]
            OBVIOUS
        <3>2. a[1] \in DOMAIN IntervalAliases
            BY DEF LengthsOfAliases, AliasLengths, IntervalAliases
        <3> QED
            BY <1>3, <3>1, <3>2
    <2>2. \A u \in LengthsOfUnits : u[1] \in Units /\ Seconds(u[1]) = u[2] /\ u[2] \in Nat
        BY DEF LengthsOfUnits, UnitLengths, Units, Seconds, Hour
    <2>3. \A c \in Units : \E u \in LengthsOfUnits : u[1] = c
        BY DEF LengthsOfUnits, UnitLengths, Units
    <2>4. \A u, v \in LengthsOfUnits : u[1] = v[1] => u = v
        BY DEF LengthsOfUnits, UnitLengths
    <2>5. CASE t # <<>> /\ Last(t) \in Units
        <3>1. ~IsNumber(t)
            BY <2>5, IntervalForms
        <3>2. PICK u \in LengthsOfUnits : u[1] = Last(t)
            BY <2>3, <2>5
        <3>3. ParseInterval(t) = [ok |-> Atoi(Front(t)).ok, value |-> Atoi(Front(t)).value * u[2]]
            BY <1>3, <2>2, <2>5, <3>2 DEF ParseInterval
        <3>4. CASE IsNumber(Front(t))
            <4>1. Atoi(Front(t)) = Ok(Decimal(Front(t)))
                BY <1>1, <3>4, AtoiDecimal
            <4>2. ParseInterval(t) = Ok(Decimal(Front(t)) * u[2])
                BY <3>3, <4>1 DEF Ok
            <4>3. Means(t) = {Decimal(Front(t)) * u[2]}
                BY <2>1, <2>4, <3>1, <3>2, <3>4 DEF Means, IntervalMeanings, LengthsOfUnits, LengthsOfAliases
            <4> QED
                BY <4>2, <4>3 DEF Ok
        <3>5. CASE ~IsNumber(Front(t))
            <4>1. Atoi(Front(t)) = Error(0)
                BY <1>1, <3>5, AtoiDecimal
            <4>2. ~ParseInterval(t).ok
                BY <3>3, <4>1 DEF Error
            <4>3. Means(t) = {}
                BY <2>1, <3>1, <3>5 DEF Means, IntervalMeanings, LengthsOfUnits, LengthsOfAliases
            <4> QED
                BY <4>2, <4>3
        <3> QED
            BY <3>4, <3>5
    <2>6. CASE ~(t # <<>> /\ Last(t) \in Units)
        <3>1. ParseInterval(t) = Atoi(t)
            BY <1>3, <2>6 DEF ParseInterval
        <3>2. \A u \in LengthsOfUnits : ~(IsNumber(Front(t)) /\ Last(t) = u[1])
            <4>1. CASE t = <<>>
                <5>1. Front(t) = <<>>
                    BY <4>1 DEF Front
                <5> QED
                    BY <5>1 DEF IsNumber
            <4>2. CASE t # <<>>
                BY <2>2, <2>6, <4>2
            <4> QED
                BY <4>1, <4>2
        <3>3. Means(t) = IF IsNumber(t) THEN {Decimal(t)} ELSE {}
            BY <2>1, <3>2 DEF Means, IntervalMeanings, LengthsOfUnits, LengthsOfAliases
        <3>4. CASE IsNumber(t)
            <4>1. Atoi(t) = Ok(Decimal(t))
                BY <3>4, AtoiDecimal
            <4> QED
                BY <3>1, <3>3, <3>4, <4>1 DEF Ok
        <3>5. CASE ~IsNumber(t)
            <4>1. Atoi(t) = Error(0)
                BY <3>5, AtoiDecimal
            <4> QED
                BY <3>1, <3>3, <3>5, <4>1 DEF Error
        <3> QED
            BY <3>4, <3>5
    <2> QED
        BY <2>5, <2>6
<1> QED
    BY <1>2, <1>3

(* A part of a sequence, and a part of its end.                             *)
LEMMA PartIs ==
    ASSUME NEW S, NEW t \in Seq(S), NEW a \in Nat, NEW b \in Nat, a <= b, b <= Len(t)
    PROVE  /\ SubSeq(t, a + 1, b) \in Seq(S)
           /\ Len(SubSeq(t, a + 1, b)) = b - a
           /\ \A i \in 1 .. b - a : SubSeq(t, a + 1, b)[i] = t[a + i]
<1>1. \A i \in a + 1 .. b : t[i] \in S
    BY ElementOfSeq
<1>2. a + 1 \in Int /\ b \in Int
    OBVIOUS
<1>3. /\ SubSeq(t, a + 1, b) \in Seq(S)
      /\ Len(SubSeq(t, a + 1, b)) = IF a + 1 <= b THEN b - (a + 1) + 1 ELSE 0
      /\ \A i \in 1 .. b - (a + 1) + 1 : SubSeq(t, a + 1, b)[i] = t[(a + 1) + i - 1]
    BY <1>1, <1>2, SubSeqProperties
<1>4. /\ (IF a + 1 <= b THEN b - (a + 1) + 1 ELSE 0) = b - a
      /\ b - (a + 1) + 1 = b - a
      /\ \A i \in 1 .. b - a : (a + 1) + i - 1 = a + i
    OBVIOUS
<1> QED
    BY <1>3, <1>4

LEMMA PartOfEnd ==
    ASSUME NEW S, NEW t \in Seq(S), NEW e \in 0 .. Len(t),
           NEW a \in Nat, NEW b \in Nat, a <= b, b <= Len(t) - e
    PROVE  SubSeq(SubSeq(t, e + 1, Len(t)), a + 1, b) = SubSeq(t, (e + a) + 1, e + b)
<1> DEFINE n == Len(t)
           item == SubSeq(t, e + 1, n)
           x == SubSeq(item, a + 1, b)
           y == SubSeq(t, (e + a) + 1, e + b)
<1>1. n \in Nat /\ e \in Nat /\ e <= n /\ b <= n - e
    OBVIOUS
<1>2. item \in Seq(S) /\ Len(item) = n - e /\ \A i \in 1 .. n - e : item[i] = t[e + i]
    BY <1>1, PartIs
<1> HIDE DEF item
<1>3. x \in Seq(S) /\ Len(x) = b - a /\ \A i \in 1 .. b - a : x[i] = item[a + i]
    BY <1>1, <1>2, PartIs
<1>4. e + a \in Nat /\ e + b \in Nat /\ e + a <= e + b /\ e + b <= n /\ (e + b) - (e + a) = b - a
    BY <1>1
<1>5. y \in Seq(S) /\ Len(y) = b - a /\ \A i \in 1 .. b - a : y[i] = t[(e + a) + i]
    <2> DEFINE p == e + a
               q == e + b
    <2>1. p \in Nat /\ q \in Nat /\ p <= q /\ q <= Len(t) /\ q - p = b - a
        BY <1>4
    <2> HIDE DEF n, p, q
    <2>2. /\ SubSeq(t, p + 1, q) \in Seq(S) /\ Len(SubSeq(t, p + 1, q)) = q - p
          /\ \A i \in 1 .. q - p : SubSeq(t, p + 1, q)[i] = t[p + i]
        BY <2>1, PartIs
    <2>3. y \in Seq(S) /\ Len(y) = b - a /\ \A i \in 1 .. b - a : y[i] = t[p + i]
        BY <2>1, <2>2 DEF p, q
    <2> QED
        BY <2>3 DEF p
<1>6. \A i \in 1 .. b - a : a + i \in 1 .. n - e /\ e + (a + i) = (e + a) + i
    BY <1>1
<1> HIDE DEF x, y
<1>7. ASSUME NEW i \in 1 .. Len(x) PROVE x[i] = y[i]
    <2>1. i \in 1 .. b - a
        BY <1>3
    <2>2. x[i] = item[a + i] /\ item[a + i] = t[e + (a + i)]
        BY <1>2, <1>3, <1>6, <2>1
    <2>3. y[i] = t[(e + a) + i] /\ e + (a + i) = (e + a) + i
        BY <1>5, <1>6, <2>1
    <2> QED
        BY <2>2, <2>3
<1>8. x = y
    BY <1>3, <1>5, <1>7, SeqEqual
<1> QED
    BY <1>8 DEF x, y, item, n

(* Where a token is first, 0 if it is nowhere.                              *)
FirstAt(t, c) ==
    LET I == {i \in 1 .. Len(t) : t[i] = c}
    IN  IF I # {} THEN Min(I) ELSE 0

(* FirstAt finds the token, and finds the first one.                        *)
LEMMA FirstIs ==
    ASSUME NEW S, NEW t \in Seq(S), NEW c
    PROVE  /\ FirstAt(t, c) \in 0 .. Len(t)
           /\ FirstAt(t, c) # 0 => t[FirstAt(t, c)] = c
           /\ \A k \in 1 .. Len(t) :
                  t[k] = c /\ (\A i \in 1 .. k - 1 : t[i] # c) => FirstAt(t, c) = k
           /\ (\A i \in 1 .. Len(t) : t[i] # c) => FirstAt(t, c) = 0
<1> DEFINE I == {i \in 1 .. Len(t) : t[i] = c}
<1>1. Len(t) \in Nat
    OBVIOUS
<1>2. CASE I = {}
    BY <1>1, <1>2 DEF FirstAt
<1>3. CASE I # {}
    <2>1. I \subseteq Nat
        BY <1>1
    <2>2. \E x \in I : \A y \in I : x <= y
        <3> HIDE DEF I
        <3> QED
            BY <1>3, <2>1, LeastElement
    <2>3. Min(I) \in I /\ \A y \in I : Min(I) <= y
        BY <2>2 DEF Min
    <2>4. FirstAt(t, c) = Min(I)
        BY <1>3 DEF FirstAt
    <2>5. Min(I) \in 1 .. Len(t) /\ t[Min(I)] = c
        BY <2>3
    <2>6. \A k \in 1 .. Len(t) : t[k] = c /\ (\A i \in 1 .. k - 1 : t[i] # c) => Min(I) = k
        <3> SUFFICES ASSUME NEW k \in 1 .. Len(t), t[k] = c, \A i \in 1 .. k - 1 : t[i] # c
                     PROVE  Min(I) = k
            OBVIOUS
        <3>1. k \in I
            OBVIOUS
        <3>2. Min(I) <= k
            BY <2>3, <3>1
        <3>3. Min(I) \notin 1 .. k - 1
            BY <2>5
        <3> HIDE DEF I
        <3> QED
            BY <1>1, <2>5, <3>2, <3>3
    <2> HIDE DEF I
    <2> QED
        BY <1>1, <2>4, <2>5, <2>6
<1> QED
    BY <1>2, <1>3

(* Neither "=" nor ":" is in an interval or in a number.                    *)
LEMMA IntervalTokens ==
    ASSUME NEW S, NEW t \in Seq(S), Means(t) # {}
    PROVE  \A i \in 1 .. Len(t) : t[i] # "="
<1>1. CASE IsNumber(t)
    BY <1>1, NumberText, DigitIs
<1>2. ASSUME NEW u \in LengthsOfUnits, IsNumber(Front(t)), Last(t) = u[1]
      PROVE  \A i \in 1 .. Len(t) : t[i] # "="
    <2>1. t # <<>>
        <3>1. t = <<>> => Front(t) = <<>>
            BY DEF Front
        <3> QED
            BY <1>2, <3>1 DEF IsNumber
    <2>2. Len(t) \in Nat /\ Len(t) >= 1
        BY <2>1, EmptySeq
    <2>3. /\ SubSeq(t, 0 + 1, Len(t) - 1) \in Seq(S)
          /\ Len(SubSeq(t, 0 + 1, Len(t) - 1)) = (Len(t) - 1) - 0
          /\ \A i \in 1 .. (Len(t) - 1) - 0 : SubSeq(t, 0 + 1, Len(t) - 1)[i] = t[0 + i]
        <3>1. 0 \in Nat /\ Len(t) - 1 \in Nat /\ 0 <= Len(t) - 1 /\ Len(t) - 1 <= Len(t)
            BY <2>2
        <3> QED
            BY <3>1, PartIs
    <2>4. /\ Front(t) \in Seq(S) /\ Len(Front(t)) = Len(t) - 1
          /\ \A i \in 1 .. Len(t) - 1 : Front(t)[i] = t[i]
        BY <2>2, <2>3 DEF Front
    <2>5. \A i \in 1 .. Len(t) - 1 : t[i] # "="
        <3> HIDE DEF Front
        <3>1. \A i \in 1 .. Len(t) - 1 : \E d \in DOMAIN Digits : t[i] = Digits[d]
            BY <1>2, <2>4, NumberText
        <3> QED
            BY <3>1, DigitIs
    <2>6. t[Len(t)] # "="
        BY <1>2 DEF Last, LengthsOfUnits, UnitLengths
    <2> QED
        BY <2>2, <2>5, <2>6
<1>3. ASSUME NEW a \in LengthsOfAliases, t = <<a[1]>>
      PROVE  \A i \in 1 .. Len(t) : t[i] # "="
    BY <1>3 DEF LengthsOfAliases, AliasLengths
<1> QED
    BY <1>1, <1>2, <1>3 DEF Means, IntervalMeanings, LengthsOfUnits, LengthsOfAliases

LEMMA Halves ==
    ASSUME NEW m \in Nat, m % 2 = 0
    PROVE  m \div 2 \in 0 .. m /\ m = 2 * (m \div 2)
OBVIOUS

(* The loop over the options takes the option any number of times.          *)
LEMMA OptionForm ==
    ASSUME NEW S, NEW t \in Seq(S)
    PROVE  IsFullOption(t) <=>
               /\ Len(t) % 2 = 0
               /\ \A i \in DOMAIN t : t[i] = IF i % 2 = 1 THEN ":" ELSE "full"
<1>1. Len(t) \in Nat /\ DOMAIN t = 1 .. Len(t)
    OBVIOUS
<1>2. ASSUME IsFullOption(t)
      PROVE  Len(t) % 2 = 0 /\ \A i \in DOMAIN t : t[i] = IF i % 2 = 1 THEN ":" ELSE "full"
    <2>1. PICK n \in 0 .. Len(t) : /\ Len(t) = 2 * n
                                   /\ \A i \in 1 .. n : t[2 * i - 1] = ":" /\ t[2 * i] = "full"
        BY <1>2 DEF IsFullOption
    <2>2. ASSUME NEW i \in 1 .. Len(t) PROVE t[i] = IF i % 2 = 1 THEN ":" ELSE "full"
        <3>1. CASE i % 2 = 1
            <4>1. (i + 1) \div 2 \in 1 .. n /\ 2 * ((i + 1) \div 2) - 1 = i
                BY <1>1, <2>1, <3>1
            <4> QED
                BY <2>1, <3>1, <4>1
        <3>2. CASE i % 2 = 0
            <4>1. i \div 2 \in 1 .. n /\ 2 * (i \div 2) = i
                BY <1>1, <2>1, <3>2
            <4> QED
                BY <2>1, <3>2, <4>1
        <3> QED
            BY <3>1, <3>2
    <2>3. Len(t) % 2 = 0
        BY <1>1, <2>1
    <2> QED
        BY <1>1, <2>2, <2>3
<1>3. ASSUME Len(t) % 2 = 0, \A i \in DOMAIN t : t[i] = IF i % 2 = 1 THEN ":" ELSE "full"
      PROVE  IsFullOption(t)
    <2> DEFINE n == Len(t) \div 2
    <2>1. n \in 0 .. Len(t) /\ Len(t) = 2 * n
        <3>1. Len(t) % 2 = 0
            BY <1>3
        <3> QED
            BY <1>1, <3>1, Halves
    <2> HIDE DEF n
    <2>2. ASSUME NEW i \in 1 .. n PROVE t[2 * i - 1] = ":" /\ t[2 * i] = "full"
        <3>1. 2 * i - 1 \in 1 .. Len(t) /\ 2 * i \in 1 .. Len(t)
            BY <1>1, <2>1
        <3>2. (2 * i - 1) % 2 = 1 /\ (2 * i) % 2 = 0
            BY <2>1
        <3> QED
            BY <1>1, <1>3, <3>1, <3>2
    <2> QED
        BY <2>1, <2>2 DEF IsFullOption
<1> QED
    BY <1>2, <1>3

(* A text without "=" means nothing.                                        *)
LEMMA NoReading ==
    ASSUME NEW S, NEW t \in Seq(S), FirstAt(t, "=") = 0
    PROVE  WiderMeanings(t) = {}
<1>1. \A k \in 1 .. Len(t) : t[k] # "="
    <2> DEFINE I == {i \in 1 .. Len(t) : t[i] = "="}
    <2>1. SUFFICES ASSUME I # {} PROVE FALSE
        OBVIOUS
    <2>2. PICK k \in I : \A i \in I : k <= i
        <3>1. I \subseteq Nat
            OBVIOUS
        <3> HIDE DEF I
        <3> QED
            BY <2>1, <3>1, LeastElement
    <2>3. k \in 1 .. Len(t) /\ t[k] = "=" /\ \A i \in 1 .. k - 1 : t[i] # "="
        BY <2>2
    <2> QED
        BY <2>3, FirstIs
<1> QED
    BY <1>1 DEF WiderMeanings, Readings

(* Where the code cuts: at the first "=", and after it at the first ":".    *)
Item(t) == SubSeq(t, FirstAt(t, "=") + 1, Len(t))

LastOfCount(t) ==
    IF FirstAt(Item(t), ":") = 0 THEN Len(t) ELSE FirstAt(t, "=") + FirstAt(Item(t), ":") - 1

(* The cuts are in the text, in that order.                                 *)
LEMMA CutsAt ==
    ASSUME NEW S, NEW t \in Seq(S), FirstAt(t, "=") # 0
    PROVE  /\ FirstAt(t, "=") \in 1 .. Len(t) /\ t[FirstAt(t, "=")] = "="
           /\ Item(t) \in Seq(S) /\ Len(Item(t)) = Len(t) - FirstAt(t, "=")
           /\ \A i \in 1 .. Len(t) - FirstAt(t, "=") : Item(t)[i] = t[FirstAt(t, "=") + i]
           /\ FirstAt(Item(t), ":") \in 0 .. Len(t) - FirstAt(t, "=")
           /\ LastOfCount(t) \in FirstAt(t, "=") .. Len(t)
<1> DEFINE e == FirstAt(t, "=")
<1>1. e \in 1 .. Len(t) /\ t[e] = "=" /\ Len(t) \in Nat
    BY FirstIs
<1>2. e \in Nat /\ e <= Len(t)
    BY <1>1
<1> HIDE DEF e
<1>3. /\ SubSeq(t, e + 1, Len(t)) \in Seq(S) /\ Len(SubSeq(t, e + 1, Len(t))) = Len(t) - e
      /\ \A i \in 1 .. Len(t) - e : SubSeq(t, e + 1, Len(t))[i] = t[e + i]
    BY <1>1, <1>2, PartIs
<1>4. Item(t) \in Seq(S) /\ Len(Item(t)) = Len(t) - e /\ \A i \in 1 .. Len(t) - e : Item(t)[i] = t[e + i]
    BY <1>3 DEF Item, e
<1>5. FirstAt(Item(t), ":") \in 0 .. Len(Item(t))
    BY <1>4, FirstIs
<1>6. FirstAt(Item(t), ":") \in 0 .. Len(t) - e
    BY <1>4, <1>5
<1>7. LastOfCount(t) \in e .. Len(t)
    BY <1>1, <1>6 DEF LastOfCount, e
<1> QED
    BY <1>1, <1>4, <1>6, <1>7 DEF e

(* The parts the code cuts are those of the reading there may be.           *)
LEMMA PartsAre ==
    ASSUME NEW S, NEW t \in Seq(S), FirstAt(t, "=") # 0
    PROVE  LET item    == Item(t)
               colon   == FirstAt(item, ":")
               count   == IF colon = 0 THEN item ELSE SubSeq(item, 1, colon - 1)
               options == IF colon = 0 THEN <<>> ELSE SubSeq(item, colon, Len(item))
           IN  /\ count = SubSeq(t, FirstAt(t, "=") + 1, LastOfCount(t))
               /\ options = SubSeq(t, LastOfCount(t) + 1, Len(t))
               /\ count \in Seq(S) /\ options \in Seq(S)
               /\ options # <<>> <=> LastOfCount(t) < Len(t)
<1> DEFINE n == Len(t)
           e == FirstAt(t, "=")
           item == Item(t)
           colon == FirstAt(item, ":")
           c == LastOfCount(t)
<1>1. n \in Nat /\ e \in 1 .. n /\ item \in Seq(S) /\ Len(item) = n - e /\ colon \in 0 .. n - e
      /\ c = IF colon = 0 THEN n ELSE e + colon - 1
    BY CutsAt DEF LastOfCount
<1>2. item = SubSeq(t, e + 1, n)
    BY DEF Item
<1>3. e \in 0 .. Len(t) /\ n = Len(t)
    BY <1>1
<1> HIDE DEF n, e, item, colon, c
<1>4. CASE colon = 0
    <2>1. c = n
        BY <1>1, <1>4
    <2>2. SubSeq(t, n + 1, n) = <<>>
        <3>1. n + 1 \in Int /\ n \in Int /\ n < n + 1
            BY <1>1
        <3> QED
            BY <3>1, SubSeqEmpty
    <2>3. item = SubSeq(t, e + 1, c) /\ <<>> = SubSeq(t, c + 1, n)
        BY <1>2, <2>1, <2>2
    <2>4. <<>> \in Seq(S) /\ ~(c < n)
        BY <1>1, <2>1
    <2> QED
        BY <1>1, <1>3, <1>4, <2>3, <2>4 DEF n, e, item, colon, c
<1>5. CASE colon # 0
    <2>1. /\ colon - 1 \in Nat /\ 0 \in Nat /\ 0 <= colon - 1 /\ colon - 1 <= n - e
          /\ n - e \in Nat /\ colon - 1 + 1 = colon /\ 0 + 1 = 1 /\ e + 0 = e
          /\ e + (colon - 1) = c /\ e + (n - e) = n /\ c < n
          /\ n - e <= Len(t) - e /\ colon - 1 <= Len(t) - e
        BY <1>1, <1>3, <1>5
    <2>2. SubSeq(SubSeq(t, e + 1, Len(t)), 0 + 1, colon - 1) = SubSeq(t, (e + 0) + 1, e + (colon - 1))
        BY <1>3, <2>1, PartOfEnd
    <2>3. SubSeq(SubSeq(t, e + 1, Len(t)), (colon - 1) + 1, n - e) = SubSeq(t, (e + (colon - 1)) + 1, e + (n - e))
        <3> DEFINE a == colon - 1
                   b == n - e
        <3>1. e \in 0 .. Len(t) /\ a \in Nat /\ b \in Nat /\ a <= b /\ b <= Len(t) - e
            BY <1>3, <2>1
        <3> HIDE DEF a, b
        <3>2. SubSeq(SubSeq(t, e + 1, Len(t)), a + 1, b) = SubSeq(t, (e + a) + 1, e + b)
            BY <3>1, PartOfEnd
        <3> QED
            BY <3>2 DEF a, b
    <2>4. SubSeq(item, 1, colon - 1) = SubSeq(t, e + 1, c)
        BY <1>2, <1>3, <2>1, <2>2
    <2>5. SubSeq(item, colon, Len(item)) = SubSeq(t, c + 1, n)
        BY <1>1, <1>2, <1>3, <2>1, <2>3
    <2>6. c \in Nat /\ e \in Nat /\ e <= c /\ c <= Len(t) /\ Len(t) \in Nat /\ Len(t) <= Len(t)
        BY <1>1, <1>3, <2>1
    <2>7. SubSeq(t, e + 1, c) \in Seq(S)
        BY <2>6, PartIs
    <2>8. SubSeq(t, c + 1, Len(t)) \in Seq(S) /\ Len(SubSeq(t, c + 1, Len(t))) = Len(t) - c
        BY <2>6, PartIs
    <2>9. SubSeq(t, c + 1, n) # <<>>
        <3> DEFINE rest == SubSeq(t, c + 1, Len(t))
        <3>1. Len(t) - c # 0
            BY <1>1, <1>3, <2>1, <2>6
        <3>2. Len(rest) # 0
            BY <2>8, <3>1
        <3> HIDE DEF rest
        <3>3. rest # <<>>
            BY <3>2
        <3> QED
            BY <1>3, <3>3 DEF rest
    <2> QED
        BY <1>3, <1>5, <2>1, <2>4, <2>5, <2>7, <2>8, <2>9 DEF n, e, item, colon, c
<1> QED
    BY <1>4, <1>5

(* A reading of a meaning is cut where the code cuts.                       *)
LEMMA OneReading ==
    ASSUME NEW S, NEW t \in Seq(S), NEW r \in Readings(t),
           Means(SubSeq(t, 1, r[1] - 1)) # {}
    PROVE  FirstAt(t, "=") = r[1] /\ LastOfCount(t) = r[2]
<1> DEFINE e == r[1]
           c == r[2]
           n == Len(t)
<1>1. /\ e \in 1 .. n /\ c \in 1 .. n /\ n \in Nat /\ t[e] = "="
      /\ IsNumber(SubSeq(t, e + 1, c)) /\ IsFullOption(SubSeq(t, c + 1, n))
    BY DEF Readings
<1>2. Means(SubSeq(t, 1, e - 1)) # {}
    OBVIOUS
<1> HIDE DEF e, c
<1>3. FirstAt(t, "=") = e
    <2>1. /\ 0 \in Nat /\ e - 1 \in Nat /\ 0 <= e - 1 /\ e - 1 <= Len(t)
          /\ 0 + 1 = 1 /\ (e - 1) - 0 = e - 1 /\ \A i \in 1 .. e - 1 : 0 + i = i
        BY <1>1
    <2>2. /\ SubSeq(t, 0 + 1, e - 1) \in Seq(S) /\ Len(SubSeq(t, 0 + 1, e - 1)) = (e - 1) - 0
          /\ \A i \in 1 .. (e - 1) - 0 : SubSeq(t, 0 + 1, e - 1)[i] = t[0 + i]
        BY <2>1, PartIs
    <2>3. /\ SubSeq(t, 1, e - 1) \in Seq(S) /\ Len(SubSeq(t, 1, e - 1)) = e - 1
          /\ \A i \in 1 .. e - 1 : SubSeq(t, 1, e - 1)[i] = t[i]
        BY <2>1, <2>2
    <2>4. \A i \in 1 .. e - 1 : t[i] # "="
        BY <1>2, <2>3, IntervalTokens
    <2> QED
        BY <1>1, <2>4, FirstIs
<1>4. c > e
    <2>1. CASE c <= e
        <3>1. e + 1 \in Int /\ c \in Int /\ c < e + 1
            BY <1>1, <2>1
        <3>2. SubSeq(t, e + 1, c) = <<>>
            BY <3>1, SubSeqEmpty
        <3> QED
            BY <1>1, <3>2 DEF IsNumber
    <2> QED
        BY <1>1, <2>1
<1> DEFINE item == Item(t)
           m == n - e
<1>5. item \in Seq(S) /\ Len(item) = m /\ \A i \in 1 .. m : item[i] = t[e + i]
    <2>1. e # 0
        BY <1>1
    <2> QED
        BY <1>3, <2>1, CutsAt
<1>6. \A i \in 1 .. c - e : item[i] # ":"
    <2>1. e \in Nat /\ c \in Nat /\ e <= c /\ c <= Len(t)
        BY <1>1, <1>4
    <2>2. /\ SubSeq(t, e + 1, c) \in Seq(S) /\ Len(SubSeq(t, e + 1, c)) = c - e
          /\ \A i \in 1 .. c - e : SubSeq(t, e + 1, c)[i] = t[e + i]
        BY <2>1, PartIs
    <2>3. \A i \in 1 .. c - e : t[e + i] # ":"
        <3>1. \A i \in 1 .. c - e : \E d \in DOMAIN Digits : t[e + i] = Digits[d]
            <4> DEFINE figures == SubSeq(t, e + 1, c)
            <4>1. /\ figures \in Seq(S) /\ Len(figures) = c - e /\ IsNumber(figures)
                  /\ \A i \in 1 .. c - e : figures[i] = t[e + i]
                BY <1>1, <2>2
            <4> HIDE DEF figures
            <4>2. \A i \in 1 .. c - e : \E d \in DOMAIN Digits : figures[i] = Digits[d]
                BY <4>1, NumberText
            <4> QED
                BY <4>1, <4>2
        <3> QED
            BY <3>1, DigitIs
    <2>4. \A i \in 1 .. c - e : i \in 1 .. m
        BY <1>1
    <2> HIDE DEF item, m
    <2> QED
        BY <1>5, <2>3, <2>4
<1>7. c \in Nat /\ n \in Nat /\ c <= n /\ n <= Len(t)
    BY <1>1
<1>8. /\ SubSeq(t, c + 1, n) \in Seq(S) /\ Len(SubSeq(t, c + 1, n)) = n - c
      /\ \A i \in 1 .. n - c : SubSeq(t, c + 1, n)[i] = t[c + i]
    BY <1>7, PartIs
<1>9. LastOfCount(t) = IF FirstAt(item, ":") = 0 THEN n ELSE e + FirstAt(item, ":") - 1
    BY <1>3 DEF LastOfCount
<1> HIDE DEF item
<1>10. CASE c = n
    <2>1. \A i \in 1 .. Len(item) : item[i] # ":"
        BY <1>5, <1>6, <1>10
    <2>2. FirstAt(item, ":") = 0
        BY <1>5, <2>1, FirstIs
    <2> QED
        BY <1>3, <1>9, <1>10, <2>2 DEF e, c
<1>11. CASE c # n
    <2>1. t[c + 1] = ":"
        <3>1. PICK k \in Nat : n - c = 2 * k /\ \A i \in 1 .. k : SubSeq(t, c + 1, n)[2 * i - 1] = ":"
            <4> DEFINE rest == SubSeq(t, c + 1, n)
            <4>1. IsFullOption(rest) /\ Len(rest) = n - c /\ n - c \in Nat
                BY <1>1, <1>7, <1>8
            <4> HIDE DEF n, rest
            <4>2. PICK k \in 0 .. Len(rest) :
                      Len(rest) = 2 * k /\ \A i \in 1 .. k : rest[2 * i - 1] = ":" /\ rest[2 * i] = "full"
                BY <4>1 DEF IsFullOption
            <4>3. k \in Nat
                BY <4>1
            <4> QED
                BY <4>1, <4>2, <4>3 DEF rest
        <3>2. k >= 1
            BY <1>7, <1>11, <3>1
        <3>3. SubSeq(t, c + 1, n)[1] = ":"
            <4> DEFINE rest == SubSeq(t, c + 1, n)
            <4>1. \A i \in 1 .. k : rest[2 * i - 1] = ":"
                BY <3>1
            <4>2. 1 \in 1 .. k /\ 2 * 1 - 1 = 1
                BY <3>2
            <4> HIDE DEF rest
            <4>3. rest[1] = ":"
                BY <4>1, <4>2
            <4> QED
                BY <4>3 DEF rest
        <3>4. 1 \in 1 .. n - c
            BY <1>7, <3>1, <3>2
        <3> QED
            BY <1>8, <3>3, <3>4
    <2>2. c - e + 1 \in 1 .. m /\ e + (c - e + 1) = c + 1 /\ (c - e + 1) - 1 = c - e
        BY <1>1, <1>4, <1>11
    <2> HIDE DEF m
    <2>3. item[c - e + 1] = ":"
        BY <1>5, <2>1, <2>2
    <2>4. FirstAt(item, ":") = c - e + 1
        <3>1. c - e + 1 \in 1 .. Len(item) /\ \A i \in 1 .. (c - e + 1) - 1 : item[i] # ":"
            BY <1>5, <1>6, <2>2
        <3> QED
            BY <1>5, <2>3, <3>1, FirstIs
    <2>5. LastOfCount(t) = c
        BY <1>1, <1>4, <1>9, <2>4
    <2> QED
        BY <1>3, <2>5 DEF e, c
<1> QED
    BY <1>10, <1>11

(* What ParseRetentionPolicy makes of a text is what it means in the wider  *)
(* form, an error if it means nothing.                                      *)
LEMMA PolicyParsed ==
    ASSUME NEW S, NEW t \in Seq(S)
    PROVE  WiderMeanings(t) = IF ParseRetentionPolicy(t).ok
                              THEN {ParseRetentionPolicy(t).value} ELSE {}
<1> DEFINE e == FirstAt(t, "=")
           c == LastOfCount(t)
           item == Item(t)
           colon == FirstAt(item, ":")
           count == IF colon = 0 THEN item ELSE SubSeq(item, 1, colon - 1)
           options == IF colon = 0 THEN <<>> ELSE SubSeq(item, colon, Len(item))
           intv == SubSeq(t, 1, e - 1)
           Form == /\ e # 0
                   /\ Atoi(count).ok
                   /\ ParseInterval(intv).ok
                   /\ Len(options) % 2 = 0
                   /\ \A i \in DOMAIN options : options[i] = IF i % 2 = 1 THEN ":" ELSE "full"
           value == [interval |-> ParseInterval(intv).value, count |-> Atoi(count).value,
                     fullOnly |-> options # <<>>]
<1>1. ParseRetentionPolicy(t) = IF Form THEN Ok(value) ELSE Error(NoPolicy)
    BY DEF ParseRetentionPolicy, SelectInSeq, FirstAt, Item
<1>2. (Form => ParseRetentionPolicy(t).ok /\ ParseRetentionPolicy(t).value = value)
      /\ (~Form => ~ParseRetentionPolicy(t).ok)
    <2> HIDE DEF Form, value
    <2> QED
        BY <1>1 DEF Ok, Error
<1>3. CASE e = 0
    <2>1. WiderMeanings(t) = {}
        BY <1>3, NoReading
    <2> QED
        BY <1>2, <1>3, <2>1
<1>4. CASE e # 0
    <2>1. e \in 1 .. Len(t) /\ t[e] = "=" /\ c \in e .. Len(t) /\ Len(t) \in Nat
        <3>1. Len(t) \in Nat
            OBVIOUS
        <3>2. e \in 1 .. Len(t) /\ t[e] = "=" /\ c \in e .. Len(t)
            BY <1>4, CutsAt, Zenon
        <3> QED
            BY <3>1, <3>2
    <2>2. /\ count = SubSeq(t, e + 1, c) /\ options = SubSeq(t, c + 1, Len(t))
          /\ count \in Seq(S) /\ options \in Seq(S) /\ (options # <<>> <=> c < Len(t))
        BY <1>4, PartsAre
    <2>3. intv \in Seq(S)
        <3>1. /\ 0 \in Nat /\ e - 1 \in Nat /\ 0 <= e - 1 /\ e - 1 <= Len(t) /\ 0 + 1 = 1
            BY <2>1
        <3>2. SubSeq(t, 0 + 1, e - 1) \in Seq(S)
            BY <3>1, PartIs
        <3> QED
            BY <3>1, <3>2
    <2> HIDE DEF e, c, count, options, intv
    <2>4. Means(intv) = IF ParseInterval(intv).ok THEN {ParseInterval(intv).value} ELSE {}
        BY <2>3, IntervalParsed
    <2>5. (IsNumber(count) => Atoi(count).ok /\ Atoi(count).value = Decimal(count))
          /\ (~IsNumber(count) => ~Atoi(count).ok)
        <3>1. /\ IsNumber(count) => Atoi(count) = Ok(Decimal(count))
              /\ ~IsNumber(count) => Atoi(count) = Error(0)
            BY <2>2, AtoiDecimal
        <3> QED
            BY <3>1 DEF Ok, Error
    <2>6. IsFullOption(options) <=>
              /\ Len(options) % 2 = 0
              /\ \A i \in DOMAIN options : options[i] = IF i % 2 = 1 THEN ":" ELSE "full"
        BY <2>2, OptionForm
    <2>7. Form <=> IsNumber(count) /\ IsFullOption(options) /\ Means(intv) # {}
        BY <1>4, <2>4, <2>5, <2>6
    <2> DEFINE read == <<e, c>>
               Meant(r) == {[interval |-> n, count |-> Decimal(SubSeq(t, r[1] + 1, r[2])),
                             fullOnly |-> r[2] < Len(t)] :
                                n \in Means(SubSeq(t, 1, r[1] - 1))}
    <2>8. WiderMeanings(t) = UNION {Meant(r) : r \in Readings(t)}
        BY DEF WiderMeanings, Means, Meaning
    <2>9. IsNumber(count) /\ IsFullOption(options) <=> read \in Readings(t)
        <3>1. DOMAIN t = 1 .. Len(t) /\ read \in (DOMAIN t) \X (DOMAIN t) /\ read[1] = e /\ read[2] = c
            BY <2>1
        <3> HIDE DEF read
        <3> QED
            BY <2>1, <2>2, <3>1 DEF Readings
    <2>10. ASSUME NEW r \in Readings(t), Meant(r) # {} PROVE r = read
        <3>1. Means(SubSeq(t, 1, r[1] - 1)) # {}
            BY <2>10
        <3>2. e = r[1] /\ c = r[2]
            BY <3>1, OneReading DEF e, c
        <3>3. r \in (DOMAIN t) \X (DOMAIN t)
            BY DEF Readings
        <3> HIDE DEF Meant
        <3> QED
            BY <3>2, <3>3
    <2>11. Meant(read) = {[interval |-> n, count |-> Decimal(count), fullOnly |-> options # <<>>] :
                                n \in Means(intv)}
        BY <2>2 DEF intv
    <2> HIDE DEF Meant, read
    <2>12. CASE read \in Readings(t)
        <3>1. WiderMeanings(t) = Meant(read)
            BY <2>8, <2>10, <2>12
        <3>2. CASE Form
            <4>1. Meant(read) = {value}
                <5>1. Means(intv) = {ParseInterval(intv).value} /\ Atoi(count).value = Decimal(count)
                    BY <2>4, <2>5, <3>2
                <5> QED
                    BY <2>11, <5>1
            <4> QED
                BY <1>2, <3>1, <3>2, <4>1
        <3>3. CASE ~Form
            <4>1. Means(intv) = {}
                BY <2>7, <2>9, <2>12, <3>3
            <4>2. Meant(read) = {}
                BY <2>11, <4>1
            <4> QED
                BY <1>2, <3>1, <3>3, <4>2
        <3> QED
            BY <3>2, <3>3
    <2>13. CASE read \notin Readings(t)
        <3>1. WiderMeanings(t) = {}
            BY <2>8, <2>10, <2>13
        <3>2. ~Form
            BY <2>7, <2>9, <2>13
        <3> QED
            BY <1>2, <3>1, <3>2
    <2> QED
        BY <2>12, <2>13
<1> QED
    BY <1>3, <1>4

(* The length of an hour matters to a text in hours only.                   *)
LEMMA HourlessInterval ==
    ASSUME NEW S, NEW t \in Seq(S), ~NamesHours(t)
    PROVE  IntervalMeanings(t, 60) \subseteq IntervalMeanings(t, 3600)
<1>1. \A i \in 1 .. Len(t) : t[i] # "h" /\ t[i] # "hourly"
    BY DEF NamesHours
<1>2. ASSUME NEW u \in UnitLengths(60), IsNumber(Front(t)), Last(t) = u[1]
      PROVE  u \in UnitLengths(3600)
    <2>1. t # <<>>
        <3>1. SUFFICES ASSUME t = <<>> PROVE FALSE
            OBVIOUS
        <3>2. Front(t) = <<>>
            BY <3>1 DEF Front
        <3> QED
            BY <1>2, <3>2 DEF IsNumber
    <2>2. Len(t) \in 1 .. Len(t)
        BY <2>1
    <2>3. u[1] # "h"
        BY <1>1, <1>2, <2>2 DEF Last
    <2> QED
        BY <2>3 DEF UnitLengths
<1>3. ASSUME NEW a \in AliasLengths(60), t = <<a[1]>>
      PROVE  a \in AliasLengths(3600)
    <2>1. 1 \in 1 .. Len(t) /\ t[1] = a[1]
        BY <1>3
    <2>2. a[1] # "hourly"
        BY <1>1, <2>1
    <2> QED
        BY <2>2 DEF AliasLengths
<1> QED
    BY <1>2, <1>3 DEF IntervalMeanings

(* What a documented text means, it means in the wider form.                *)
LEMMA DocumentedIsWider ==
    ASSUME NEW S, NEW t \in Seq(S), NEW hour, hour = 3600 \/ (hour = 60 /\ ~NamesHours(t)),
           NEW p \in DocumentedMeanings(t, hour)
    PROVE  p \in WiderMeanings(t)
<1>1. PICK r \in Readings(t) :
          \E n \in IntervalMeanings(SubSeq(t, 1, r[1] - 1), hour) : p = Meaning(t, r, n)
    BY DEF DocumentedMeanings
<1> DEFINE e == r[1]
<1>2. e \in 1 .. Len(t)
    BY DEF Readings
<1> HIDE DEF e
<1>3. /\ 0 \in Nat /\ e - 1 \in Nat /\ 0 <= e - 1 /\ e - 1 <= Len(t)
      /\ 0 + 1 = 1 /\ (e - 1) - 0 = e - 1 /\ \A i \in 1 .. e - 1 : 0 + i = i /\ i \in 1 .. Len(t)
    BY <1>2
<1>4. /\ SubSeq(t, 0 + 1, e - 1) \in Seq(S) /\ Len(SubSeq(t, 0 + 1, e - 1)) = (e - 1) - 0
      /\ \A i \in 1 .. (e - 1) - 0 : SubSeq(t, 0 + 1, e - 1)[i] = t[0 + i]
    BY <1>3, PartIs
<1> DEFINE part == SubSeq(t, 1, e - 1)
<1>5. part \in Seq(S) /\ Len(part) = e - 1 /\ \A i \in 1 .. e - 1 : part[i] = t[i]
    BY <1>3, <1>4
<1> HIDE DEF part
<1>6. IntervalMeanings(part, hour) \subseteq IntervalMeanings(part, 3600)
    <2>1. CASE hour = 3600
        BY <2>1
    <2>2. CASE hour = 60 /\ ~NamesHours(t)
        <3>1. DOMAIN part = 1 .. e - 1 /\ DOMAIN t = 1 .. Len(t)
            BY <1>5
        <3>2. ~NamesHours(part)
            BY <1>3, <1>5, <2>2, <3>1 DEF NamesHours
        <3> QED
            BY <1>5, <2>2, <3>2, HourlessInterval
    <2> QED
        BY <2>1, <2>2
<1>7. \E n \in IntervalMeanings(part, 3600) : p = Meaning(t, r, n)
    BY <1>1, <1>6 DEF part, e
<1> QED
    BY <1>7 DEF WiderMeanings, part, e

(* For any tokens and any text of them: a text of the documented form, with *)
(* an hour of 3600 seconds, is parsed to the policy it means; all others    *)
(* but those with an interval of zero or a repeated option are errors       *)
(* (lib/retention.go ParseRetentionPolicy, ParseInterval).                  *)
THEOREM PoliciesParsed == Spec => []ParsesPolicies
<1> DEFINE Typed == \E S : text \in Seq(S)
<1>1. Init => Typed
    <2>1. \A s \in BoundedSeq(Tokens, MaxTokens) : s \in Seq(Tokens)
        BY DEF BoundedSeq, SeqOf
    <2>2. <<>> \in Seq(Tokens)
        OBVIOUS
    <2> QED
        BY <2>1, <2>2 DEF Init
<1>2. Typed /\ [Next]_vars => Typed'
    BY DEF Next, Prune, Parse, vars
<1>3. Typed => ParsesPolicies
    <2>1. SUFFICES ASSUME NEW S, text \in Seq(S) PROVE ParsesPolicies
        OBVIOUS
    <2> DEFINE parsed == ParseRetentionPolicy(text)
    <2>2. WiderMeanings(text) = IF parsed.ok THEN {parsed.value} ELSE {}
        BY <2>1, PolicyParsed
    <2>3. parsed.ok => parsed = Ok(parsed.value)
        BY DEF ParseRetentionPolicy, Ok, Error
    <2> HIDE DEF parsed
    <2>4. \A p \in WiderMeanings(text) : parsed = Ok(p)
        BY <2>2, <2>3
    <2>5. \A p \in DocumentedMeanings(text, 3600) : p \in WiderMeanings(text)
        BY <2>1, DocumentedIsWider
    <2>6. \A p \in DocumentedMeanings(text, 60) : p \in WiderMeanings(text) \/ NamesHours(text)
        BY <2>1, DocumentedIsWider
    <2> QED
        BY <2>2, <2>4, <2>5, <2>6 DEF ParsesPolicies, parsed
<1> QED
    BY <1>1, <1>2, <1>3, PTL DEF Spec
=============================================================================

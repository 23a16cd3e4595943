------------------------------ MODULE Retention ------------------------------
(***************************************************************************)
(* What uback keeps and what it prunes (lib/retention.go, lib/utils.go).    *)
(*                                                                         *)
(* A snapshot is named after the instant it was taken, and names compare    *)
(* like instants, so a snapshot IS its time: a positive natural.  A backup  *)
(* pairs a snapshot with the snapshot it is incremental from; the nil base  *)
(* of a full backup is NoBase.  Backups of one destination have distinct    *)
(* names, and a base is older than the snapshot built on it: two backups    *)
(* are never taken in the same millisecond, and ReuseSnapshots is unset or  *)
(* shorter than the time between two backups (module Reuse).                *)
(***************************************************************************)
EXTENDS Integers, Sequences, FiniteSets, SequencesExt

NoBase == 0

Snapshot == Nat \ {NoBase}

Backup == [snap : Snapshot, base : Nat]

IsFull(b) == b.base = NoBase

RetentionPolicy == [interval : Nat, count : Nat, fullOnly : BOOLEAN]

-----------------------------------------------------------------------------
(* Listings, sorted from the most recent to the least recent.               *)

(* Mutant: the comparator is the other way round.                           *)
OldestFirst(backups) ==
    LET Older(b) == {c \in backups : c.snap < b.snap}
    IN  [i \in 1 .. Cardinality(backups) |->
            CHOOSE b \in backups : Cardinality(Older(b)) = i - 1]

Newer(b, backups) == {c \in backups : c.snap > b.snap}

SortedListBackups(backups) ==
    [i \in 1 .. Cardinality(backups) |->
        CHOOSE b \in backups : Cardinality(Newer(b, backups)) = i - 1]

(* Archives are policy subjects too, and a snapshot always counts as full.  *)
SortedListArchives(archives) ==
    SortedListBackups([snap : archives, base : {NoBase}])

(* Mutant: the new backup is put last.                                      *)
NewBackupLast(new, order) == Append(order, new)

(* The backup command prunes the listing it made at its start with the      *)
(* backup it has just made in front, whatever the time of that one.         *)
NewBackupFirst(new, order) == <<new>> \o order

-----------------------------------------------------------------------------
(* Dependency chains.                                                       *)

BaseClosed(chain) ==
    \A b \in chain : IsFull(b) \/ \E base \in chain : base.snap = b.base

(* Mutant: only the direct base is looked for.                              *)
RestorableByDirectBase(b, backups) ==
    IsFull(b) \/ \E base \in backups : base.snap = b.base

(* GetFullChain says ok: following bases from b bottoms out at a full       *)
(* backup without leaving the indexed backups.                              *)
Restorable(b, backups) ==
    \E chain \in SUBSET backups : b \in chain /\ BaseClosed(chain)

(* Mutant: the chain stops at the direct base.                              *)
DirectChain(b, backups) == {c \in backups : c = b \/ c.snap = b.base}

(* The chain GetFullChain walks: what every set that can restore b holds.   *)
GetFullChain(b, backups) ==
    {c \in backups : \A chain \in SUBSET backups :
                         b \in chain /\ BaseClosed(chain) => c \in chain}

-----------------------------------------------------------------------------
(* One policy's scan: the first eligible subject is retained, then each one *)
(* at least 90% of the interval older than the last retained one, until     *)
(* count are retained.                                                      *)

(* Mutants: the count is off by one; the first subject is not special.      *)
MayRetainOneMore(policy, acc, subject) ==
    /\ acc.count <= policy.count
    /\ policy.fullOnly => IsFull(subject)
    /\ acc.count = 0 \/ 10 * (acc.last - subject.snap) >= 9 * policy.interval

MayRetainOnlySpaced(policy, acc, subject) ==
    /\ acc.count < policy.count
    /\ policy.fullOnly => IsFull(subject)
    /\ 10 * (acc.last - subject.snap) >= 9 * policy.interval

MayRetain(policy, acc, subject) ==
    /\ acc.count < policy.count
    /\ policy.fullOnly => IsFull(subject)
    /\ acc.count = 0 \/ 10 * (acc.last - subject.snap) >= 9 * policy.interval

NothingRetained == [names |-> {}, last |-> 0, count |-> 0]

Visit(policy, acc, subject) ==
    IF MayRetain(policy, acc, subject)
    THEN [names |-> acc.names \cup {subject.snap},
          last  |-> subject.snap,
          count |-> acc.count + 1]
    ELSE acc

RetainedBy(policy, subjects) ==
    LET scan[k \in 0 .. Len(subjects)] ==
            IF k = 0 THEN NothingRetained
            ELSE Visit(policy, scan[k - 1], subjects[k])
    IN  scan[Len(subjects)].names

(* R is what a greedy choice from the newest subject down makes of the      *)
(* eligible ones, E: a subject is in R exactly when fewer than count newer  *)
(* ones are and the closest of them is at least 90% of the interval away.   *)
(* This is the reference that the scan is compared with.                    *)
Greedy(policy, E, R) ==
    \A t \in E :
        LET newer == {u \in R : u > t}
        IN  t \in R <=> /\ Cardinality(newer) < policy.count
                        /\ \A u \in newer : 10 * (u - t) >= 9 * policy.interval

Eligible(policy, backups) ==
    {b.snap : b \in {c \in backups : policy.fullOnly => IsFull(c)}}

(* Names of the subjects that at least one policy retains.                  *)
ApplyRetentionPolicies(policies, subjects) ==
    UNION {RetainedBy(policies[i], subjects) : i \in DOMAIN policies}

(* The subjects: the backups that have their chain, in the order listed.    *)
Restorables(order, backups) ==
    LET among[k \in 0 .. Len(order)] ==
            IF k = 0 THEN <<>>
            ELSE IF Restorable(order[k], backups) THEN Append(among[k - 1], order[k])
            ELSE among[k - 1]
    IN  among[Len(order)]

(* Mutant: retained backups are kept without their chains.                  *)
GetPrunedBackupsChainless(backups, order, policies) ==
    IF policies = <<>> THEN {}
    ELSE {b \in backups :
             b.snap \notin ApplyRetentionPolicies(policies, Restorables(order, backups))}

(* The set of backups a destination may drop.  `order' is the slice the     *)
(* caller passes, whose elements are `backups'; without a policy everything *)
(* stays.                                                                   *)
GetPrunedBackups(backups, order, policies) ==
    LET retained == ApplyRetentionPolicies(policies, Restorables(order, backups))
        fronts   == {b \in backups : Restorable(b, backups) /\ b.snap \in retained}
        chained  == UNION {GetFullChain(b, backups) : b \in fronts}
        names    == {b.snap : b \in chained}
    IN  IF policies = <<>> THEN {} ELSE {b \in backups : b.snap \notin names}

(* Mutants: a recorded bookmark goes when an archive of that name stands in *)
(* for it, and the other way round; no archive is ever removed.             *)
GetPrunedSnapshotsCovered(archives, bookmarks, policies, state) ==
    LET retained == ApplyRetentionPolicies(policies, SortedListArchives(archives))
    IN  [archives  |-> archives \ (retained \cup (state \ bookmarks)),
         bookmarks |-> bookmarks \ (state \ archives)]

GetPrunedSnapshotsKeepAll(archives, bookmarks, policies, state) ==
    [archives |-> {}, bookmarks |-> bookmarks \ state]

(* The archives and bookmarks a source may drop; `state' holds the          *)
(* snapshots recorded in the state file.  A recorded archive survives       *)
(* unless a bookmark of the same name covers it.                            *)
GetPrunedSnapshots(archives, bookmarks, policies, state) ==
    LET retained == ApplyRetentionPolicies(policies, SortedListArchives(archives))
    IN  [archives  |-> archives \ (retained \cup (state \ bookmarks)),
         bookmarks |-> bookmarks \ state]
=============================================================================

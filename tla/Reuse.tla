-------------------------------- MODULE Reuse --------------------------------
(***************************************************************************)
(* ReuseSnapshots (sources/btrfs.go, sources/zfs.go): a backup to another   *)
(* destination sends the snapshot an earlier one has just taken.  One       *)
(* source, several destinations, one backup command at a time, which may be *)
(* killed at any point; BackupCycle has commands that overlap, without the  *)
(* option.                                                                  *)
(*                                                                         *)
(* While it is sent, a btrfs snapshot has a _tmp- name, also one that is    *)
(* sent again: under its own name nobody finds it until finalize has        *)
(* renamed it back.  The state file is one step here, and each prune        *)
(* removes some of what it may remove, as if the rest failed or a kill came *)
(* first.                                                                   *)
(***************************************************************************)
EXTENDS Retention

CONSTANTS
    Sources,         \* the configurations the source may have
    Dests,
    ReuseInterval,   \* the option, in seconds, 0 when it is not set
    Spacing,         \* time between two backups to the same destination
    SourcePolicies,
    DestPolicies,
    MaxTime          \* the clock stops here: a bound, not code

SourceConfig == [kind : {"btrfs", "zfs"}, useBookmarks : BOOLEAN]

ASSUME ReuseAssumption ==
    /\ Sources \subseteq SourceConfig
    /\ ReuseInterval \in Nat
    /\ Spacing \in Nat
    /\ SourcePolicies \in Seq(RetentionPolicy)
    /\ DestPolicies \in [Dests -> Seq(RetentionPolicy)]
    /\ MaxTime \in Nat

VARIABLES
    source,      \* its configuration, chosen once
    archives,    \* snapshots under their own names
    bookmarks,   \* zfs
    tmps,        \* btrfs: snapshots under _tmp- names
    clock,       \* time.Now()
    last,        \* when the latest backup to each destination was created, 0: never
    store,       \* the backups each destination lists
    short,       \* those of them that do not hold all of their stream, and why
    state,       \* what the state file records for each destination
    (* locals of the backup command *)
    pc,
    target,
    current,     \* the backup being made; before, its snapshot is NoBase
    reused,
    sent         \* how the sending command ended

vars == <<source, archives, bookmarks, tmps, clock, last, store, short, state,
          pc, target, current, reused, sent>>

snapshots == <<archives, bookmarks, tmps>>

PCs == {"idle", "create", "bookmark", "send", "finalize", "commit", "record",
        "pruneSource", "pruneDest"}

(* A send fails because it does not find its base, or breaks off.           *)
Sent == {"ok", "baseless", "broken"}

Short == [backup : Backup, baseless : BOOLEAN, again : BOOLEAN]

TypeOK ==
    /\ source \in SourceConfig
    /\ archives \subseteq Snapshot
    /\ bookmarks \subseteq Snapshot
    /\ tmps \subseteq Snapshot
    /\ clock \in Snapshot
    /\ last \in [Dests -> Nat]
    /\ store \in [Dests -> SUBSET Backup]
    /\ short \in [Dests -> SUBSET Short]
    /\ state \in [Dests -> Nat]
    /\ pc \in PCs
    /\ target \in Dests
    /\ current \in [snap : Nat, base : Nat]
    /\ pc \notin {"idle", "create"} => current \in Backup
    /\ reused \in BOOLEAN
    /\ sent \in Sent

Init ==
    /\ source \in Sources
    /\ archives = {} /\ bookmarks = {} /\ tmps = {}
    /\ clock = 1
    /\ last = [d \in Dests |-> 0]
    /\ store = [d \in Dests |-> {}]
    /\ short = [d \in Dests |-> {}]
    /\ state = [d \in Dests |-> NoBase]
    /\ pc = "idle"
    /\ target \in Dests
    /\ current = [snap |-> NoBase, base |-> NoBase]
    /\ reused = FALSE
    /\ sent = "ok"

Recorded == {state[d] : d \in Dests} \ {NoBase}

Newest(s, S) == s \in S /\ \A t \in S : t <= s

Exit == pc' = "idle" /\ UNCHANGED <<target, current, reused, sent>>

Tick ==
    /\ clock < MaxTime
    /\ clock' = clock + 1
    /\ UNCHANGED <<source, snapshots, last, store, short, state, pc, target,
                   current, reused, sent>>

(* A kill, or logrus.Fatal after a call that failed.                        *)
Abort ==
    /\ pc # "idle"
    /\ Exit
    /\ UNCHANGED <<source, snapshots, clock, last, store, short, state>>

-----------------------------------------------------------------------------
(* Mutant: the base is the most recent backup, on the source or not.        *)
StartBackupUnchecked(d) ==
    /\ pc = "idle"
    /\ last[d] # 0 => clock - last[d] >= Spacing
    /\ \E full \in BOOLEAN, s \in {NoBase} \cup {b.snap : b \in store[d]} :
           /\ LET common == {b.snap : b \in store[d]}
              IN  IF full \/ common = {} THEN s = NoBase ELSE Newest(s, common)
           /\ current' = [snap |-> NoBase, base |-> s]
    /\ target' = d
    /\ pc' = "create"
    /\ UNCHANGED <<source, snapshots, clock, last, store, short, state, reused, sent>>

(* The base is the most recent backup whose snapshot the source still has,  *)
(* unless there is none, or a full backup is asked for or due.              *)
StartBackup(d) ==
    /\ pc = "idle"
    /\ last[d] # 0 => clock - last[d] >= Spacing
    /\ \E full \in BOOLEAN, s \in {NoBase} \cup {b.snap : b \in store[d]} :
           /\ LET common == {b.snap : b \in store[d]} \cap (archives \cup bookmarks)
              IN  IF full \/ common = {} THEN s = NoBase ELSE Newest(s, common)
           /\ current' = [snap |-> NoBase, base |-> s]
    /\ target' = d
    /\ pc' = "create"
    /\ UNCHANGED <<source, snapshots, clock, last, store, short, state, reused, sent>>

(* Mutant: the most recent snapshot is reused whatever its age.             *)
ReusesAnyAge(s) ==
    /\ ReuseInterval # 0
    /\ Newest(s, archives)

(* Mutant: the interval is one second too long.                             *)
ReusesLonger(s) ==
    /\ ReuseInterval # 0
    /\ Newest(s, archives)
    /\ clock - s <= ReuseInterval + 1

Reuses(s) ==
    /\ ReuseInterval # 0
    /\ Newest(s, archives)
    /\ clock - s <= ReuseInterval

(* Mutant: the backup does not get the name of the snapshot it reuses.      *)
CreateReusingUnnamed ==
    /\ pc = "create"
    /\ \E s \in archives :
           /\ Reuses(s)
           /\ IF source.kind = "btrfs"
              THEN archives' = archives \ {s} /\ tmps' = tmps \cup {s}
              ELSE UNCHANGED <<archives, tmps>>
    /\ reused' = TRUE
    /\ last' = [last EXCEPT ![target] = clock]
    /\ pc' = "send"
    /\ UNCHANGED <<source, bookmarks, clock, store, short, state, target, current, sent>>

(* btrfs gives the snapshot its temporary name again.                       *)
CreateReusing ==
    /\ pc = "create"
    /\ \E s \in archives :
           /\ Reuses(s)
           /\ current' = [current EXCEPT !.snap = s]
           /\ IF source.kind = "btrfs"
              THEN archives' = archives \ {s} /\ tmps' = tmps \cup {s}
              ELSE UNCHANGED <<archives, tmps>>
    /\ reused' = TRUE
    /\ last' = [last EXCEPT ![target] = clock]
    /\ pc' = "send"
    /\ UNCHANGED <<source, bookmarks, clock, store, short, state, target, sent>>

CreateNew ==
    /\ pc = "create"
    /\ ~ \E s \in archives : Reuses(s)
    /\ clock < MaxTime
    /\ clock' = clock + 1
    /\ current' = [current EXCEPT !.snap = clock]
    /\ IF source.kind = "btrfs"
       THEN tmps' = tmps \cup {clock} /\ UNCHANGED archives
       ELSE archives' = archives \cup {clock} /\ UNCHANGED tmps
    /\ reused' = FALSE
    /\ last' = [last EXCEPT ![target] = clock]
    /\ pc' = IF source.kind = "zfs" /\ source.useBookmarks THEN "bookmark" ELSE "send"
    /\ UNCHANGED <<source, bookmarks, store, short, state, target, sent>>

BookmarkNew ==
    /\ pc = "bookmark"
    /\ bookmarks' = bookmarks \cup {current.snap}
    /\ pc' = "send"
    /\ UNCHANGED <<source, archives, tmps, clock, last, store, short, state,
                   target, current, reused, sent>>

(* Where the sending command finds its base: btrfs under its own name, zfs  *)
(* if it is older than what is sent.                                        *)
FindsBase ==
    \/ IsFull(current)
    \/ source.kind = "btrfs" /\ current.base \in archives
    \/ /\ source.kind = "zfs"
       /\ current.base \in IF source.useBookmarks THEN bookmarks ELSE archives
       /\ current.base < current.snap

Send ==
    /\ pc = "send"
    /\ sent' \in IF FindsBase THEN {"ok", "broken"} ELSE {"baseless"}
    /\ pc' = "finalize"
    /\ UNCHANGED <<source, snapshots, clock, last, store, short, state, target,
                   current, reused>>

(* Mutant: the temporary name of a snapshot sent again is cleaned up.       *)
FinalizeDeletes ==
    /\ pc = "finalize"
    /\ tmps' = tmps \ {current.snap}
    /\ archives' = IF source.kind = "btrfs" /\ sent = "ok" /\ ~reused
                   THEN archives \cup {current.snap} ELSE archives
    /\ IF sent = "ok" \/ (source.kind = "btrfs" /\ reused)
       THEN pc' = "commit" /\ UNCHANGED <<target, current, reused, sent>>
       ELSE Exit
    /\ UNCHANGED <<source, bookmarks, clock, last, store, short, state>>

(* A failed send is an error, and a snapshot that was taken for it goes;    *)
(* but after one of a reused btrfs snapshot all that counts is the renaming.*)
Finalize ==
    /\ pc = "finalize"
    /\ tmps' = tmps \ {current.snap}
    /\ archives' = IF source.kind = "btrfs" /\ (sent = "ok" \/ reused)
                   THEN archives \cup {current.snap} ELSE archives
    /\ IF sent = "ok" \/ (source.kind = "btrfs" /\ reused)
       THEN pc' = "commit" /\ UNCHANGED <<target, current, reused, sent>>
       ELSE Exit
    /\ UNCHANGED <<source, bookmarks, clock, last, store, short, state>>

-----------------------------------------------------------------------------
(* A backup of the same name is overwritten.                                *)
Commit ==
    /\ pc = "commit"
    /\ store' = [store EXCEPT ![target] = @ \cup {current}]
    /\ short' = [short EXCEPT ![target] =
                     {x \in @ : x.backup # current} \cup
                     IF sent = "ok" THEN {}
                     ELSE {[backup |-> current, baseless |-> sent = "baseless", again |-> reused]}]
    /\ pc' = "record"
    /\ UNCHANGED <<source, snapshots, clock, last, state, target, current, reused, sent>>

Record ==
    /\ pc = "record"
    /\ state' = [state EXCEPT ![target] = current.snap]
    /\ pc' = "pruneSource"
    /\ UNCHANGED <<source, snapshots, clock, last, store, short, target, current,
                   reused, sent>>

PruneSource ==
    /\ pc = "pruneSource"
    /\ LET doomed == GetPrunedSnapshots(archives, bookmarks, SourcePolicies, Recorded)
       IN  \E A \in SUBSET doomed.archives, K \in SUBSET doomed.bookmarks :
               archives' = archives \ A /\ bookmarks' = bookmarks \ K
    /\ pc' = "pruneDest"
    /\ UNCHANGED <<source, tmps, clock, last, store, short, state, target,
                   current, reused, sent>>

(* The backups are removed from the most recent down.  The step is never    *)
(* taken if a backup is its own base: then GetFullChain does not return.    *)
PruneDest ==
    /\ pc = "pruneDest"
    /\ \A b \in store[target] : b.base # b.snap
    /\ LET doomed == GetPrunedBackups(store[target], SortedListBackups(store[target]),
                                      DestPolicies[target])
       IN  \E t \in 0 .. MaxTime :
               store' = [store EXCEPT ![target] = {b \in @ : b \in doomed => b.snap < t}]
    /\ short' = [short EXCEPT ![target] = {x \in @ : x.backup \in store'[target]}]
    /\ Exit
    /\ UNCHANGED <<source, snapshots, clock, last, state>>

-----------------------------------------------------------------------------
Create == CreateReusing \/ CreateNew

Next ==
    \/ Tick \/ Abort
    \/ \E d \in Dests : StartBackup(d)
    \/ Create \/ BookmarkNew \/ Send \/ Finalize
    \/ Commit \/ Record \/ PruneSource \/ PruneDest

Spec == Init /\ [][Next]_vars

-----------------------------------------------------------------------------
(* Properties, for a Spacing greater than ReuseInterval, as the docs want.  *)

(* A backup's base is older than its snapshot: no reused snapshot is sent   *)
(* on top of itself, which would make GetFullChain, hence every later       *)
(* command on that destination, loop for ever (lib/utils.go GetFullChain).  *)
ChainsEnd ==
    \A d \in Dests : \A b \in store[d] : b.base < b.snap

(* No destination has two backups of one snapshot, of which an index by     *)
(* name would know only one (lib/utils.go MakeIndex).                       *)
DistinctNames ==
    \A d \in Dests : \A b, c \in store[d] : b.snap = c.snap => b = c

(* A listed backup holds all of its stream, or is a btrfs snapshot sent     *)
(* again whose send broke off although its base was there: a snapshot just  *)
(* taken is never listed after a failure, and one sent again never fails    *)
(* for want of its base, of which nobody would hear (sources/btrfs.go       *)
(* CreateBackup).                                                           *)
OnlyBrokenSendsListed ==
    \A d \in Dests : \A x \in short[d] : source.kind = "btrfs" /\ x.again /\ ~x.baseless

(* doc/tutorial.md: what StateFile records is the latest successful backup  *)
(* present on each destination, hence one that holds all of its stream.     *)
RecordedSucceeded ==
    \A d \in Dests : \A x \in short[d] : x.backup.snap # state[d]

(* A snapshot the state file records is never deleted: at worst, after a    *)
(* kill in mid-reuse, it is stuck under its _tmp- name.                     *)
RecordedNotLost == Recorded \subseteq archives \cup bookmarks \cup tmps
=============================================================================

------------------------- MODULE BackupCycleProofs -------------------------
(***************************************************************************)
(* Theorems about BackupCycle, for every set of processes, destinations,    *)
(* policies and every kind of source.                                       *)
(***************************************************************************)
EXTENDS BackupCycle, RetentionProofs

-----------------------------------------------------------------------------
(* Type correctness.                                                        *)

(* What is pruned is among what was listed.                                 *)
LEMMA PrunedType ==
    /\ \A backups, order, policies :
           GetPrunedBackups(backups, order, policies) \subseteq backups
    /\ \A archived, bookmarked, policies, names :
           /\ GetPrunedSnapshots(archived, bookmarked, policies, names).archives
                  \subseteq archived
           /\ GetPrunedSnapshots(archived, bookmarked, policies, names).bookmarks
                  \subseteq bookmarked
BY DEF GetPrunedBackups, GetPrunedSnapshots

(* The source's steps keep its types.                                       *)
LEMMA SourceType ==
    ASSUME SourceTypeOK, NEW s \in Snapshot, NEW b, NEW e, NEW removed \in BOOLEAN,
           \/ CreateBackup(s, b, e) \/ BookmarkZfs(s) \/ OpenBase(b) \/ Finalize(s)
           \/ RemoveArchive(s, removed) \/ RemoveBookmark(s, removed)
           \/ UNCHANGED sourceVars
    PROVE  SourceTypeOK'
BY DEF SourceTypeOK, CreateBackup, TarCreateBackup, MariabackupCreateBackup,
       BtrfsCreateBackup, ZfsCreateBackup, BookmarkZfs, OpenBase, Finalize,
       RemoveArchive, RemoveBookmark, sourceVars

(* The process-local variables have their types after a process is gone.    *)
LEMMA ExitType ==
    ASSUME TypeOK, NEW p \in Procs, Exit(p),
           UNCHANGED <<sourceVars, clock, store, fileVars>>
    PROVE  TypeOK'
<1> USE DEF Goto, NoBase
<1>1. \A q \in Procs : PhaseOK(q)'
    BY DEF Exit, TypeOK, PhaseOK, Choosing, Making
<1>2. QED
    BY <1>1 DEF Exit, TypeOK, SourceTypeOK, PCs, Targets, EmptyState, sourceVars, fileVars

(* Every step of a backup command keeps the types.                          *)
LEMMA BackupCommandType ==
    ASSUME TypeOK, NEW p \in Procs, BackupCommand(p)
    PROVE  TypeOK'
<1> USE DEF Goto, NoBase
<1>1. CASE \E d \in Dests : StartBackup(p, d)
    <2>1. \A q \in Procs : PhaseOK(q)'
        BY <1>1 DEF StartBackup, TypeOK, PhaseOK, Choosing, Making
    <2> QED
        BY <1>1, <2>1 DEF StartBackup, TypeOK, SourceTypeOK, PCs, Choosing, Targets,
               sourceVars, fileVars
<1>2. CASE ListBookmarks(p)
    <2>1. \A q \in Procs : PhaseOK(q)'
        BY <1>2 DEF ListBookmarks, TypeOK, PhaseOK, Choosing, Making
    <2> QED
        BY <1>2, <2>1 DEF ListBookmarks, TypeOK, SourceTypeOK, PCs, Choosing, sourceVars, fileVars
<1>3. CASE ChooseBase(p)
    <2>1. \A q \in Procs : PhaseOK(q)'
        BY <1>3 DEF ChooseBase, TypeOK, PhaseOK, Choosing, Making
    <2> QED
        BY <1>3, <2>1 DEF ChooseBase, TypeOK, SourceTypeOK, PCs, Choosing, Backup,
               Snapshot, sourceVars, fileVars
<1>4. CASE CreateBackupStep(p)
    <2>1. PICK effective \in {NoBase, base[p]} :
              /\ CreateBackup(clock, base[p], effective)
              /\ current' = [current EXCEPT ![p] = [snap |-> clock, base |-> effective]]
        BY <1>4 DEF CreateBackupStep
    <2>2. SourceTypeOK'
        BY <2>1, SourceType DEF TypeOK
    <2>3. clock' \in Snapshot
        BY <1>4 DEF CreateBackupStep, TypeOK, Snapshot
    <2>4. [snap |-> clock, base |-> effective] \in Backup
        BY <2>1 DEF TypeOK, Backup
    <2>5. current' \in [Procs -> Backup \cup {NoBackup}]
        BY <2>1, <2>4 DEF TypeOK
    <2>6. \A q \in Procs : PhaseOK(q)'
        BY <1>4, <2>1, <2>4 DEF CreateBackupStep, TypeOK, PhaseOK, Choosing, Making
    <2> QED
        BY <1>4, <2>2, <2>3, <2>5, <2>6 DEF CreateBackupStep, TypeOK, PCs, Making, fileVars
<1>5. CASE BookmarkStep(p) \/ OpenStep(p) \/ FinalizeStep(p)
    <2>1. current[p] \in Backup /\ current[p].snap \in Snapshot
        BY <1>5 DEF BookmarkStep, OpenStep, FinalizeStep, TypeOK, PhaseOK, Making, Backup
    <2>2. SourceTypeOK'
        BY <1>5, <2>1, SourceType DEF BookmarkStep, OpenStep, FinalizeStep, TypeOK
    <2>3. \A q \in Procs : PhaseOK(q)'
        BY <1>5 DEF BookmarkStep, OpenStep, FinalizeStep, locals, TypeOK, PhaseOK, Choosing, Making
    <2> QED
        BY <1>5, <2>2, <2>3 DEF BookmarkStep, OpenStep, FinalizeStep, locals, TypeOK,
               PCs, Making, fileVars
<1>6. CASE Commit(p)
    <2>1. current[p] \in Backup
        BY <1>6 DEF Commit, TypeOK, PhaseOK, Making
    <2>2. store' \in [Dests -> SUBSET Backup]
        BY <1>6, <2>1 DEF Commit, TypeOK
    <2>3. \A q \in Procs : PhaseOK(q)'
        BY <1>6 DEF Commit, locals, TypeOK, PhaseOK, Choosing, Making
    <2> QED
        BY <1>6, <2>2, <2>3 DEF Commit, locals, TypeOK, SourceTypeOK, PCs, Making,
               sourceVars, fileVars
<1>7. CASE ReadState(p)
    <2>1. current[p] \in Backup /\ current[p].snap \in Nat
        BY <1>7 DEF ReadState, TypeOK, PhaseOK, Making, Backup, Snapshot
    <2>2. memory' \in [Procs -> [Dests -> Nat]]
        BY <1>7, <2>1 DEF ReadState, TypeOK
    <2>3. \A q \in Procs : PhaseOK(q)'
        BY <1>7 DEF ReadState, TypeOK, PhaseOK, Choosing, Making
    <2> QED
        BY <1>7, <2>2, <2>3 DEF ReadState, TypeOK, SourceTypeOK, PCs, Making,
               sourceVars, fileVars
<1>8. CASE TruncateState(p) \/ WriteState(p)
    <2>1. stateFile' \in {"absent", "valid", "empty", "garbled"}
        BY <1>8 DEF TruncateState, WriteState
    <2>2. state' \in [Dests -> Nat]
        BY <1>8 DEF TruncateState, WriteState, TypeOK, EmptyState
    <2>3. \A q \in Procs : PhaseOK(q)'
        BY <1>8 DEF TruncateState, WriteState, locals, TypeOK, PhaseOK, Choosing, Making
    <2> QED
        BY <1>8, <2>1, <2>2, <2>3 DEF TruncateState, WriteState, locals, TypeOK,
               SourceTypeOK, PCs, Making, sourceVars
<1>9. CASE ListBookmarksToPrune(p)
    <2>1. \A q \in Procs : PhaseOK(q)'
        BY <1>9 DEF ListBookmarksToPrune, TypeOK, PhaseOK, Choosing, Making
    <2> QED
        BY <1>9, <2>1 DEF ListBookmarksToPrune, TypeOK, SourceTypeOK, PCs, Making,
               sourceVars, fileVars
<1>10. CASE ListArchivesToPrune(p)
    <2>1. /\ doomedA' \in [Procs -> SUBSET Snapshot]
          /\ doomedK' \in [Procs -> SUBSET Snapshot]
        BY <1>10, PrunedType DEF ListArchivesToPrune, DoomSnapshots, TypeOK, SourceTypeOK
    <2>2. \A q \in Procs : PhaseOK(q)'
        BY <1>10 DEF ListArchivesToPrune, TypeOK, PhaseOK, Choosing, Making
    <2> QED
        BY <1>10, <2>1, <2>2 DEF ListArchivesToPrune, TypeOK, SourceTypeOK, PCs,
               sourceVars, fileVars
<1>11. CASE SkipPrune(p)
    BY <1>11, ExitType DEF SkipPrune
<1>12. CASE RemoveArchiveStep(p)
    <2>1. SourceTypeOK' /\ doomedA' \in [Procs -> SUBSET Snapshot]
        BY <1>12 DEF RemoveArchiveStep, RemoveArchive, TypeOK, SourceTypeOK
    <2>2. \A q \in Procs : PhaseOK(q)'
        BY <1>12 DEF RemoveArchiveStep, TypeOK, PhaseOK
    <2> QED
        BY <1>12, <2>1, <2>2 DEF RemoveArchiveStep, TypeOK, fileVars
<1>13. CASE RemoveBookmarkStep(p)
    <2>1. SourceTypeOK' /\ doomedK' \in [Procs -> SUBSET Snapshot]
        BY <1>13 DEF RemoveBookmarkStep, RemoveBookmark, TypeOK, SourceTypeOK
    <2>2. \A q \in Procs : PhaseOK(q)'
        BY <1>13 DEF RemoveBookmarkStep, TypeOK, PhaseOK
    <2> QED
        BY <1>13, <2>1, <2>2 DEF RemoveBookmarkStep, TypeOK, fileVars
<1>14. CASE PruneBackups(p) \/ ListingFails(p)
    <2>1. current[p] \in Backup /\ target[p] \in Dests /\ DoomBackups(p)
        BY <1>14 DEF PruneBackups, ListingFails, SnapshotsPruned, TypeOK, PhaseOK, Making
    <2>2. PrunedBackups(target[p], listed[p] \cup {current[p]}) \subseteq Backup
        BY <2>1, PrunedType DEF PrunedBackups, TypeOK
    <2>3. \A q \in Procs : PhaseOK(q)'
        BY <2>1 DEF DoomBackups, TypeOK, PhaseOK, Choosing, Making
    <2> QED
        BY <2>1, <2>2, <2>3 DEF DoomBackups, TypeOK, SourceTypeOK, PCs, sourceVars, fileVars
<1>15. CASE RemoveBackup(p)
    <2>1. store' \in [Dests -> SUBSET Backup] /\ doomedB' \in [Procs -> SUBSET Backup]
        <3>1. PICK b \in doomedB[p], removed \in {TRUE, target[p] \notin Unreliable} :
                  /\ store' = [store EXCEPT ![target[p]] = IF removed THEN @ \ {b} ELSE @]
                  /\ doomedB' = [doomedB EXCEPT ![p] = @ \ {b}]
            BY <1>15 DEF RemoveBackup
        <3>2. doomedB' \in [Procs -> SUBSET Backup]
            BY <3>1 DEF TypeOK
        <3>3. store' \in [Dests -> SUBSET Backup]
            BY <3>1 DEF TypeOK
        <3> QED
            BY <3>2, <3>3
    <2>2. \A q \in Procs : PhaseOK(q)'
        BY <1>15 DEF RemoveBackup, TypeOK, PhaseOK
    <2> QED
        BY <1>15, <2>1, <2>2 DEF RemoveBackup, TypeOK, SourceTypeOK, sourceVars, fileVars
<1> QED
    BY <1>1, <1>2, <1>3, <1>4, <1>5, <1>6, <1>7, <1>8, <1>9, <1>10, <1>11, <1>12,
       <1>13, <1>14, <1>15 DEF BackupCommand

(* Every step of a prune command keeps the types.                           *)
LEMMA PruneCommandsType ==
    ASSUME TypeOK, NEW p \in Procs, PruneCommands(p)
    PROVE  TypeOK'
<1> USE DEF Goto, NoBase
<1>1. CASE \E d \in Dests : StartPruneBackups(p, d)
    <2>1. PICK d \in Dests : StartPruneBackups(p, d)
        BY <1>1
    <2>2. PrunedBackups(d, store[d]) \subseteq Backup
        BY PrunedType DEF PrunedBackups, TypeOK
    <2>3. \A q \in Procs : PhaseOK(q)'
        BY <2>1 DEF StartPruneBackups, TypeOK, PhaseOK, Choosing, Making
    <2> QED
        BY <2>1, <2>2, <2>3 DEF StartPruneBackups, TypeOK, SourceTypeOK, PCs, Targets,
               sourceVars, fileVars
<1>2. CASE StartPruneSnapshots(p)
    <2>1. \A q \in Procs : PhaseOK(q)'
        BY <1>2 DEF StartPruneSnapshots, MayStart, Idle, TypeOK, PhaseOK, Choosing, Making
    <2> QED
        BY <1>2, <2>1 DEF StartPruneSnapshots, TypeOK, SourceTypeOK, PCs, sourceVars, fileVars
<1>3. CASE ListBookmarksOfCommand(p)
    <2>1. \A q \in Procs : PhaseOK(q)'
        BY <1>3 DEF ListBookmarksOfCommand, TypeOK, PhaseOK, Choosing, Making
    <2> QED
        BY <1>3, <2>1 DEF ListBookmarksOfCommand, TypeOK, SourceTypeOK, PCs, sourceVars, fileVars
<1>4. CASE ReadStateToPrune(p)
    <2>1. /\ doomedA' \in [Procs -> SUBSET Snapshot]
          /\ doomedK' \in [Procs -> SUBSET Snapshot]
        BY <1>4, PrunedType DEF ReadStateToPrune, DoomSnapshots, TypeOK
    <2>2. \A q \in Procs : PhaseOK(q)'
        BY <1>4, CycleAssumption DEF ReadStateToPrune, TypeOK, PhaseOK, Choosing, Making
    <2> QED
        BY <1>4, <2>1, <2>2 DEF ReadStateToPrune, TypeOK, SourceTypeOK, PCs,
               sourceVars, fileVars
<1>5. CASE DryRun(p)
    BY <1>5, ExitType DEF DryRun
<1> QED
    BY <1>1, <1>2, <1>3, <1>4, <1>5 DEF PruneCommands

(* Every step keeps the types, whatever processes run.                      *)
LEMMA TypeStep == TypeOK /\ [Next]_vars => TypeOK'
<1> SUFFICES ASSUME TypeOK, [Next]_vars PROVE TypeOK'
    OBVIOUS
<1>1. CASE Tick
    <2>1. \A q \in Procs : PhaseOK(q)'
        BY <1>1 DEF Tick, locals, TypeOK, PhaseOK
    <2> QED
        BY <1>1, <2>1 DEF Tick, TypeOK, SourceTypeOK, Snapshot, NoBase, sourceVars,
               fileVars, locals
<1>2. ASSUME NEW p \in Procs, BackupCommand(p) PROVE TypeOK'
    BY <1>2, BackupCommandType
<1>3. ASSUME NEW p \in Procs, PruneCommands(p) PROVE TypeOK'
    BY <1>3, PruneCommandsType
<1>4. ASSUME NEW p \in Procs, Finish(p) \/ Abort(p) PROVE TypeOK'
    BY <1>4, ExitType DEF Finish, Abort
<1>5. CASE UNCHANGED vars
    <2>1. \A q \in Procs : PhaseOK(q)'
        BY <1>5 DEF vars, locals, TypeOK, PhaseOK
    <2> QED
        BY <1>5, <2>1 DEF vars, TypeOK, SourceTypeOK, locals, fileVars
<1> QED
    BY <1>1, <1>2, <1>3, <1>4, <1>5 DEF Next

(* TypeOK holds in every reachable state, for every constant: in            *)
(* particular a backup command never reaches its transfer, its state file   *)
(* or its prune without a destination and a named backup (cmd/backup.go).   *)
THEOREM TypeCorrect == Spec => []TypeOK
<1>1. Init => TypeOK
    <2> SUFFICES ASSUME Init PROVE TypeOK
        OBVIOUS
    <2>1. \A q \in Procs : PhaseOK(q)
        BY DEF Init, PhaseOK, Choosing, Making
    <2> QED
        BY <2>1, SourceAssumption DEF Init, SourceInit, TypeOK, SourceTypeOK, Snapshot, NoBase, Targets,
               PCs, EmptyState
<1>2. QED
    BY <1>1, TypeStep, PTL DEF Spec

-----------------------------------------------------------------------------
(* Every backup of a destination stays restorable.                          *)

(* No schedule runs two commands on one destination at the same time.       *)
SeparateRuns == \A d \in Dests : <<d, d>> \notin Overlap

(* Nor does any removal fail.                                               *)
CleanRuns == SeparateRuns /\ Unreliable \cap Dests = {}

Snaps(backups) == {b.snap : b \in backups}

Exclusive ==
    \A p, q \in Procs : p # q /\ target[p] = target[q] => target[p] \notin Dests

(* A destination's backups have distinct names from the past, are built on  *)
(* older ones, and have their bases with them if removals work there.       *)
DestOK(d) ==
    /\ \A b \in store[d] : b.snap < clock /\ b.base < b.snap
    /\ UniqueNames(store[d])
    /\ d \notin Unreliable => BaseClosed(store[d])

Sending == {"bookmark", "open", "finalize", "commit"}

Sent == {"readState", "truncate", "write", "printed", "listArchivesToPrune"}

(* What a process remembers of its destination is still so, and what it is  *)
(* about to remove is what a prune would remove now: never the base of what *)
(* it keeps.                                                                *)
HeldOK(p) ==
    /\ pc[p] \in Choosing \cup Sending => listed[p] = store[target[p]]
    /\ pc[p] = "create" => base[p] \in {NoBase} \cup Snaps(listed[p])
    /\ pc[p] \in Sending =>
           /\ current[p].snap < clock
           /\ current[p].base < current[p].snap
           /\ current[p].base \in {NoBase} \cup Snaps(listed[p])
           /\ \A b \in listed[p] : b.snap < current[p].snap
    /\ pc[p] \in Sent \/ (pc[p] = "removeSnapshots" /\ target[p] \in Dests) =>
           store[target[p]] = listed[p] \cup {current[p]}
    /\ pc[p] = "removeBackups" =>
           /\ target[p] \notin Unreliable => BaseClosed(store[target[p]] \ doomedB[p])
           /\ doomedB[p] \subseteq PrunedBackups(target[p], store[target[p]])

StoreInv ==
    /\ TypeOK
    /\ Exclusive
    /\ \A d \in Dests : DestOK(d)
    /\ \A p \in Procs : HeldOK(p)

LEMMA StoreFinite ==
    ASSUME StoreInv, NEW d \in Dests
    PROVE  store[d] \in SUBSET Backup /\ IsFiniteSet(store[d]) /\ UniqueNames(store[d])
<1>1. store[d] \in SUBSET Backup /\ UniqueNames(store[d]) /\ clock \in Nat
    BY DEF StoreInv, DestOK, TypeOK, Snapshot
<1>2. \A b \in store[d] : b.snap <= clock
    BY <1>1 DEF StoreInv, DestOK, Backup, Snapshot
<1> QED
    BY <1>1, <1>2, FinitelyMany

(* What a process holds stays true while others leave it, and its           *)
(* destination, alone.                                                      *)
LEMMA HeldStable ==
    ASSUME TypeOK, TypeOK', NEW q \in Procs, HeldOK(q), clock <= clock',
           pc'[q] = pc[q], target'[q] = target[q], listed'[q] = listed[q],
           base'[q] = base[q], current'[q] = current[q], doomedB'[q] = doomedB[q],
           target[q] \in Dests => store'[target[q]] = store[target[q]]
    PROVE  HeldOK(q)'
<1>1. clock \in Nat /\ clock' \in Nat
    BY DEF TypeOK, Snapshot
<1>2. pc[q] \in Choosing \cup Making \cup {"removeBackups"} => target[q] \in Dests
    BY DEF TypeOK, PhaseOK
<1>3. Sending \subseteq Making /\ Sent \subseteq Making
    BY DEF Sending, Sent, Making
<1>4. pc[q] \in Sending => current[q].snap \in Nat
    BY <1>3 DEF TypeOK, PhaseOK, Backup, Snapshot
<1>5. pc'[q] \in Choosing \cup Sending => listed'[q] = store'[target'[q]]
    BY <1>2, <1>3 DEF HeldOK
<1>6. pc'[q] = "create" => base'[q] \in {NoBase} \cup Snaps(listed'[q])
    BY DEF HeldOK
<1>7. pc'[q] \in Sending =>
          /\ current'[q].snap < clock'
          /\ current'[q].base < current'[q].snap
          /\ current'[q].base \in {NoBase} \cup Snaps(listed'[q])
          /\ \A b \in listed'[q] : b.snap < current'[q].snap
    BY <1>1, <1>4 DEF HeldOK
<1>8. pc'[q] \in Sent \/ (pc'[q] = "removeSnapshots" /\ target'[q] \in Dests) =>
          store'[target'[q]] = listed'[q] \cup {current'[q]}
    BY <1>2, <1>3 DEF HeldOK
<1>9. pc'[q] = "removeBackups" =>
          /\ target'[q] \notin Unreliable => BaseClosed(store'[target'[q]] \ doomedB'[q])
          /\ doomedB'[q] \subseteq PrunedBackups(target'[q], store'[target'[q]])
    BY <1>2 DEF HeldOK
<1> QED
    BY <1>5, <1>6, <1>7, <1>8, <1>9 DEF HeldOK, Snaps, BaseClosed, IsFull

(* A step of p that touches no destination keeps the invariant, once what p *)
(* holds after it is known to be true.                                      *)
LEMMA QuietStep ==
    ASSUME StoreInv, TypeOK', NEW p \in Procs, HeldOK(p)', Exclusive',
           store' = store, clock <= clock',
           \A q \in Procs \ {p} :
               /\ pc'[q] = pc[q] /\ target'[q] = target[q] /\ listed'[q] = listed[q]
               /\ base'[q] = base[q] /\ current'[q] = current[q]
               /\ doomedB'[q] = doomedB[q]
    PROVE  StoreInv'
<1>1. ASSUME NEW q \in Procs, q # p PROVE HeldOK(q)'
    BY <1>1, HeldStable DEF StoreInv
<1>2. ASSUME NEW d \in Dests PROVE DestOK(d)'
    <2>1. clock \in Nat /\ clock' \in Nat /\ store[d] \subseteq Backup
        BY DEF StoreInv, TypeOK, Snapshot
    <2>2. \A b \in store[d] : b.snap < clock'
        BY <2>1 DEF StoreInv, DestOK, Backup, Snapshot
    <2> QED
        BY <2>2 DEF StoreInv, DestOK
<1> QED
    BY <1>1, <1>2 DEF StoreInv

(* A process that is gone holds nothing.                                    *)
LEMMA ExitInv ==
    ASSUME StoreInv, TypeOK', NEW p \in Procs, Exit(p), store' = store, clock' = clock
    PROVE  StoreInv'
<1> USE DEF Goto
<1>1. clock <= clock'
    BY DEF StoreInv, TypeOK, Snapshot
<1>2. Exclusive'
    BY CycleAssumption DEF Exit, StoreInv, Exclusive, TypeOK
<1>3. HeldOK(p)'
    BY DEF Exit, HeldOK, StoreInv, TypeOK, Choosing, Sending, Sent
<1> QED
    BY <1>1, <1>2, <1>3, QuietStep DEF Exit, StoreInv, TypeOK

(* A command starts on a destination no process works on.                   *)
LEMMA FreeToStart ==
    ASSUME SeparateRuns, TypeOK, NEW p \in Procs, NEW d \in Dests, MayStart(p, d),
           NEW q \in Procs
    PROVE  target[q] # d
<1>1. CASE Idle(q)
    <2>1. PhaseOK(q)
        BY DEF TypeOK
    <2>2. target[q] = SourceTarget
        BY <1>1, <2>1 DEF PhaseOK, Idle
    <2> QED
        BY <2>2, CycleAssumption
<1>2. CASE ~Idle(q)
    BY <1>2 DEF MayStart, SeparateRuns
<1> QED
    BY <1>1, <1>2

(* Every step of a backup command keeps the invariant.                      *)
LEMMA BackupCommandInv ==
    ASSUME SeparateRuns, StoreInv, TypeOK', NEW p \in Procs, BackupCommand(p)
    PROVE  StoreInv'
<1> USE DEF Goto
<1>0. TypeOK /\ clock \in Nat /\ clock <= clock
    BY DEF StoreInv, TypeOK, Snapshot
<1>1. CASE \E d \in Dests : StartBackup(p, d)
    <2>1. PICK d \in Dests : StartBackup(p, d)
        BY <1>1
    <2>a. \A q \in Procs : target[q] # d
        BY <2>1, <1>0, FreeToStart DEF StartBackup
    <2>2. Exclusive'
        BY <2>1, <2>a, <1>0 DEF StartBackup, StoreInv, Exclusive, TypeOK
    <2>3. HeldOK(p)'
        BY <2>1, <1>0 DEF StartBackup, HeldOK, TypeOK, Choosing, Sending, Sent
    <2> QED
        BY <2>1, <2>2, <2>3, <1>0, QuietStep DEF StartBackup, TypeOK
<1>2. CASE ListBookmarks(p)
    <2>1. HeldOK(p)' /\ Exclusive'
        BY <1>2, <1>0 DEF ListBookmarks, HeldOK, StoreInv, Exclusive, TypeOK, Choosing, Sending, Sent
    <2> QED
        BY <1>2, <2>1, <1>0, QuietStep DEF ListBookmarks, TypeOK
<1>3. CASE ChooseBase(p)
    <2>1. HeldOK(p)' /\ Exclusive'
        BY <1>3, <1>0 DEF ChooseBase, HeldOK, Snaps, StoreInv, Exclusive, TypeOK, Choosing, Sending, Sent
    <2> QED
        BY <1>3, <2>1, <1>0, QuietStep DEF ChooseBase, TypeOK
<1>4. CASE CreateBackupStep(p)
    <2>1. PICK effective \in {NoBase, base[p]} :
              current' = [current EXCEPT ![p] = [snap |-> clock, base |-> effective]]
        BY <1>4 DEF CreateBackupStep
    <2>2. listed[p] = store[target[p]] /\ target[p] \in Dests
        BY <1>4 DEF CreateBackupStep, StoreInv, HeldOK, TypeOK, PhaseOK, Choosing
    <2>3. base[p] \in {NoBase} \cup Snaps(listed[p])
        BY <1>4 DEF CreateBackupStep, StoreInv, HeldOK
    <2>4. \A b \in listed[p] : b.snap < clock /\ b.snap \in Nat
        BY <2>2 DEF StoreInv, DestOK, TypeOK, Backup, Snapshot
    <2>5. effective < clock
        BY <2>3, <2>4 DEF Snaps, NoBase, StoreInv, TypeOK, Snapshot
    <2>6. clock <= clock' /\ clock < clock'
        BY <1>4, <1>0 DEF CreateBackupStep
    <2>7. HeldOK(p)'
        BY <1>4, <2>1, <2>2, <2>3, <2>4, <2>5, <2>6 DEF CreateBackupStep, HeldOK, StoreInv,
               TypeOK, Choosing, Sending, Sent
    <2>8. Exclusive'
        BY <1>4 DEF CreateBackupStep, StoreInv, Exclusive
    <2> QED
        BY <1>4, <2>6, <2>7, <2>8, QuietStep DEF CreateBackupStep, StoreInv, TypeOK
<1>5. CASE BookmarkStep(p) \/ OpenStep(p) \/ FinalizeStep(p)
    <2>1. Exclusive'
        BY <1>5 DEF BookmarkStep, OpenStep, FinalizeStep, locals, StoreInv, Exclusive
    <2>2. HeldOK(p)'
        <3>1. CASE BookmarkStep(p)
            BY <3>1, <1>0 DEF BookmarkStep, locals, HeldOK, StoreInv, TypeOK, Choosing, Sending, Sent
        <3>2. CASE OpenStep(p)
            BY <3>2, <1>0 DEF OpenStep, locals, HeldOK, StoreInv, TypeOK, Choosing, Sending, Sent
        <3>3. CASE FinalizeStep(p)
            BY <3>3, <1>0 DEF FinalizeStep, locals, HeldOK, StoreInv, TypeOK, Choosing, Sending, Sent
        <3> QED
            BY <1>5, <3>1, <3>2, <3>3
    <2> QED
        BY <1>5, <2>1, <2>2, <1>0, QuietStep DEF BookmarkStep, OpenStep, FinalizeStep, locals, TypeOK
<1>6. CASE Commit(p)
    <2>0. PICK d \in Dests : d = target[p]
        BY <1>6, <1>0 DEF Commit, TypeOK, PhaseOK, Making
    <2>1. /\ current[p] \in Backup /\ store[d] \subseteq Backup
          /\ listed[p] = store[d]
          /\ current[p].snap < clock /\ current[p].base < current[p].snap
          /\ current[p].base \in {NoBase} \cup Snaps(store[d])
          /\ \A b \in store[d] : b.snap < current[p].snap
        BY <1>6, <1>0, <2>0 DEF Commit, StoreInv, HeldOK, TypeOK, PhaseOK, Making, Sending
    <2>2. /\ store'[d] = store[d] \cup {current[p]}
          /\ \A e \in Dests : e # d => store'[e] = store[e]
        BY <1>6, <1>0, <2>0 DEF Commit, TypeOK
    <2>3. DestOK(d)'
        <3>1. \A b \in store'[d] : b.snap < clock' /\ b.base < b.snap
            BY <1>6, <2>1, <2>2 DEF Commit, StoreInv, DestOK
        <3>2. UniqueNames(store'[d])
            BY <2>1, <2>2 DEF UniqueNames, StoreInv, DestOK, Backup, Snapshot
        <3>3. d \notin Unreliable => BaseClosed(store'[d])
            BY <2>1, <2>2 DEF BaseClosed, IsFull, Snaps, StoreInv, DestOK
        <3> QED
            BY <1>6, <3>1, <3>2, <3>3 DEF Commit, locals, DestOK, UniqueNames, BaseClosed
    <2>4. ASSUME NEW e \in Dests, e # d PROVE DestOK(e)'
        BY <1>6, <2>2, <2>4 DEF Commit, StoreInv, DestOK
    <2>5. ASSUME NEW q \in Procs, q # p PROVE HeldOK(q)'
        <3>1. target[q] \in Dests => store'[target[q]] = store[target[q]]
            BY <2>0, <2>2, <2>5 DEF StoreInv, Exclusive
        <3> QED
            BY <1>6, <1>0, <2>5, <3>1, HeldStable DEF Commit, locals, StoreInv, TypeOK
    <2>6. HeldOK(p)'
        BY <1>6, <1>0, <2>0, <2>1, <2>2 DEF Commit, locals, HeldOK, TypeOK, Choosing, Sending, Sent
    <2>7. Exclusive'
        BY <1>6 DEF Commit, locals, StoreInv, Exclusive
    <2> QED
        BY <2>3, <2>4, <2>5, <2>6, <2>7 DEF StoreInv
<1>7. CASE ReadState(p)
    <2>1. Exclusive'
        BY <1>7 DEF ReadState, StoreInv, Exclusive
    <2>2. HeldOK(p)'
        BY <1>7, <1>0 DEF ReadState, HeldOK, StoreInv, TypeOK, Choosing, Sending, Sent
    <2> QED
        BY <1>7, <2>1, <2>2, <1>0, QuietStep DEF ReadState, TypeOK
<1>8. CASE TruncateState(p) \/ WriteState(p)
    <2>1. Exclusive'
        BY <1>8 DEF TruncateState, WriteState, locals, StoreInv, Exclusive
    <2>2. HeldOK(p)'
        BY <1>8, <1>0 DEF TruncateState, WriteState, locals, HeldOK, StoreInv, TypeOK,
               Choosing, Sending, Sent
    <2> QED
        BY <1>8, <2>1, <2>2, <1>0, QuietStep DEF TruncateState, WriteState, locals, TypeOK
<1>9. CASE ListBookmarksToPrune(p)
    <2>1. Exclusive'
        BY <1>9 DEF ListBookmarksToPrune, StoreInv, Exclusive
    <2>2. HeldOK(p)'
        BY <1>9, <1>0 DEF ListBookmarksToPrune, HeldOK, StoreInv, TypeOK, Choosing, Sending, Sent
    <2> QED
        BY <1>9, <2>1, <2>2, <1>0, QuietStep DEF ListBookmarksToPrune, TypeOK
<1>10. CASE ListArchivesToPrune(p)
    <2>1. Exclusive'
        BY <1>10 DEF ListArchivesToPrune, StoreInv, Exclusive
    <2>2. HeldOK(p)'
        BY <1>10, <1>0 DEF ListArchivesToPrune, HeldOK, StoreInv, TypeOK, Choosing, Sending, Sent
    <2> QED
        BY <1>10, <2>1, <2>2, <1>0, QuietStep DEF ListArchivesToPrune, TypeOK
<1>11. CASE SkipPrune(p)
    BY <1>11, ExitInv DEF SkipPrune
<1>12. CASE RemoveArchiveStep(p) \/ RemoveBookmarkStep(p)
    <2>1. Exclusive'
        BY <1>12 DEF RemoveArchiveStep, RemoveBookmarkStep, StoreInv, Exclusive
    <2>2. HeldOK(p)'
        BY <1>12, <1>0 DEF RemoveArchiveStep, RemoveBookmarkStep, HeldOK, StoreInv, TypeOK,
               Choosing, Sending, Sent
    <2> QED
        BY <1>12, <2>1, <2>2, <1>0, QuietStep DEF RemoveArchiveStep, RemoveBookmarkStep, TypeOK
<1>13. CASE PruneBackups(p) \/ ListingFails(p)
    <2> DEFINE d == target[p]
    <2>0. DoomBackups(p)
        BY <1>13 DEF PruneBackups, ListingFails
    <2>1. d \in Dests /\ store[d] = listed[p] \cup {current[p]}
        BY <1>13 DEF PruneBackups, ListingFails, SnapshotsPruned, StoreInv, HeldOK, Sent,
                     TypeOK, PhaseOK, Making
    <2>2. d \notin Unreliable => BaseClosed(store[d] \ PrunedBackups(d, store[d]))
        BY <2>1, KeptClosed DEF PrunedBackups, StoreInv, DestOK
    <2>3. HeldOK(p)'
        BY <2>0, <1>0, <2>1, <2>2 DEF DoomBackups, HeldOK, TypeOK, Choosing, Sending, Sent
    <2>4. Exclusive'
        BY <2>0 DEF DoomBackups, StoreInv, Exclusive
    <2> QED
        BY <2>0, <2>3, <2>4, <1>0, QuietStep DEF DoomBackups, TypeOK
<1>14. CASE RemoveBackup(p)
    <2>0. PICK d \in Dests : d = target[p]
        BY <1>14, <1>0 DEF RemoveBackup, TypeOK, PhaseOK
    <2>1. PICK b \in doomedB[p], removed \in {TRUE, d \notin Unreliable} :
              /\ Newest(b.snap, {c.snap : c \in doomedB[p]})
              /\ store' = [store EXCEPT ![d] = IF removed THEN @ \ {b} ELSE @]
              /\ doomedB' = [doomedB EXCEPT ![p] = @ \ {b}]
        BY <1>14, <2>0 DEF RemoveBackup
    <2>2. /\ store[d] \subseteq Backup /\ doomedB[p] \subseteq Backup
          /\ d \notin Unreliable => BaseClosed(store[d]) /\ BaseClosed(store[d] \ doomedB[p])
          /\ doomedB[p] \subseteq PrunedBackups(d, store[d])
          /\ \A c \in store[d] : c.base < c.snap
        BY <1>14, <1>0, <2>0 DEF RemoveBackup, StoreInv, HeldOK, DestOK, TypeOK
    <2>3. /\ store'[d] \in {store[d], store[d] \ {b}}
          /\ d \notin Unreliable => store'[d] = store[d] \ {b}
          /\ \A e \in Dests : e # d => store'[e] = store[e]
        <3>1. CASE removed
            <4>1. store' = [store EXCEPT ![d] = @ \ {b}]
                BY <2>1, <3>1
            <4> QED
                BY <4>1, <1>0 DEF TypeOK
        <3>2. CASE ~removed
            <4>1. store' = [store EXCEPT ![d] = @]
                BY <2>1, <3>2
            <4>2. ~(d \notin Unreliable)
                BY <2>1, <3>2, Zenon
            <4> QED
                BY <4>1, <4>2, <1>0 DEF TypeOK
        <3> QED
            BY <3>1, <3>2
    <2>4. ASSUME d \notin Unreliable PROVE BaseClosed(store'[d])
        <3> SUFFICES ASSUME NEW c \in store[d] \ {b}, ~IsFull(c)
                     PROVE  \E e \in store[d] \ {b} : e.snap = c.base
            BY <2>3, <2>4 DEF BaseClosed
        <3>1. CASE c.base # b.snap
            BY <2>2, <2>4, <3>1 DEF BaseClosed
        <3>2. CASE c.base = b.snap
            <4>1. c.snap \in Nat /\ b.snap \in Nat /\ c.base < c.snap
                BY <2>2 DEF Backup, Snapshot
            <4>2. c \notin doomedB[p]
                <5>1. \A e \in doomedB[p] : e.snap <= b.snap
                    BY <2>1 DEF Newest
                <5>2. ~(c.snap <= b.snap)
                    BY <3>2, <4>1
                <5> QED
                    BY <5>1, <5>2
            <4>3. PICK e \in store[d] \ doomedB[p] : e.snap = c.base
                BY <2>2, <2>4, <4>2 DEF BaseClosed
            <4> QED
                BY <4>3
        <3> QED
            BY <3>1, <3>2
    <2>5. DestOK(d)'
        <3>1. \A c \in store'[d] : c \in store[d]
            BY <2>3
        <3>2. \A c \in store'[d] : c.snap < clock' /\ c.base < c.snap
            BY <1>14, <3>1 DEF RemoveBackup, StoreInv, DestOK
        <3>3. UniqueNames(store'[d])
            BY <3>1 DEF StoreInv, DestOK, UniqueNames
        <3> QED
            BY <2>4, <3>2, <3>3 DEF DestOK, UniqueNames, BaseClosed, IsFull
    <2>6. ASSUME NEW e \in Dests, e # d PROVE DestOK(e)'
        BY <1>14, <2>3, <2>6 DEF RemoveBackup, StoreInv, DestOK
    <2>7. ASSUME NEW q \in Procs, q # p PROVE HeldOK(q)'
        <3>1. target[q] \in Dests => store'[target[q]] = store[target[q]]
            BY <2>0, <2>3, <2>7 DEF StoreInv, Exclusive
        <3> QED
            BY <1>14, <1>0, <2>1, <2>7, <3>1, HeldStable DEF RemoveBackup, StoreInv, TypeOK
    <2>8. HeldOK(p)'
        <3>1. doomedB'[p] = doomedB[p] \ {b}
            BY <2>1, <1>0 DEF TypeOK
        <3>2. d \notin Unreliable => store'[d] \ doomedB'[p] = store[d] \ doomedB[p]
            BY <2>1, <2>3, <3>1
        <3>3. d \notin Unreliable => BaseClosed(store'[d] \ doomedB'[p])
            BY <2>2, <3>2
        <3>4. PrunedBackups(d, store'[d]) = store'[d] \cap PrunedBackups(d, store[d])
            <4>1. DestPolicies[d] \in Seq(RetentionPolicy)
                BY CycleAssumption
            <4>2. store'[d] \in SUBSET store[d] /\ store[d] \ store'[d] \subseteq PrunedBackups(d, store[d])
                BY <2>2, <2>3
            <4>3. store[d] \in SUBSET Backup /\ IsFiniteSet(store[d]) /\ UniqueNames(store[d])
                BY StoreFinite
            <4> QED
                BY <4>1, <4>2, <4>3, PruneStable DEF PrunedBackups
        <3>5. doomedB'[p] \subseteq PrunedBackups(d, store'[d])
            <4>1. PrunedBackups(d, store[d]) \subseteq store[d]
                BY PrunedType DEF PrunedBackups
            <4> QED
                BY <2>2, <2>3, <3>1, <3>4, <4>1
        <3> QED
            BY <1>14, <2>0, <2>2, <3>3, <3>5 DEF RemoveBackup, HeldOK, Choosing, Sending, Sent
    <2>9. Exclusive'
        BY <1>14 DEF RemoveBackup, StoreInv, Exclusive
    <2> QED
        BY <2>5, <2>6, <2>7, <2>8, <2>9 DEF StoreInv
<1> QED
    BY <1>1, <1>2, <1>3, <1>4, <1>5, <1>6, <1>7, <1>8, <1>9, <1>10, <1>11, <1>12,
       <1>13, <1>14 DEF BackupCommand

(* Every step of a prune command keeps the invariant.                       *)
LEMMA PruneCommandsInv ==
    ASSUME SeparateRuns, StoreInv, TypeOK', NEW p \in Procs, PruneCommands(p)
    PROVE  StoreInv'
<1> USE DEF Goto
<1>0. TypeOK /\ clock \in Nat /\ clock <= clock
    BY DEF StoreInv, TypeOK, Snapshot
<1>1. CASE \E d \in Dests : StartPruneBackups(p, d)
    <2>1. PICK d \in Dests : StartPruneBackups(p, d)
        BY <1>1
    <2>2. \A q \in Procs : target[q] # d
        BY <2>1, <1>0, FreeToStart DEF StartPruneBackups
    <2>3. Exclusive'
        BY <2>1, <2>2, <1>0 DEF StartPruneBackups, StoreInv, Exclusive, TypeOK
    <2>4. d \notin Unreliable => BaseClosed(store[d] \ PrunedBackups(d, store[d]))
        BY KeptClosed DEF PrunedBackups, StoreInv, DestOK
    <2>5. HeldOK(p)'
        BY <2>1, <2>4, <1>0 DEF StartPruneBackups, HeldOK, TypeOK, Choosing, Sending, Sent
    <2> QED
        BY <2>1, <2>3, <2>5, <1>0, QuietStep DEF StartPruneBackups, TypeOK
<1>2. CASE StartPruneSnapshots(p) \/ ListBookmarksOfCommand(p)
    <2>1. Exclusive'
        BY <1>2 DEF StartPruneSnapshots, ListBookmarksOfCommand, StoreInv, Exclusive
    <2>2. HeldOK(p)'
        BY <1>2, <1>0 DEF StartPruneSnapshots, ListBookmarksOfCommand, HeldOK, TypeOK,
               Choosing, Sending, Sent
    <2> QED
        BY <1>2, <2>1, <2>2, <1>0, QuietStep DEF StartPruneSnapshots, ListBookmarksOfCommand, TypeOK
<1>3. CASE ReadStateToPrune(p)
    <2>1. Exclusive'
        BY <1>3 DEF ReadStateToPrune, StoreInv, Exclusive
    <2>2. target[p] \notin Dests
        BY <1>3, <1>0, CycleAssumption DEF ReadStateToPrune, TypeOK, PhaseOK
    <2>3. HeldOK(p)'
        BY <1>3, <2>2, <1>0 DEF ReadStateToPrune, HeldOK, TypeOK, Choosing, Sending, Sent
    <2> QED
        BY <1>3, <2>1, <2>3, <1>0, QuietStep DEF ReadStateToPrune, TypeOK
<1>4. CASE DryRun(p)
    BY <1>4, ExitInv DEF DryRun
<1> QED
    BY <1>1, <1>2, <1>3, <1>4 DEF PruneCommands

(* Every step keeps the invariant.                                          *)
LEMMA StoreStep ==
    ASSUME SeparateRuns
    PROVE  StoreInv /\ [Next]_vars => StoreInv'
<1> SUFFICES ASSUME StoreInv, [Next]_vars PROVE StoreInv'
    OBVIOUS
<1>0. TypeOK'
    BY TypeStep DEF StoreInv
<1>1. CASE Tick \/ UNCHANGED vars
    <2>1. clock <= clock'
        BY <1>1 DEF Tick, vars, StoreInv, TypeOK, Snapshot
    <2>2. Exclusive'
        BY <1>1 DEF Tick, vars, locals, StoreInv, Exclusive
    <2>3. ASSUME NEW q \in Procs PROVE HeldOK(q)'
        BY <1>0, <1>1, <2>1, HeldStable DEF Tick, vars, locals, StoreInv
    <2>4. ASSUME NEW d \in Dests PROVE DestOK(d)'
        <3>1. clock \in Nat /\ clock' \in Nat /\ store[d] \subseteq Backup
            BY <1>0 DEF StoreInv, TypeOK, Snapshot
        <3>2. store' = store
            BY <1>1 DEF Tick, vars
        <3>3. \A b \in store[d] : b.snap < clock'
            BY <2>1, <3>1 DEF StoreInv, DestOK, Backup, Snapshot
        <3> QED
            BY <3>2, <3>3 DEF StoreInv, DestOK
    <2> QED
        BY <1>0, <2>2, <2>3, <2>4 DEF StoreInv
<1>2. ASSUME NEW p \in Procs, BackupCommand(p) PROVE StoreInv'
    BY <1>0, <1>2, BackupCommandInv
<1>3. ASSUME NEW p \in Procs, PruneCommands(p) PROVE StoreInv'
    BY <1>0, <1>3, PruneCommandsInv
<1>4. ASSUME NEW p \in Procs, Finish(p) \/ Abort(p) PROVE StoreInv'
    BY <1>0, <1>4, ExitInv DEF Finish, Abort
<1> QED
    BY <1>1, <1>2, <1>3, <1>4 DEF Next

LEMMA StoreInit == Init => StoreInv
<1> SUFFICES ASSUME Init PROVE StoreInv
    OBVIOUS
<1>1. TypeOK
    <2>1. \A q \in Procs : PhaseOK(q)
        BY DEF Init, PhaseOK, Choosing, Making
    <2> QED
        BY <2>1, SourceAssumption DEF Init, SourceInit, TypeOK, SourceTypeOK, Snapshot, NoBase, Targets,
               PCs, EmptyState
<1>2. Exclusive
    BY CycleAssumption DEF Init, Exclusive
<1>3. \A d \in Dests : DestOK(d)
    BY DEF Init, DestOK, UniqueNames, BaseClosed
<1>4. \A p \in Procs : HeldOK(p)
    BY DEF Init, HeldOK, Choosing, Sending, Sent
<1> QED
    BY <1>1, <1>2, <1>3, <1>4 DEF StoreInv

(* For every source kind, policies, number of processes and destinations:   *)
(* when commands on one destination do not overlap, every backup of every   *)
(* destination on which removals succeed can be restored from there in      *)
(* every reachable state, crashes in mid-prune included (PruneBackups       *)
(* removes dependents before their bases and keeps whole chains).           *)
THEOREM AlwaysRestorable ==
    ASSUME SeparateRuns
    PROVE  Spec => []StoreRestorable
<1>1. StoreInv => StoreRestorable
    BY DEF StoreInv, DestOK, StoreRestorable, Restorable
<1>2. QED
    BY <1>1, StoreInit, StoreStep, PTL DEF Spec

-----------------------------------------------------------------------------
(* Nothing is removed that should now stay.                                 *)

(* Only RemoveBackup takes something from a destination.                    *)
LEMMA StoreGrows ==
    ASSUME TypeOK, NEW p \in Procs,
           BackupCommand(p) \/ PruneCommands(p) \/ Finish(p) \/ Abort(p), ~RemoveBackup(p)
    PROVE  \A d \in Dests : store[d] \subseteq store'[d]
<1>1. CASE Commit(p)
    BY <1>1 DEF Commit, TypeOK
<1>2. CASE BackupCommand(p) /\ ~Commit(p)
    BY <1>2 DEF BackupCommand, StartBackup, ListBookmarks, ChooseBase, CreateBackupStep,
                BookmarkStep, OpenStep, FinalizeStep, ReadState, TruncateState, WriteState,
                ListBookmarksToPrune, ListArchivesToPrune, ListingFails, DoomBackups, SkipPrune,
                RemoveArchiveStep, RemoveBookmarkStep, PruneBackups
<1>3. CASE PruneCommands(p) \/ Finish(p) \/ Abort(p)
    BY <1>3 DEF PruneCommands, StartPruneBackups, StartPruneSnapshots, ListBookmarksOfCommand,
                ReadStateToPrune, DryRun, Finish, Abort
<1> QED
    BY <1>1, <1>2, <1>3

Current == \A d \in Dests : store[d] \ store'[d] \subseteq PrunedBackups(d, store[d])

LEMMA CurrentStep ==
    ASSUME StoreInv, [Next]_vars
    PROVE  Current
<1>1. CASE Tick \/ UNCHANGED vars
    BY <1>1 DEF Tick, vars, Current
<1>2. ASSUME NEW p \in Procs, RemoveBackup(p) PROVE Current
    <2>1. PICK d \in Dests : d = target[p]
        BY <1>2 DEF RemoveBackup, StoreInv, TypeOK, PhaseOK
    <2>2. PICK b \in doomedB[p], removed \in {TRUE, target[p] \notin Unreliable} :
              store' = [store EXCEPT ![d] = IF removed THEN @ \ {b} ELSE @]
        BY <1>2, <2>1 DEF RemoveBackup
    <2>3. b \in PrunedBackups(d, store[d])
        BY <1>2, <2>1 DEF RemoveBackup, StoreInv, HeldOK
    <2>4. \A e \in Dests : store[e] \ store'[e] \subseteq IF e = d THEN {b} ELSE {}
        BY <2>2 DEF StoreInv, TypeOK
    <2> QED
        BY <2>3, <2>4 DEF Current
<1>3. ASSUME NEW p \in Procs, ~RemoveBackup(p),
             BackupCommand(p) \/ PruneCommands(p) \/ Finish(p) \/ Abort(p)
      PROVE  Current
    BY <1>3, StoreGrows DEF StoreInv, Current
<1> QED
    BY <1>1, <1>2, <1>3 DEF Next, BackupCommand

(* For every source, policies, processes and destinations: when commands on *)
(* one destination do not overlap, nothing leaves it that a prune of what   *)
(* is there at that moment would keep, although the decision was taken on   *)
(* an older listing, and also when removals fail (lib/retention.go          *)
(* PruneBackups, cmd/backup.go).                                            *)
THEOREM PrunesWhatIsThere ==
    ASSUME SeparateRuns
    PROVE  Spec => PruneIsCurrent
<1>1. StoreInv /\ [Next]_vars => StoreInv' /\ [Current]_vars
    BY StoreStep, CurrentStep
<1> QED
    BY <1>1, StoreInit, PTL DEF Spec, PruneIsCurrent, Current

(* Removals that are allowed now take nothing from the chain of what a      *)
(* prune would keep.                                                        *)
LEMMA KeptStay ==
    ASSUME StoreInv, Current, NEW d \in Dests,
           NEW b \in store[d] \ PrunedBackups(d, store[d]), Restorable(b, store[d])
    PROVE  b \in store'[d] /\ Restorable(b, store'[d])
<1> DEFINE kept == store[d] \ PrunedBackups(d, store[d])
<1>1. kept \subseteq store'[d]
    BY DEF Current
<1>2. CASE DestPolicies[d] = <<>>
    <2>1. store[d] \subseteq store'[d]
        BY <1>1, <1>2 DEF PrunedBackups, GetPrunedBackups
    <2>2. PICK chain \in SUBSET store[d] : b \in chain /\ BaseClosed(chain)
        BY DEF Restorable
    <2> QED
        BY <2>1, <2>2 DEF Restorable
<1>3. CASE DestPolicies[d] # <<>>
    <2>1. UniqueNames(store[d])
        BY StoreFinite
    <2>2. BaseClosed(kept)
        BY <1>3, <2>1, KeptClosed DEF PrunedBackups
    <2> QED
        BY <1>1, <2>2 DEF Restorable
<1> QED
    BY <1>2, <1>3

(* For every source, policies, processes and destinations: when commands on *)
(* one destination do not overlap, a backup that can be restored and that a *)
(* prune would keep outlives every step, and so does its chain, whichever   *)
(* removals fail and whenever a process dies (lib/retention.go              *)
(* PruneBackups).                                                           *)
THEOREM RetainedOutliveFailures ==
    ASSUME SeparateRuns
    PROVE  Spec => RetainedStayRestorable
<1> DEFINE Stay == \A d \in Dests : \A b \in store[d] \ PrunedBackups(d, store[d]) :
                      Restorable(b, store[d]) => b \in store'[d] /\ Restorable(b, store'[d])
<1>1. StoreInv /\ [Next]_vars => StoreInv' /\ [Stay]_vars
    <2>1. StoreInv /\ [Next]_vars => StoreInv' /\ Current
        BY StoreStep, CurrentStep
    <2>2. StoreInv /\ Current => Stay
        BY KeptStay
    <2> QED
        BY <2>1, <2>2
<1> QED
    BY <1>1, StoreInit, PTL DEF Spec, RetainedStayRestorable

-----------------------------------------------------------------------------
(* What the state file says of a destination.                               *)

(* Each destination keeps everything, or has a policy that counts           *)
(* incremental backups.                                                     *)
KeepsNewest ==
    \A d \in Dests :
        \/ DestPolicies[d] = <<>>
        \/ \E i \in DOMAIN DestPolicies[d] :
               DestPolicies[d][i].count > 0 /\ ~DestPolicies[d][i].fullOnly

Covered(d, s) == s # NoBase => \E b \in store[d] : b.snap >= s

(* What is recorded or about to be is covered by a backup.                  *)
CoverOK ==
    /\ \A d \in Dests : Covered(d, state[d])
    /\ \A p \in Procs : pc[p] \in {"truncate", "write"} =>
           \A d \in Dests : Covered(d, memory[p][d])

(* No step takes a destination back behind a backup it had.                 *)
LEMMA CoveredStays ==
    ASSUME CleanRuns, KeepsNewest, StoreInv, Current, NEW d \in Dests, NEW s \in Nat,
           Covered(d, s)
    PROVE  s # NoBase => \E c \in store'[d] : c.snap >= s
<1> SUFFICES ASSUME s # NoBase, NEW b \in store[d], b.snap >= s
             PROVE  \E c \in store'[d] : c.snap >= s
    BY DEF Covered
<1>1. store[d] \in SUBSET Backup /\ IsFiniteSet(store[d]) /\ UniqueNames(store[d])
    BY StoreFinite
<1>2. \A c \in store[d] : c.snap \in Nat
    BY <1>1 DEF Backup, Snapshot
<1>3. PICK m \in Snaps(store[d]) : \A t \in Snaps(store[d]) : t <= m
    <2>1. Snaps(store[d]) \subseteq Nat /\ Snaps(store[d]) # {} /\ IsFiniteSet(Snaps(store[d]))
        BY <1>1, <1>2, NamesFinite DEF Snaps
    <2> QED
        BY <2>1, GreatestElement
<1>4. PICK n \in store[d] : n.snap = m
    BY <1>3 DEF Snaps
<1>5. \A c \in store[d] : c.snap <= n.snap
    BY <1>3, <1>4 DEF Snaps
<1>6. \A c \in store[d] : Restorable(c, store[d])
    BY DEF CleanRuns, StoreInv, DestOK, Restorable
<1>7. n \notin PrunedBackups(d, store[d])
    <2>1. CASE DestPolicies[d] = <<>>
        BY <2>1 DEF PrunedBackups, GetPrunedBackups
    <2>2. CASE DestPolicies[d] # <<>>
        <3>1. PICK i \in DOMAIN DestPolicies[d] :
                  DestPolicies[d][i].count > 0 /\ ~DestPolicies[d][i].fullOnly
            BY <2>2 DEF KeepsNewest
        <3>2. DestPolicies[d] \in Seq(RetentionPolicy)
            BY CycleAssumption
        <3> QED
            BY <1>1, <1>5, <1>6, <3>1, <3>2, NewestKept DEF PrunedBackups
    <2> QED
        BY <2>1, <2>2
<1>8. n \in store'[d]
    BY <1>7 DEF Current
<1>9. n.snap >= s
    BY <1>2, <1>4, <1>5
<1> QED
    BY <1>8, <1>9

CoverInv == StoreInv /\ CoverOK

(* A step that neither writes the file nor fills a memory that is about to  *)
(* be written leaves what is covered covered.                               *)
LEMMA CoverRests ==
    ASSUME CleanRuns, KeepsNewest, CoverInv, StoreInv', Current, state' = state,
           \A p \in Procs : pc'[p] \in {"truncate", "write"} =>
               pc[p] \in {"truncate", "write"} /\ memory'[p] = memory[p]
    PROVE  CoverOK'
<1>0. state \in [Dests -> Nat] /\ memory \in [Procs -> [Dests -> Nat]]
    BY DEF CoverInv, StoreInv, TypeOK
<1>1. ASSUME NEW d \in Dests PROVE Covered(d, state[d])'
    <2>1. Covered(d, state[d])
        BY DEF CoverInv, CoverOK
    <2>2. state[d] # NoBase => \E c \in store'[d] : c.snap >= state[d]
        BY <1>0, <2>1, CoveredStays DEF CoverInv
    <2> QED
        BY <2>2 DEF Covered
<1>2. ASSUME NEW p \in Procs, pc'[p] \in {"truncate", "write"}, NEW d \in Dests
      PROVE  Covered(d, memory[p][d])'
    <2>1. Covered(d, memory[p][d]) /\ memory'[p] = memory[p]
        BY <1>2 DEF CoverInv, CoverOK
    <2>2. memory[p][d] # NoBase => \E c \in store'[d] : c.snap >= memory[p][d]
        BY <1>0, <2>1, CoveredStays DEF CoverInv
    <2> QED
        BY <2>1, <2>2 DEF Covered
<1> QED
    BY <1>1, <1>2 DEF CoverOK

LEMMA CoverStep ==
    ASSUME CleanRuns, KeepsNewest
    PROVE  CoverInv /\ [Next]_vars => CoverInv'
<1> SUFFICES ASSUME CoverInv, [Next]_vars PROVE CoverInv'
    OBVIOUS
<1>1. SeparateRuns /\ StoreInv /\ TypeOK
    BY DEF CleanRuns, CoverInv, StoreInv
<1>2. StoreInv' /\ Current
    BY <1>1, StoreStep, CurrentStep
<1> SUFFICES CoverOK'
    BY <1>2 DEF CoverInv
<1>3. CASE Tick \/ UNCHANGED vars
    <2>1. state' = state /\ pc' = pc /\ memory' = memory
        BY <1>3 DEF Tick, vars, fileVars, locals
    <2> QED
        BY <1>2, <2>1, CoverRests
<1>4. ASSUME NEW p \in Procs, ReadState(p) PROVE CoverOK'
    <2>1. PICK d \in Dests : d = target[p]
        BY <1>1, <1>4 DEF ReadState, TypeOK, PhaseOK, Making
    <2>2. current[p] \in store[d]
        BY <1>1, <1>4, <2>1 DEF ReadState, StoreInv, HeldOK, Sent
    <2>3. memory' = [memory EXCEPT ![p] = [state EXCEPT ![d] = current[p].snap]]
          /\ store' = store /\ state' = state
          /\ \A q \in Procs \ {p} : pc'[q] = pc[q]
        BY <1>1, <1>4, <2>1 DEF ReadState, fileVars, Goto, TypeOK
    <2>4. \A e \in Dests : Covered(e, memory[p][e])'
        <3>1. current[p].snap \in Nat
            BY <1>1, <2>2 DEF TypeOK, Backup, Snapshot
        <3>2. memory'[p] = [state EXCEPT ![d] = current[p].snap]
            BY <1>1, <2>3 DEF TypeOK
        <3>3. memory'[p][d] = current[p].snap /\ \A e \in Dests \ {d} : memory'[p][e] = state[e]
            BY <1>1, <3>2 DEF TypeOK
        <3>4. \E b \in store'[d] : b.snap >= current[p].snap
            BY <2>2, <2>3, <3>1
        <3>5. Covered(d, memory[p][d])'
            BY <3>3, <3>4 DEF Covered
        <3>6. ASSUME NEW e \in Dests \ {d} PROVE Covered(e, memory[p][e])'
            <4>1. Covered(e, state[e])
                BY DEF CoverInv, CoverOK
            <4> QED
                BY <2>3, <3>3, <4>1 DEF Covered
        <3> QED
            BY <3>5, <3>6
    <2>5. \A q \in Procs \ {p} : memory'[q] = memory[q]
        BY <1>1, <2>3 DEF TypeOK
    <2>6. \A e \in Dests : Covered(e, state[e])'
        BY <2>3 DEF CoverInv, CoverOK, Covered
    <2>7. ASSUME NEW q \in Procs \ {p}, pc'[q] \in {"truncate", "write"}, NEW e \in Dests
          PROVE  Covered(e, memory[q][e])'
        <3>1. Covered(e, memory[q][e])
            BY <2>3, <2>7 DEF CoverInv, CoverOK
        <3> QED
            BY <2>3, <2>5, <3>1 DEF Covered
    <2> QED
        BY <2>4, <2>6, <2>7 DEF CoverOK, Covered
<1>5. ASSUME NEW p \in Procs, TruncateState(p) \/ WriteState(p) PROVE CoverOK'
    <2>1. store' = store /\ memory' = memory /\ pc[p] \in {"truncate", "write"}
          /\ \A q \in Procs : pc'[q] \in {"truncate", "write"} => pc[q] \in {"truncate", "write"}
        BY <1>1, <1>5 DEF TruncateState, WriteState, locals, Goto, TypeOK
    <2>2. state' = EmptyState \/ state' = memory[p]
        BY <1>5 DEF TruncateState, WriteState
    <2> QED
        BY <2>1, <2>2 DEF CoverInv, CoverOK, Covered, EmptyState
<1>6. ASSUME NEW p \in Procs, Exit(p), state' = state PROVE CoverOK'
    <2>1. \A q \in Procs : pc'[q] \in {"truncate", "write"} => q # p
        BY <1>1, <1>6 DEF Exit, Goto, TypeOK
    <2>2. \A q \in Procs \ {p} : pc'[q] = pc[q] /\ memory'[q] = memory[q]
        BY <1>1, <1>6 DEF Exit, Goto, TypeOK
    <2> QED
        BY <1>2, <1>6, <2>1, <2>2, CoverRests
<1>7. ASSUME NEW p \in Procs, BackupCommand(p) \/ PruneCommands(p) \/ Finish(p) \/ Abort(p),
             ~ReadState(p), ~TruncateState(p), ~WriteState(p), ~Exit(p)
      PROVE  CoverOK'
    <2>1. /\ state' = state /\ memory' = memory
          /\ \E next \in PCs \ {"truncate", "write"} : pc' = pc \/ Goto(p, next)
        BY <1>7 DEF BackupCommand, PruneCommands, Finish, Abort, StartBackup, ListBookmarks, ChooseBase,
                CreateBackupStep, BookmarkStep, OpenStep, FinalizeStep, Commit,
                ListBookmarksToPrune, ListArchivesToPrune, ListingFails, DoomBackups, SkipPrune,
                RemoveArchiveStep, RemoveBookmarkStep, PruneBackups, RemoveBackup,
                StartPruneBackups, StartPruneSnapshots, ListBookmarksOfCommand,
                ReadStateToPrune, DryRun, fileVars, locals, PCs, Choosing, Making
    <2>2. \A q \in Procs : pc'[q] \in {"truncate", "write"} => pc[q] \in {"truncate", "write"}
        BY <1>1, <2>1 DEF Goto, TypeOK
    <2> QED
        BY <1>2, <2>1, <2>2, CoverRests
<1>8. ASSUME NEW p \in Procs, Exit(p), ~ReadState(p), ~TruncateState(p), ~WriteState(p),
             BackupCommand(p) \/ PruneCommands(p) \/ Finish(p) \/ Abort(p)
      PROVE  state' = state
    BY <1>8 DEF BackupCommand, PruneCommands, Finish, Abort, StartBackup, ListBookmarks, ChooseBase,
            CreateBackupStep, BookmarkStep, OpenStep, FinalizeStep, Commit,
            ListBookmarksToPrune, ListArchivesToPrune, ListingFails, DoomBackups, SkipPrune,
            RemoveArchiveStep, RemoveBookmarkStep, PruneBackups, RemoveBackup,
            StartPruneBackups, StartPruneSnapshots, ListBookmarksOfCommand,
            ReadStateToPrune, DryRun, fileVars
<1> QED
    BY <1>3, <1>4, <1>5, <1>6, <1>7, <1>8 DEF Next

(* For every source, policies, processes and destinations: when commands on *)
(* one destination do not overlap, removals succeed and every destination   *)
(* with policies has one that counts incremental backups, what the state    *)
(* file says of a destination is there, or something newer, with its whole  *)
(* chain; commands on different destinations may overlap and race on the    *)
(* file (cmd/backup.go, lib/retention.go PruneBackups).                     *)
THEOREM RecordedIsCovered ==
    ASSUME CleanRuns, KeepsNewest
    PROVE  Spec => []RecordedBackupPresent
<1>1. Init => CoverInv
    <2>1. Init => CoverOK
        BY DEF Init, CoverOK, Covered, EmptyState
    <2> QED
        BY <2>1, StoreInit DEF CoverInv
<1>2. CoverInv => RecordedBackupPresent
    BY DEF CleanRuns, CoverInv, CoverOK, Covered, StoreInv, DestOK, RecordedBackupPresent,
           Restorable
<1> QED
    BY <1>1, <1>2, CoverStep, PTL DEF Spec

-----------------------------------------------------------------------------
(* What the state file names stays on the source.                           *)

(* No schedule runs two commands at the same time.                          *)
SerialRuns == Overlap = {}

Present == archives \cup bookmarks

Alone == \A p, q \in Procs : ~Idle(p) /\ ~Idle(q) => p = q

(* Whatever a process is about to record is there, what it holds in memory  *)
(* covers the file, and of what is recorded it removes nothing but archives *)
(* a bookmark stands in for.                                                *)
RecordOK(p) ==
    /\ pc[p] \in {"bookmark", "open", "finalize"} /\ source.kind = "zfs" =>
           current[p].snap \in Present
    /\ pc[p] \in {"commit", "readState"} => current[p].snap \in Present
    /\ pc[p] \in {"readState", "truncate", "write"} => UseStateFile
    /\ pc[p] \in {"truncate", "write"} => Recorded(memory[p]) \subseteq Present
    /\ pc[p] \in {"printed", "listArchivesToPrune"} =>
           Recorded(state) \subseteq Recorded(memory[p])
    /\ pc[p] \in {"listArchivesToPrune", "readStateToPrune"} => marks[p] = bookmarks
    /\ doomedA[p] \cap Recorded(state) \subseteq bookmarks
    /\ doomedK[p] \cap Recorded(state) = {}
    /\ pc[p] # "removeSnapshots" => doomedA[p] = {} /\ doomedK[p] = {}

RecordInv ==
    /\ TypeOK
    /\ KeepsSnapshots
    /\ UseStateFile \/ state = EmptyState
    /\ Alone
    /\ StateSnapshotsRetained
    /\ \A p \in Procs : RecordOK(p)

(* Of what the map names, only archives with a bookmark are doomed.         *)
LEMMA DoomedCovered ==
    ASSUME TypeOK, NEW p \in Procs, NEW archived, NEW m, DoomSnapshots(p, archived, marks[p], m),
           Recorded(state) \subseteq Recorded(m)
    PROVE  /\ doomedA'[p] \cap Recorded(state) \subseteq marks[p]
           /\ doomedK'[p] \cap Recorded(state) = {}
<1> DEFINE pruned == GetPrunedSnapshots(archived, marks[p], SourcePolicies, Recorded(m))
<1>1. doomedA'[p] = pruned.archives /\ doomedK'[p] = pruned.bookmarks
    BY DEF DoomSnapshots, TypeOK
<1>2. /\ pruned.archives \cap Recorded(m) \subseteq marks[p]
      /\ pruned.bookmarks \cap Recorded(m) = {}
    BY DEF GetPrunedSnapshots
<1> QED
    BY <1>1, <1>2

(* A step that leaves every other process idle has one process to look at.  *)
LEMMA RecordStepOf ==
    ASSUME RecordInv, TypeOK', NEW p \in Procs,
           \A q \in Procs : q # p => /\ Idle(q) /\ Idle(q)'
                                     /\ doomedA'[q] = doomedA[q]
                                     /\ doomedK'[q] = doomedK[q],
           source' = source, UseStateFile \/ state' = state,
           StateSnapshotsRetained', RecordOK(p)'
    PROVE  RecordInv'
<1>1. ASSUME NEW q \in Procs, q # p PROVE RecordOK(q)'
    BY <1>1 DEF RecordInv, RecordOK, Idle
<1>2. \A q \in Procs : RecordOK(q)'
    BY <1>1
<1>3. Alone'
    BY DEF Alone
<1>4. (UseStateFile \/ state = EmptyState)'
    BY DEF RecordInv, EmptyState
<1> QED
    BY <1>2, <1>3, <1>4 DEF RecordInv, KeepsSnapshots

(* When commands do not overlap, a step of one finds all others idle.       *)
LEMMA OthersRest ==
    ASSUME SerialRuns, TypeOK, Alone, NEW p \in Procs, NEW q \in Procs, q # p,
           BackupCommand(p) \/ PruneCommands(p) \/ Finish(p) \/ Abort(p)
    PROVE  /\ Idle(q) /\ Idle(q)'
           /\ doomedA'[q] = doomedA[q] /\ doomedK'[q] = doomedK[q]
<1> USE DEF Goto
<1>1. Idle(q)
    BY DEF SerialRuns, Alone, Idle, BackupCommand, PruneCommands, MayStart,
           StartBackup, ListBookmarks, ChooseBase, CreateBackupStep, BookmarkStep, OpenStep,
           FinalizeStep, Commit, ReadState, TruncateState, WriteState, ListBookmarksToPrune,
           ListArchivesToPrune, ListingFails, DoomBackups, SkipPrune, RemoveArchiveStep,
           RemoveBookmarkStep, PruneBackups, RemoveBackup, SnapshotsPruned,
           StartPruneBackups, StartPruneSnapshots, ListBookmarksOfCommand,
           ReadStateToPrune, DryRun, Finish, Abort
<1> DEFINE Same == pc'[q] = pc[q] /\ doomedA'[q] = doomedA[q] /\ doomedK'[q] = doomedK[q]
<1>0. /\ pc \in [Procs -> PCs]
      /\ doomedA \in [Procs -> SUBSET Snapshot]
      /\ doomedK \in [Procs -> SUBSET Snapshot]
    BY DEF TypeOK
<1>2. ASSUME Exit(p) PROVE Same
    BY <1>0, <1>2 DEF Exit
<1>3. ASSUME BackupCommand(p) PROVE Same
    <2> USE <1>0 DEF locals
    <2>1. CASE (\E d \in Dests : StartBackup(p, d)) \/ ListBookmarks(p) \/ ChooseBase(p)
        BY <2>1 DEF StartBackup, ListBookmarks, ChooseBase
    <2>2. CASE CreateBackupStep(p) \/ BookmarkStep(p) \/ OpenStep(p) \/ FinalizeStep(p)
        BY <2>2 DEF CreateBackupStep, BookmarkStep, OpenStep, FinalizeStep
    <2>3. CASE Commit(p) \/ ReadState(p) \/ TruncateState(p) \/ WriteState(p)
        BY <2>3 DEF Commit, ReadState, TruncateState, WriteState
    <2>4. CASE ListBookmarksToPrune(p) \/ ListArchivesToPrune(p)
        BY <2>4 DEF ListBookmarksToPrune, ListArchivesToPrune, DoomSnapshots
    <2>5. CASE RemoveArchiveStep(p) \/ RemoveBookmarkStep(p)
        BY <2>5 DEF RemoveArchiveStep, RemoveBookmarkStep
    <2>6. CASE PruneBackups(p) \/ ListingFails(p) \/ RemoveBackup(p)
        BY <2>6 DEF PruneBackups, ListingFails, DoomBackups, RemoveBackup
    <2> QED
        BY <1>2, <1>3, <2>1, <2>2, <2>3, <2>4, <2>5, <2>6 DEF BackupCommand, SkipPrune
<1>4. ASSUME PruneCommands(p) PROVE Same
    BY <1>0, <1>2, <1>4
       DEF PruneCommands, StartPruneBackups, StartPruneSnapshots,
           ListBookmarksOfCommand, ReadStateToPrune, DoomSnapshots, DryRun
<1> QED
    BY <1>1, <1>2, <1>3, <1>4 DEF Idle, Finish, Abort

(* Every step of a process keeps the invariant.                             *)
LEMMA RecordStep ==
    ASSUME SerialRuns, RecordInv, TypeOK', NEW p \in Procs,
           BackupCommand(p) \/ PruneCommands(p) \/ Finish(p) \/ Abort(p)
    PROVE  RecordInv'
<1> USE DEF Goto
<1>0. TypeOK /\ RecordOK(p) /\ StateSnapshotsRetained
    BY DEF RecordInv
<1>1. ASSUME NEW q \in Procs, q # p
      PROVE  /\ Idle(q) /\ Idle(q)'
             /\ doomedA'[q] = doomedA[q] /\ doomedK'[q] = doomedK[q]
    BY <1>1, OthersRest DEF RecordInv
<1> DEFINE Good == /\ source' = source
                   /\ UseStateFile \/ state' = state
                   /\ StateSnapshotsRetained'
                   /\ RecordOK(p)'
<1>2. SUFFICES Good
    BY <1>1, RecordStepOf
<1> USE <1>0 DEF RecordInv, RecordOK, StateSnapshotsRetained, KeepsSnapshots, Present, Recorded, sourceVars, fileVars
<1>3. CASE Exit(p) /\ UNCHANGED <<sourceVars, fileVars>>
    BY <1>3 DEF Exit, TypeOK
<1>4. CASE \E d \in Dests : StartBackup(p, d) \/ StartPruneBackups(p, d)
    BY <1>4 DEF StartBackup, StartPruneBackups, TypeOK, MayStart, Idle
<1>5. CASE ListBookmarks(p) \/ ChooseBase(p) \/ StartPruneSnapshots(p)
    BY <1>5 DEF ListBookmarks, ChooseBase, StartPruneSnapshots, TypeOK, MayStart, Idle
<1>6. CASE CreateBackupStep(p)
    <2>1. PICK effective \in {NoBase, base[p]} :
              /\ CreateBackup(clock, base[p], effective)
              /\ current' = [current EXCEPT ![p] = [snap |-> clock, base |-> effective]]
        BY <1>6 DEF CreateBackupStep
    <2>2. /\ source' = source /\ bookmarks' = bookmarks
          /\ archives \subseteq archives'
          /\ source.kind = "zfs" => clock \in archives'
        BY <2>1 DEF CreateBackup, TarCreateBackup, MariabackupCreateBackup,
                    BtrfsCreateBackup, ZfsCreateBackup
    <2>3. current'[p].snap = clock
        BY <2>1 DEF TypeOK
    <2> QED
        BY <1>6, <2>2, <2>3 DEF CreateBackupStep, TypeOK
<1>7. CASE BookmarkStep(p)
    BY <1>7 DEF BookmarkStep, BookmarkZfs, TypeOK, locals
<1>8. CASE OpenStep(p)
    BY <1>8 DEF OpenStep, OpenBase, TypeOK, locals
<1>9. CASE FinalizeStep(p)
    <2>1. /\ source' = source /\ archives \subseteq archives' /\ bookmarks \subseteq bookmarks'
          /\ current[p].snap \in archives' \cup bookmarks'
        BY <1>9 DEF FinalizeStep, Finalize, TypeOK, SourceTypeOK, SourceConfig
    <2> QED
        BY <1>9, <2>1 DEF FinalizeStep, TypeOK, locals
<1>10. CASE Commit(p)
    <2>1. ~UseStateFile => Recorded(state) = {}
        BY DEF EmptyState
    <2>2. pc'[p] \in {"readState", "printed"} /\ (pc'[p] = "readState" => UseStateFile)
        BY <1>10 DEF Commit, TypeOK
    <2>3. RecordOK(p)'
        BY <1>10, <2>1, <2>2 DEF Commit, locals
    <2> QED
        BY <1>10, <2>3 DEF Commit, locals
<1>11. CASE ReadState(p)
    BY <1>11 DEF ReadState, TypeOK
<1>12. CASE TruncateState(p)
    BY <1>12 DEF TruncateState, TypeOK, locals, EmptyState
<1>13. CASE WriteState(p)
    BY <1>13 DEF WriteState, TypeOK, locals, EmptyState
<1>14. CASE ListBookmarksToPrune(p)
    <2>1. pc'[p] = "listArchivesToPrune" /\ marks'[p] = bookmarks
        BY <1>14 DEF ListBookmarksToPrune, TypeOK
    <2> QED
        BY <1>14, <2>1 DEF ListBookmarksToPrune
<1>20. CASE ListBookmarksOfCommand(p)
    BY <1>20 DEF ListBookmarksOfCommand, TypeOK
<1>15. CASE ListArchivesToPrune(p)
    <2>1. Recorded(state) \subseteq Recorded(memory[p]) /\ marks[p] = bookmarks
        BY <1>15 DEF ListArchivesToPrune
    <2>2. /\ doomedA'[p] \cap Recorded(state) \subseteq bookmarks
          /\ doomedK'[p] \cap Recorded(state) = {}
        BY <1>15, <2>1, DoomedCovered DEF ListArchivesToPrune, TypeOK
    <2> QED
        BY <1>15, <2>2 DEF ListArchivesToPrune, TypeOK
<1>21. CASE ReadStateToPrune(p)
    <2>1. Recorded(state) \subseteq Recorded(state) /\ marks[p] = bookmarks
        BY <1>21 DEF ReadStateToPrune
    <2>2. /\ doomedA'[p] \cap Recorded(state) \subseteq bookmarks
          /\ doomedK'[p] \cap Recorded(state) = {}
        BY <1>21, <2>1, DoomedCovered DEF ReadStateToPrune, TypeOK
    <2> QED
        BY <1>21, <2>2 DEF ReadStateToPrune, TypeOK
<1>17. CASE RemoveArchiveStep(p)
    BY <1>17 DEF RemoveArchiveStep, RemoveArchive, TypeOK
<1>18. CASE RemoveBookmarkStep(p)
    BY <1>18 DEF RemoveBookmarkStep, RemoveBookmark, TypeOK
<1>16. CASE RemoveBackup(p)
    BY <1>16 DEF RemoveBackup, TypeOK
<1>19. CASE PruneBackups(p) \/ ListingFails(p)
    <2>1. DoomBackups(p) /\ doomedA[p] = {} /\ doomedK[p] = {}
        BY <1>19 DEF PruneBackups, ListingFails, SnapshotsPruned
    <2> QED
        BY <2>1 DEF DoomBackups, TypeOK
<1> QED
    BY <1>3, <1>4, <1>5, <1>6, <1>7, <1>8, <1>9, <1>10, <1>11, <1>12, <1>13, <1>14, <1>15,
       <1>16, <1>17, <1>18, <1>19, <1>20, <1>21
       DEF BackupCommand, PruneCommands, SkipPrune, DryRun, Finish, Abort

(* A source never becomes another one.                                      *)
LEMMA SourceStays ==
    ASSUME [Next]_vars
    PROVE  source' = source
<1> USE DEF sourceVars
<1>1. CASE Tick \/ UNCHANGED vars
    BY <1>1 DEF Tick, vars
<1>2. ASSUME NEW p \in Procs, BackupCommand(p)
      PROVE  source' = source
    <2>1. CASE CreateBackupStep(p)
        BY <2>1 DEF CreateBackupStep, CreateBackup, TarCreateBackup, MariabackupCreateBackup,
                    BtrfsCreateBackup, ZfsCreateBackup
    <2>2. CASE BookmarkStep(p) \/ OpenStep(p) \/ FinalizeStep(p)
        BY <2>2 DEF BookmarkStep, OpenStep, FinalizeStep, BookmarkZfs, OpenBase, Finalize
    <2>3. CASE RemoveArchiveStep(p) \/ RemoveBookmarkStep(p)
        BY <2>3 DEF RemoveArchiveStep, RemoveBookmarkStep, RemoveArchive, RemoveBookmark
    <2>4. CASE \/ (\E d \in Dests : StartBackup(p, d)) \/ ListBookmarks(p) \/ ChooseBase(p)
               \/ Commit(p) \/ ReadState(p) \/ TruncateState(p) \/ WriteState(p)
        BY <2>4 DEF StartBackup, ListBookmarks, ChooseBase, Commit, ReadState,
                    TruncateState, WriteState
    <2>5. CASE \/ ListBookmarksToPrune(p) \/ ListArchivesToPrune(p) \/ ListingFails(p)
               \/ SkipPrune(p) \/ PruneBackups(p) \/ RemoveBackup(p)
        BY <2>5 DEF ListBookmarksToPrune, ListArchivesToPrune, ListingFails, SkipPrune,
                    PruneBackups, DoomBackups, RemoveBackup
    <2> QED
        BY <1>2, <2>1, <2>2, <2>3, <2>4, <2>5 DEF BackupCommand
<1>3. ASSUME NEW p \in Procs, PruneCommands(p) \/ Finish(p) \/ Abort(p)
      PROVE  source' = source
    BY <1>3 DEF PruneCommands, StartPruneBackups, StartPruneSnapshots, ListBookmarksOfCommand,
                ReadStateToPrune, DryRun, Finish, Abort
<1> QED
    BY <1>1, <1>2, <1>3 DEF Next

(* For every source, policies and destinations: when commands do not        *)
(* overlap, a source that keeps snapshots still has every one the state     *)
(* file names, also when removals or listings fail and processes die        *)
(* (lib/retention.go GetPrunedSnapshots, cmd/backup.go).                    *)
THEOREM RecordedStays ==
    ASSUME SerialRuns
    PROVE  Spec => []StateSnapshotsRetained
<1> DEFINE Inv == KeepsSnapshots => RecordInv
<1>1. Init => Inv
    <2> SUFFICES ASSUME Init, KeepsSnapshots PROVE RecordInv
        OBVIOUS
    <2>1. TypeOK
        <3>1. \A q \in Procs : PhaseOK(q)
            BY DEF Init, PhaseOK, Choosing, Making
        <3> QED
            BY <3>1, SourceAssumption DEF Init, SourceInit, TypeOK, SourceTypeOK, Snapshot, NoBase, Targets,
                   PCs, EmptyState
    <2> QED
        BY <2>1 DEF Init, SourceInit, SerialRuns, RecordInv, RecordOK, Alone, Idle,
                    StateSnapshotsRetained, Recorded, EmptyState
<1>2. Inv /\ [Next]_vars => Inv'
    <2> SUFFICES ASSUME Inv, [Next]_vars, KeepsSnapshots' PROVE RecordInv'
        OBVIOUS
    <2>0. RecordInv
        BY SourceStays DEF KeepsSnapshots
    <2>1. TypeOK'
        BY <2>0, TypeStep DEF RecordInv
    <2>2. CASE Tick \/ UNCHANGED vars
        BY <2>0, <2>1, <2>2 DEF Tick, vars, locals, sourceVars, fileVars, RecordInv, RecordOK, Alone,
                          Idle, StateSnapshotsRetained, KeepsSnapshots, Recorded, Present, EmptyState
    <2>3. ASSUME NEW p \in Procs,
                 BackupCommand(p) \/ PruneCommands(p) \/ Finish(p) \/ Abort(p)
          PROVE  RecordInv'
        BY <2>0, <2>1, <2>3, RecordStep
    <2> QED
        BY <2>2, <2>3 DEF Next
<1>3. Inv => StateSnapshotsRetained
    BY DEF RecordInv, StateSnapshotsRetained
<1> QED
    BY <1>1, <1>2, <1>3, PTL DEF Spec

-----------------------------------------------------------------------------
(* The state file never goes back.                                          *)

(* Snapshots have increasing names, so that what a process is about to      *)
(* record for its destination is newer than all the file says; and a        *)
(* process that has read the file has read one nobody had spoiled.          *)
FileOK(p) ==
    /\ pc[p] \in Sending \cup {"readState"} =>
           /\ current[p].snap < clock
           /\ \A d \in Dests : state[d] <= current[p].snap
    /\ pc[p] = "truncate" =>
           /\ stateFile \in {"absent", "valid"}
           /\ \A d \in Dests : state[d] <= memory[p][d]
    /\ pc[p] \in {"truncate", "write"} => \A d \in Dests : memory[p][d] < clock
    /\ pc[p] = "write" => stateFile = "empty"

FileInv ==
    /\ TypeOK
    /\ Alone
    /\ \A d \in Dests : state[d] < clock
    /\ \A p \in Procs : FileOK(p)

Advances == Spoiled' \/ (~Spoiled /\ \A d \in Dests : Content[d] <= Content'[d])

(* A step that neither reads nor writes the file leaves its content alone.  *)
LEMMA ContentKept ==
    ASSUME FileInv, stateFile' = stateFile, state' = state, NEW p \in Procs,
           \A q \in Procs : q # p => Idle(q) /\ Idle(q)',
           pc[p] # "write", pc'[p] # "write"
    PROVE  Advances
<1>1. Writers = {} /\ Writers' = {}
    BY DEF Writers, Idle
<1>2. \A d \in Dests : state[d] \in Nat
    BY DEF FileInv, TypeOK
<1> QED
    BY <1>1, <1>2 DEF Advances, Spoiled, Content

(* Every step of a process keeps the invariant and the content.             *)
LEMMA FileStep ==
    ASSUME SerialRuns, FileInv, TypeOK', NEW p \in Procs,
           BackupCommand(p) \/ PruneCommands(p) \/ Finish(p) \/ Abort(p)
    PROVE  FileInv' /\ Advances
<1> USE DEF Goto
<1>0. TypeOK /\ FileOK(p)
    BY DEF FileInv
<1>1. \A q \in Procs : q # p => Idle(q) /\ Idle(q)'
    BY OthersRest DEF FileInv
<1>t. /\ pc \in [Procs -> PCs] /\ pc' \in [Procs -> PCs]
      /\ clock \in Nat /\ clock' \in Nat
      /\ state \in [Dests -> Nat] /\ memory \in [Procs -> [Dests -> Nat]]
    BY <1>0 DEF TypeOK, Snapshot
<1> DEFINE Good == (\A d \in Dests : state'[d] < clock') /\ FileOK(p)' /\ Advances
<1>2. SUFFICES Good
    <2>1. \A q \in Procs : q # p => FileOK(q)'
        BY <1>1 DEF FileOK, Idle, Sending
    <2>2. Alone'
        BY <1>1 DEF Alone
    <2> QED
        BY <2>1, <2>2 DEF FileInv
(* The process is gone: in the middle of a write it spoils the file.        *)
<1>3. CASE Exit(p) /\ UNCHANGED <<clock, fileVars>>
    <2>1. pc'[p] = "idle" /\ UNCHANGED <<clock, stateFile, state>>
        BY <1>3, <1>t DEF Exit, fileVars
    <2>2. (\A d \in Dests : state'[d] < clock') /\ FileOK(p)'
        BY <2>1 DEF FileInv, FileOK, Sending
    <2>3. CASE pc[p] = "write"
        <3>1. stateFile' = "empty" /\ Writers' = {}
            BY <1>0, <1>1, <2>1, <2>3 DEF FileOK, Writers, Idle
        <3> QED
            BY <2>2, <3>1 DEF Advances, Spoiled
    <2> QED
        BY <1>1, <2>1, <2>2, <2>3, ContentKept
(* Steps that have nothing to record.                                       *)
<1> DEFINE Quiet == {"idle", "listBookmarks", "listArchives", "create", "printed",
                     "listArchivesToPrune", "listBookmarksToPrune", "readStateToPrune",
                     "removeSnapshots", "removeBackups"}
<1>4. ASSUME pc[p] \in Quiet, pc'[p] \in Quiet, UNCHANGED <<clock, fileVars>> PROVE Good
    <2>1. (\A d \in Dests : state'[d] < clock') /\ FileOK(p)'
        BY <1>4 DEF FileInv, FileOK, Sending, fileVars
    <2> QED
        BY <1>1, <1>4, <2>1, ContentKept DEF fileVars
<1>5. CASE \/ \E d \in Dests : StartBackup(p, d) \/ StartPruneBackups(p, d)
           \/ ListBookmarks(p) \/ ChooseBase(p)
    BY <1>4, <1>5, <1>t DEF StartBackup, StartPruneBackups, MayStart, Idle, ListBookmarks, ChooseBase
<1>6. CASE \/ StartPruneSnapshots(p) \/ ListBookmarksOfCommand(p) \/ ReadStateToPrune(p)
           \/ ListBookmarksToPrune(p) \/ ListArchivesToPrune(p)
    BY <1>4, <1>6, <1>t DEF StartPruneSnapshots, MayStart, Idle, ListBookmarksOfCommand,
                            ReadStateToPrune, ListBookmarksToPrune, ListArchivesToPrune
<1>7. CASE \/ RemoveArchiveStep(p) \/ RemoveBookmarkStep(p) \/ RemoveBackup(p)
           \/ PruneBackups(p) \/ ListingFails(p)
    BY <1>4, <1>7, <1>t DEF RemoveArchiveStep, RemoveBookmarkStep, RemoveBackup, PruneBackups,
                            ListingFails, DoomBackups, SnapshotsPruned
<1>8. CASE CreateBackupStep(p)
    <2>1. PICK effective \in {NoBase, base[p]} :
              current' = [current EXCEPT ![p] = [snap |-> clock, base |-> effective]]
        BY <1>8 DEF CreateBackupStep
    <2>2. /\ current'[p].snap = clock /\ clock' = clock + 1
          /\ pc[p] = "create" /\ pc'[p] = "bookmark"
          /\ stateFile' = stateFile /\ state' = state
        BY <1>0, <1>8, <1>t, <2>1 DEF CreateBackupStep, fileVars, TypeOK
    <2>3. \A d \in Dests : state'[d] \in Nat /\ state'[d] < clock
        BY <1>t, <2>2 DEF FileInv
    <2>4. (\A d \in Dests : state'[d] < clock') /\ FileOK(p)'
        BY <1>t, <2>2, <2>3 DEF FileOK
    <2> QED
        BY <1>1, <2>2, <2>4, ContentKept
<1>9. CASE BookmarkStep(p) \/ OpenStep(p) \/ FinalizeStep(p) \/ Commit(p)
    <2>1. /\ UNCHANGED <<clock, stateFile, state, current>>
          /\ pc[p] \in Sending /\ pc'[p] \in Sending \cup {"readState", "printed"}
        BY <1>9, <1>t DEF BookmarkStep, OpenStep, FinalizeStep, Commit, fileVars, locals, Sending
    <2>2. (\A d \in Dests : state'[d] < clock') /\ FileOK(p)'
        BY <1>0, <2>1 DEF FileInv, FileOK, Sending
    <2> QED
        BY <1>1, <2>1, <2>2, ContentKept DEF Sending
<1>10. CASE ReadState(p)
    <2>1. /\ UNCHANGED <<clock, stateFile, state>>
          /\ pc[p] = "readState" /\ pc'[p] = "truncate"
          /\ stateFile \in {"absent", "valid"}
          /\ memory'[p] = [state EXCEPT ![target[p]] = current[p].snap]
        BY <1>10, <1>t DEF ReadState, fileVars
    <2>2. /\ current[p].snap < clock /\ current[p].snap \in Nat
          /\ \A d \in Dests : state[d] <= current[p].snap
        BY <1>0, <2>1 DEF FileOK, TypeOK, PhaseOK, Making, Backup, Snapshot
    <2>3. \A d \in Dests : /\ memory'[p][d] \in {state[d], current[p].snap}
                           /\ state[d] \in Nat /\ state[d] < clock
        BY <1>t, <2>1 DEF FileInv
    <2>4. \A d \in Dests : state[d] <= memory'[p][d] /\ memory'[p][d] < clock
        BY <1>t, <2>2, <2>3
    <2>5. (\A d \in Dests : state'[d] < clock') /\ FileOK(p)'
        BY <2>1, <2>3, <2>4 DEF FileOK, Sending
    <2> QED
        BY <1>1, <2>1, <2>5, ContentKept
<1>11. CASE TruncateState(p)
    <2>1. /\ UNCHANGED <<clock, memory>> /\ stateFile' = "empty" /\ state' = EmptyState
          /\ pc[p] = "truncate" /\ pc'[p] = "write"
        BY <1>11, <1>t DEF TruncateState, locals
    <2>2. Writers = {} /\ Writers' = {p}
        BY <1>1, <2>1 DEF Writers, Idle
    <2>3. Content = state /\ Content' = memory[p]
        BY <2>1, <2>2 DEF Content
    <2>4. ~Spoiled /\ \A d \in Dests : state[d] <= memory[p][d] /\ memory[p][d] < clock
        BY <1>0, <2>1 DEF FileOK, Spoiled
    <2>5. \A d \in Dests : state'[d] < clock'
        BY <1>0, <1>t, <2>1 DEF EmptyState, NoBase, TypeOK, Snapshot
    <2> QED
        BY <2>1, <2>3, <2>4, <2>5 DEF FileOK, Sending, Advances
<1>12. CASE WriteState(p)
    <2>1. UNCHANGED clock /\ pc[p] = "write" /\ pc'[p] = "printed"
        BY <1>12, <1>t DEF WriteState, locals
    <2>2. stateFile = "empty" /\ \A d \in Dests : memory[p][d] < clock
        BY <1>0, <2>1 DEF FileOK
    <2>3. Garbles(memory[p]) = {FALSE}
        BY <2>2 DEF Garbles
    <2>4. state' = memory[p]
        BY <1>12, <2>3 DEF WriteState
    <2>5. Writers = {p} /\ Writers' = {}
        BY <1>1, <2>1 DEF Writers, Idle
    <2>6. ~Spoiled /\ Content = memory[p] /\ Content' = memory[p]
        BY <2>2, <2>4, <2>5 DEF Spoiled, Content
    <2>7. \A d \in Dests : memory[p][d] \in Nat
        BY <1>t
    <2> QED
        BY <2>1, <2>2, <2>4, <2>6, <2>7 DEF FileOK, Sending, Advances
<1> QED
    BY <1>3, <1>5, <1>6, <1>7, <1>8, <1>9, <1>10, <1>11, <1>12
       DEF BackupCommand, PruneCommands, SkipPrune, DryRun, Finish, Abort

(* For every source, policies and destinations: when commands do not        *)
(* overlap, no update of the state file loses or ages an entry, and one     *)
(* that a kill has spoiled stays spoiled (cmd/backup.go).                   *)
THEOREM StateMonotone ==
    ASSUME SerialRuns
    PROVE  Spec => StateForgetsNothing
<1>1. Init => FileInv
    <2> SUFFICES ASSUME Init PROVE FileInv
        OBVIOUS
    <2>1. TypeOK
        <3>1. \A q \in Procs : PhaseOK(q)
            BY DEF Init, PhaseOK, Choosing, Making
        <3> QED
            BY <3>1, SourceAssumption DEF Init, SourceInit, TypeOK, SourceTypeOK, Snapshot, NoBase,
                   Targets, PCs, EmptyState
    <2> QED
        BY <2>1 DEF Init, FileInv, FileOK, Alone, Idle, EmptyState, NoBase, Sending
<1>2. FileInv /\ [Next]_vars => FileInv' /\ [Advances]_vars
    <2> SUFFICES ASSUME FileInv, [Next]_vars PROVE FileInv' /\ [Advances]_vars
        OBVIOUS
    <2>1. TypeOK'
        BY TypeStep DEF FileInv
    <2>2. CASE UNCHANGED vars
        BY <2>1, <2>2 DEF vars, locals, fileVars, FileInv, FileOK, Alone, Idle
    <2>3. CASE Tick
        <3>1. UNCHANGED <<fileVars, pc, locals>> /\ clock' = clock + 1
            BY <2>3 DEF Tick
        <3>2. clock \in Nat /\ \A d \in Dests : state[d] \in Nat
            BY DEF FileInv, TypeOK, Snapshot
        <3>3. \A q \in Procs : /\ \A d \in Dests : memory[q][d] \in Nat
                               /\ pc[q] \in Sending \cup {"readState"} => current[q].snap \in Nat
            BY DEF FileInv, TypeOK, PhaseOK, Making, Sending, Backup, Snapshot
        <3>4. FileInv'
            BY <2>1, <3>1, <3>2, <3>3 DEF FileInv, FileOK, Alone, Idle, locals, fileVars
        <3>5. Writers' = Writers /\ Spoiled' = Spoiled /\ Content' = Content
            BY <3>1 DEF Writers, Spoiled, Content, locals, fileVars
        <3>6. \A d \in Dests : Content[d] <= Content[d]
            BY <3>2, <3>3 DEF Content, Writers
        <3> QED
            BY <3>4, <3>5, <3>6 DEF Advances
    <2>4. ASSUME NEW p \in Procs,
                 BackupCommand(p) \/ PruneCommands(p) \/ Finish(p) \/ Abort(p)
          PROVE  FileInv' /\ Advances
        BY <2>1, <2>4, FileStep
    <2> QED
        BY <2>2, <2>3, <2>4 DEF Next
<1> QED
    BY <1>1, <1>2, PTL DEF Spec, StateForgetsNothing, Advances

-----------------------------------------------------------------------------
(* Nothing leaks on the source.                                             *)

Retained(archived) == ApplyRetentionPolicies(SourcePolicies, SortedListArchives(archived))

(* A prune decides on what there is, with a memory that knows no more than  *)
(* the file; what it does not remove is recorded, or retained among what it *)
(* does not remove.                                                         *)
LeakOK(p) ==
    /\ pc[p] \in Sending => current[p].snap < clock
    /\ pc[p] \in {"readState", "truncate", "write"} => UseStateFile
    /\ pc[p] \in {"printed", "listArchivesToPrune"} /\ stateFile = "valid" =>
           Recorded(memory[p]) \subseteq Recorded(state)
    /\ pc[p] \in {"listArchivesToPrune", "readStateToPrune"} => marks[p] = bookmarks
    /\ pc[p] \in {"listBookmarksToPrune", "readStateToPrune"} => archs[p] = archives
    /\ pc[p] = "removeSnapshots" /\ stateFile = "valid" =>
           /\ bookmarks \ doomedK[p] \subseteq Recorded(state)
           /\ archives \ doomedA[p] \subseteq Recorded(state) \cup Retained(archives \ doomedA[p])

LeakInv ==
    /\ TypeOK
    /\ Alone
    /\ UseStateFile \/ stateFile = "absent"
    /\ \A a \in archives : a < clock
    /\ \A p \in Procs : LeakOK(p)

LEMMA ArchivesFinite ==
    ASSUME LeakInv
    PROVE  archives \in SUBSET Snapshot /\ IsFiniteSet(archives)
<1>1. archives \in SUBSET Snapshot /\ clock \in Nat
    BY DEF LeakInv, TypeOK, SourceTypeOK, Snapshot
<1>2. archives \subseteq 0 .. clock
    BY <1>1 DEF LeakInv, Snapshot
<1>3. IsFiniteSet(0 .. clock)
    BY <1>1, FS_Interval
<1> QED
    BY <1>1, <1>2, <1>3, FS_Subset

(* The decision of both prunes.                                             *)
LEMMA DoomedEnough ==
    ASSUME LeakInv, NEW p \in Procs, NEW m, DoomSnapshots(p, archives, bookmarks, m),
           Recorded(m) \subseteq Recorded(state)
    PROVE  /\ bookmarks \ doomedK'[p] \subseteq Recorded(state)
           /\ archives \ doomedA'[p] \subseteq Recorded(state) \cup Retained(archives \ doomedA'[p])
<1> DEFINE pruned == GetPrunedSnapshots(archives, bookmarks, SourcePolicies, Recorded(m))
           K == archives \ pruned.archives
<1>1. doomedA'[p] = pruned.archives /\ doomedK'[p] = pruned.bookmarks
    BY DEF DoomSnapshots, LeakInv, TypeOK
<1>2. pruned.bookmarks = bookmarks \ Recorded(m)
    BY DEF GetPrunedSnapshots
<1>3. pruned.archives = archives \ (Retained(archives) \cup (Recorded(m) \ bookmarks))
    BY DEF GetPrunedSnapshots, Retained
<1>4. /\ Retained(archives) \subseteq archives
      /\ \A S \in SUBSET archives : Retained(archives) \subseteq S => Retained(S) = Retained(archives)
    BY ArchivesFinite, ArchivesStable, CycleAssumption DEF Retained
<1>5. K \subseteq Retained(archives) \cup Recorded(m) /\ Retained(archives) \subseteq K
    BY <1>3, <1>4
<1>6. K \in SUBSET archives
    OBVIOUS
<1> HIDE DEF K
<1>7. Retained(K) = Retained(archives)
    BY <1>4, <1>5, <1>6
<1> QED
    BY <1>1, <1>2, <1>5, <1>7 DEF K

(* Every step of a process keeps the invariant.                             *)
LEMMA LeakStep ==
    ASSUME SerialRuns, SourceTarget \notin Unreliable, LeakInv, TypeOK', NEW p \in Procs,
           BackupCommand(p) \/ PruneCommands(p) \/ Finish(p) \/ Abort(p)
    PROVE  LeakInv'
<1> USE DEF Goto
<1>0. TypeOK /\ LeakOK(p) /\ clock \in Nat
    BY DEF LeakInv, TypeOK, Snapshot
<1>1. ASSUME NEW q \in Procs, q # p PROVE Idle(q) /\ Idle(q)'
    BY <1>1, OthersRest DEF LeakInv
<1> DEFINE Good == /\ UseStateFile \/ stateFile' = stateFile
                   /\ \A a \in archives' : a < clock'
                   /\ LeakOK(p)'
<1>2. SUFFICES Good
    <2>1. \A q \in Procs : LeakOK(q)'
        BY <1>1, <1>2 DEF LeakOK, Idle, Sending
    <2>2. Alone'
        BY <1>1 DEF Alone
    <2> QED
        BY <1>2, <2>1, <2>2 DEF LeakInv
<1> USE <1>0 DEF LeakInv, LeakOK, Sending, sourceVars, fileVars
<1>3. CASE Exit(p) /\ UNCHANGED <<sourceVars, clock, fileVars>>
    BY <1>3 DEF Exit, TypeOK
<1>4. CASE \E d \in Dests : StartBackup(p, d) \/ StartPruneBackups(p, d)
    BY <1>4 DEF StartBackup, StartPruneBackups, TypeOK
<1>5. CASE ListBookmarks(p) \/ ChooseBase(p)
    BY <1>5 DEF ListBookmarks, ChooseBase, TypeOK
<1>6. CASE CreateBackupStep(p)
    <2>1. PICK effective \in {NoBase, base[p]} :
              /\ CreateBackup(clock, base[p], effective)
              /\ current' = [current EXCEPT ![p] = [snap |-> clock, base |-> effective]]
        BY <1>6 DEF CreateBackupStep
    <2>2. archives' \subseteq archives \cup {clock}
        BY <2>1 DEF CreateBackup, TarCreateBackup, MariabackupCreateBackup,
                    BtrfsCreateBackup, ZfsCreateBackup
    <2>3. current'[p].snap = clock /\ clock' = clock + 1 /\ pc'[p] = "bookmark"
        BY <1>6, <2>1 DEF CreateBackupStep, TypeOK
    <2>4. \A a \in archives : a \in Nat
        BY DEF TypeOK, SourceTypeOK, Snapshot
    <2>5. \A a \in archives' : a < clock'
        BY <2>2, <2>3, <2>4
    <2>6. stateFile' = stateFile /\ state' = state
        BY <1>6 DEF CreateBackupStep
    <2>7. LeakOK(p)'
        BY <2>3
    <2> QED
        BY <2>5, <2>6, <2>7
<1>7. CASE BookmarkStep(p) \/ OpenStep(p)
    BY <1>7 DEF BookmarkStep, BookmarkZfs, OpenStep, OpenBase, TypeOK, locals
<1>8. CASE FinalizeStep(p)
    BY <1>8 DEF FinalizeStep, Finalize, TypeOK, locals
<1>9. CASE Commit(p)
    <2>1. pc'[p] \in {"readState", "printed"} /\ (pc'[p] = "printed" => ~UseStateFile)
        BY <1>9 DEF Commit, TypeOK
    <2> QED
        BY <1>9, <2>1 DEF Commit, locals
<1>10. CASE ReadState(p)
    BY <1>10 DEF ReadState, TypeOK
<1>11. CASE TruncateState(p)
    BY <1>11 DEF TruncateState, TypeOK, locals
<1>12. CASE WriteState(p)
    BY <1>12 DEF WriteState, TypeOK, locals
<1>13. CASE ListBookmarksToPrune(p)
    BY <1>13 DEF ListBookmarksToPrune, TypeOK
<1>14. CASE StartPruneSnapshots(p) \/ ListBookmarksOfCommand(p)
    BY <1>14 DEF StartPruneSnapshots, ListBookmarksOfCommand, TypeOK
<1>15. CASE ListArchivesToPrune(p)
    <2>1. /\ stateFile = "valid" => Recorded(memory[p]) \subseteq Recorded(state)
          /\ DoomSnapshots(p, archives, bookmarks, memory[p])
        BY <1>15 DEF ListArchivesToPrune
    <2>2. stateFile = "valid" =>
              /\ bookmarks \ doomedK'[p] \subseteq Recorded(state)
              /\ archives \ doomedA'[p] \subseteq
                     Recorded(state) \cup Retained(archives \ doomedA'[p])
        BY <2>1, DoomedEnough
    <2>3. /\ UNCHANGED <<archives, bookmarks, clock, stateFile, state>>
          /\ pc'[p] = "removeSnapshots"
        BY <1>15 DEF ListArchivesToPrune, TypeOK
    <2> QED
        BY <2>2, <2>3 DEF Recorded, Retained
<1>16. CASE ReadStateToPrune(p)
    <2>1. DoomSnapshots(p, archives, bookmarks, state) /\ Recorded(state) \subseteq Recorded(state)
        BY <1>16 DEF ReadStateToPrune
    <2>2. /\ bookmarks \ doomedK'[p] \subseteq Recorded(state)
          /\ archives \ doomedA'[p] \subseteq
                 Recorded(state) \cup Retained(archives \ doomedA'[p])
        BY <2>1, DoomedEnough
    <2>3. /\ UNCHANGED <<archives, bookmarks, clock, stateFile, state>>
          /\ pc'[p] = "removeSnapshots"
        BY <1>16 DEF ReadStateToPrune, TypeOK
    <2> QED
        BY <2>2, <2>3 DEF Recorded, Retained
<1>17. CASE RemoveArchiveStep(p)
    <2>1. PICK s \in doomedA[p] : /\ archives' = archives \ {s}
                                  /\ doomedA' = [doomedA EXCEPT ![p] = @ \ {s}]
        BY <1>17 DEF RemoveArchiveStep, RemoveArchive
    <2>2. archives' \ doomedA'[p] = archives \ doomedA[p]
        BY <2>1 DEF TypeOK
    <2>3. bookmarks' = bookmarks /\ state' = state /\ pc' = pc /\ stateFile' = stateFile
          /\ clock' = clock /\ doomedK' = doomedK /\ pc[p] = "removeSnapshots"
        BY <1>17 DEF RemoveArchiveStep, RemoveArchive
    <2> QED
        BY <2>1, <2>2, <2>3 DEF Recorded, Retained
<1>18. CASE RemoveBookmarkStep(p)
    <2>1. PICK s \in doomedK[p] : /\ bookmarks' = bookmarks \ {s}
                                  /\ doomedK' = [doomedK EXCEPT ![p] = @ \ {s}]
        BY <1>18 DEF RemoveBookmarkStep, RemoveBookmark
    <2>2. bookmarks' \ doomedK'[p] = bookmarks \ doomedK[p]
        BY <2>1 DEF TypeOK
    <2>3. archives' = archives /\ state' = state /\ pc' = pc /\ stateFile' = stateFile
          /\ clock' = clock /\ doomedA' = doomedA /\ pc[p] = "removeSnapshots"
        BY <1>18 DEF RemoveBookmarkStep, RemoveBookmark
    <2> QED
        BY <2>2, <2>3 DEF Recorded, Retained
<1>19. CASE RemoveBackup(p)
    BY <1>19 DEF RemoveBackup, TypeOK
<1>20. CASE PruneBackups(p) \/ ListingFails(p)
    BY <1>20 DEF PruneBackups, ListingFails, DoomBackups, TypeOK
<1> QED
    BY <1>3, <1>4, <1>5, <1>6, <1>7, <1>8, <1>9, <1>10, <1>11, <1>12, <1>13, <1>14, <1>15,
       <1>16, <1>17, <1>18, <1>19, <1>20
       DEF BackupCommand, PruneCommands, SkipPrune, DryRun, Finish, Abort

(* For every source, policies and destinations: when commands do not        *)
(* overlap and removals succeed, a process that is done pruning the source  *)
(* leaves no bookmark that is not recorded and no archive that is neither   *)
(* recorded nor retained by a policy, whatever processes that died left     *)
(* behind (lib/retention.go PruneSnapshots, cmd/backup.go, cmd/prune.go).   *)
THEOREM SourceIsPruned ==
    ASSUME SerialRuns, SourceTarget \notin Unreliable
    PROVE  Spec => []NothingLeaks
<1>1. Init => LeakInv
    <2> SUFFICES ASSUME Init PROVE LeakInv
        OBVIOUS
    <2>1. TypeOK
        BY StoreInit DEF StoreInv
    <2> QED
        BY <2>1 DEF Init, SourceInit, LeakInv, LeakOK, Alone, Idle, Sending
<1>2. LeakInv /\ [Next]_vars => LeakInv'
    <2> SUFFICES ASSUME LeakInv, [Next]_vars PROVE LeakInv'
        OBVIOUS
    <2>1. TypeOK'
        BY TypeStep DEF LeakInv
    <2>2. CASE Tick \/ UNCHANGED vars
        <3>1. /\ UNCHANGED <<archives, bookmarks, stateFile, state, pc, marks, archs, current,
                             memory, doomedA, doomedK>>
              /\ clock \in Nat /\ clock' \in Nat /\ clock <= clock'
            BY <2>1, <2>2 DEF Tick, vars, locals, sourceVars, fileVars, LeakInv, TypeOK, Snapshot
        <3>2. \A a \in archives' : a < clock'
            BY <3>1 DEF LeakInv, TypeOK, SourceTypeOK, Snapshot
        <3>3. ASSUME NEW q \in Procs PROVE LeakOK(q)'
            <4>1. pc[q] \in Sending => current[q].snap \in Nat
                BY DEF LeakInv, TypeOK, PhaseOK, Sending, Making, Backup, Snapshot
            <4>2. LeakOK(q)
                BY DEF LeakInv
            <4>3. pc'[q] \in Sending => current'[q].snap < clock'
                BY <3>1, <4>1, <4>2 DEF LeakOK
            <4>4. /\ Recorded(state)' = Recorded(state)
                  /\ Recorded(memory[q])' = Recorded(memory[q])
                BY <3>1 DEF Recorded
            <4>5. Retained(archives \ doomedA[q])' = Retained(archives \ doomedA[q])
                BY <3>1 DEF Retained
            <4> QED
                BY <3>1, <4>2, <4>3, <4>4, <4>5 DEF LeakOK
        <3> QED
            BY <2>1, <3>1, <3>2, <3>3 DEF LeakInv, Alone, Idle
    <2>3. ASSUME NEW p \in Procs,
                 BackupCommand(p) \/ PruneCommands(p) \/ Finish(p) \/ Abort(p)
          PROVE  LeakInv'
        BY <2>1, <2>3, LeakStep
    <2> QED
        BY <2>2, <2>3 DEF Next
<1>3. LeakInv => NothingLeaks
    BY DEF LeakInv, LeakOK, NothingLeaks, SnapshotsPruned, Retained
<1> QED
    BY <1>1, <1>2, <1>3, PTL DEF Spec

=============================================================================

---------------------------- MODULE BackupCycle ----------------------------
(***************************************************************************)
(* The backup, prune backups and prune snapshots commands (cmd/backup.go,   *)
(* cmd/prune.go) of one source and several destinations, run again and      *)
(* again by independent processes that share the source's snapshots, the    *)
(* destinations' files and the source's state file, and that may die at     *)
(* any point.                                                               *)
(*                                                                         *)
(* Each call that reads or writes shared state is a step; what a process    *)
(* read stays in its local variables until it uses it.  A destination is    *)
(* an atomic store: SendBackup either commits a whole backup or nothing.    *)
(* The clock never goes back, so that snapshot names are unique.            *)
(***************************************************************************)
EXTENDS Source

CONSTANTS
    Procs,           \* uback processes that may run at the same time
    Dests,           \* destinations, by the ID the state file records
    Overlap,         \* pairs of targets whose commands may run together
    UseStateFile,    \* whether StateFile is set
    FullInterval,    \* the option, 0 when it is not set
    SourcePolicies,  \* @RetentionPolicy of the source
    DestPolicies,    \* @RetentionPolicy of each destination
    Unreliable,      \* targets on which a removal may fail
    MaxTime          \* the clock stops here: a bound, not code

SourceTarget == "source"

Targets == Dests \cup {SourceTarget}

ASSUME CycleAssumption ==
    /\ SourceTarget \notin Dests
    /\ Overlap \subseteq Targets \X Targets
    /\ UseStateFile \in BOOLEAN
    /\ FullInterval \in Nat
    /\ SourcePolicies \in Seq(RetentionPolicy)
    /\ DestPolicies \in [Dests -> Seq(RetentionPolicy)]
    /\ Unreliable \subseteq Targets
    /\ MaxTime \in Nat

VARIABLES
    clock,       \* time.Now()
    store,       \* the backups present on each destination
    stateFile,   \* "absent", "valid", "empty" (being written) or "garbled"
    state,       \* last snapshot per destination in a valid file, NoBase: none
    (* locals of each process *)
    pc,          \* the call it makes next
    target,      \* what its command works on
    listed,      \* backups listed on the destination
    marks,       \* bookmarks listed on the source
    archs,       \* archives listed on the source (prune snapshots)
    base,        \* the base CreateBackup is asked for
    current,     \* the backup being made
    memory,      \* the state map in memory
    doomedA,     \* archives still to remove
    doomedK,     \* bookmarks still to remove
    doomedB      \* backups still to remove

locals == <<target, listed, marks, archs, base, current, memory,
            doomedA, doomedK, doomedB>>

fileVars == <<stateFile, state>>

vars == <<source, archives, bookmarks, clock, store, fileVars, pc, locals>>

(* A backup command before and after it has named the backup it makes.      *)
Choosing == {"listBookmarks", "listArchives", "create"}

Making == {"bookmark", "open", "finalize", "commit", "readState", "truncate",
           "write", "printed", "listArchivesToPrune"}

PCs == Choosing \cup Making \cup
       {"idle", "listBookmarksToPrune", "readStateToPrune", "removeSnapshots",
        "removeBackups"}

NoBackup == [snap |-> NoBase, base |-> NoBase]

EmptyState == [d \in Dests |-> NoBase]

(* The snapshots a state map names, and the destinations it has entries for. *)
Recorded(m) == {m[d] : d \in Dests} \ {NoBase}

Entries(m) == {d \in Dests : m[d] # NoBase}

(* Which command a process is in, by the call it makes next.                *)
PhaseOK(p) ==
    /\ pc[p] \in {"idle", "listBookmarksToPrune", "readStateToPrune"} =>
           target[p] = SourceTarget
    /\ pc[p] \in Choosing \cup Making \cup {"removeBackups"} => target[p] \in Dests
    /\ pc[p] \in Making \/ (pc[p] = "removeSnapshots" /\ target[p] \in Dests) =>
           current[p] \in Backup

TypeOK ==
    /\ SourceTypeOK
    /\ clock \in Snapshot
    /\ store \in [Dests -> SUBSET Backup]
    /\ stateFile \in {"absent", "valid", "empty", "garbled"}
    /\ state \in [Dests -> Nat]
    /\ pc \in [Procs -> PCs]
    /\ target \in [Procs -> Targets]
    /\ listed \in [Procs -> SUBSET Backup]
    /\ marks \in [Procs -> SUBSET Snapshot]
    /\ archs \in [Procs -> SUBSET Snapshot]
    /\ base \in [Procs -> Nat]
    /\ current \in [Procs -> Backup \cup {NoBackup}]
    /\ memory \in [Procs -> [Dests -> Nat]]
    /\ doomedA \in [Procs -> SUBSET Snapshot]
    /\ doomedK \in [Procs -> SUBSET Snapshot]
    /\ doomedB \in [Procs -> SUBSET Backup]
    /\ \A p \in Procs : PhaseOK(p)

Init ==
    /\ SourceInit
    /\ clock = 1
    /\ store = [d \in Dests |-> {}]
    /\ stateFile = "absent"
    /\ state = EmptyState
    /\ pc = [p \in Procs |-> "idle"]
    /\ target = [p \in Procs |-> SourceTarget]
    /\ listed = [p \in Procs |-> {}]
    /\ marks = [p \in Procs |-> {}]
    /\ archs = [p \in Procs |-> {}]
    /\ base = [p \in Procs |-> NoBase]
    /\ current = [p \in Procs |-> NoBackup]
    /\ memory = [p \in Procs |-> EmptyState]
    /\ doomedA = [p \in Procs |-> {}]
    /\ doomedK = [p \in Procs |-> {}]
    /\ doomedB = [p \in Procs |-> {}]

-----------------------------------------------------------------------------
(* Processes come and go.                                                   *)

Idle(p) == pc[p] = "idle"

MayStart(p, t) ==
    /\ Idle(p)
    /\ \A q \in Procs : Idle(q) \/ <<target[q], t>> \in Overlap

Goto(p, next) == pc' = [pc EXCEPT ![p] = next]

(* The process is gone and its memory with it.                              *)
Exit(p) ==
    /\ Goto(p, "idle")
    /\ target' = [target EXCEPT ![p] = SourceTarget]
    /\ listed' = [listed EXCEPT ![p] = {}]
    /\ marks' = [marks EXCEPT ![p] = {}]
    /\ archs' = [archs EXCEPT ![p] = {}]
    /\ base' = [base EXCEPT ![p] = NoBase]
    /\ current' = [current EXCEPT ![p] = NoBackup]
    /\ memory' = [memory EXCEPT ![p] = EmptyState]
    /\ doomedA' = [doomedA EXCEPT ![p] = {}]
    /\ doomedK' = [doomedK EXCEPT ![p] = {}]
    /\ doomedB' = [doomedB EXCEPT ![p] = {}]

(* A kill, a power cut, or logrus.Fatal after any call that failed.         *)
Abort(p) ==
    /\ ~Idle(p)
    /\ Exit(p)
    /\ UNCHANGED <<sourceVars, clock, store, fileVars>>

Tick ==
    /\ clock < MaxTime
    /\ clock' = clock + 1
    /\ UNCHANGED <<sourceVars, store, fileVars, pc, locals>>

-----------------------------------------------------------------------------
(* uback backup: choosing the base.                                         *)

StartBackup(p, d) ==
    /\ MayStart(p, d)
    /\ Goto(p, "listBookmarks")
    /\ target' = [target EXCEPT ![p] = d]
    /\ listed' = [listed EXCEPT ![p] = store[d]]
    /\ UNCHANGED <<sourceVars, clock, store, fileVars, marks, archs, base,
                   current, memory, doomedA, doomedK, doomedB>>

ListBookmarks(p) ==
    /\ pc[p] = "listBookmarks"
    /\ Goto(p, "listArchives")
    /\ marks' = [marks EXCEPT ![p] = bookmarks]
    /\ UNCHANGED <<sourceVars, clock, store, fileVars, target, listed, archs,
                   base, current, memory, doomedA, doomedK, doomedB>>

Newest(s, S) == s \in S /\ \A t \in S : t <= s

(* s is the base to ask for: the most recent backup whose snapshot the      *)
(* source still has, unless the last full backup (hence every one) is at    *)
(* least 90% of FullInterval old.                                           *)
LastCommon(s, backups, snapshots) ==
    LET common  == {b.snap : b \in backups} \cap snapshots
        fulls   == {b \in backups : IsFull(b)}
        fullDue == \A b \in fulls : 10 * (clock - b.snap) >= 9 * FullInterval
    IN  IF ~UseStateFile \/ fullDue \/ common = {}
        THEN s = NoBase ELSE Newest(s, common)

(* ListArchives, and the decision; \E forceFull is the --force-full flag.   *)
ChooseBase(p) ==
    /\ pc[p] = "listArchives"
    /\ Goto(p, "create")
    /\ \E forceFull \in BOOLEAN, s \in {NoBase} \cup {b.snap : b \in listed[p]} :
           /\ IF forceFull THEN s = NoBase
              ELSE LastCommon(s, listed[p], marks[p] \cup archives)
           /\ base' = [base EXCEPT ![p] = s]
    /\ marks' = [marks EXCEPT ![p] = {}]
    /\ UNCHANGED <<sourceVars, clock, store, fileVars, target, listed, archs,
                   current, memory, doomedA, doomedK, doomedB>>

-----------------------------------------------------------------------------
(* uback backup: the transfer.                                              *)

(* Mutant: CreateBackup fails and the command goes on without a backup.     *)
CreateBackupErrorIgnored(p) ==
    /\ pc[p] = "create"
    /\ Goto(p, "bookmark")
    /\ UNCHANGED <<sourceVars, clock, store, fileVars, locals>>

CreateBackupStep(p) ==
    /\ pc[p] = "create"
    /\ clock < MaxTime
    /\ \E effective \in {NoBase, base[p]} :
           /\ CreateBackup(clock, base[p], effective)
           /\ current' = [current EXCEPT ![p] =
                              [snap |-> clock, base |-> effective]]
    /\ clock' = clock + 1
    /\ Goto(p, "bookmark")
    /\ UNCHANGED <<store, fileVars, target, listed, marks, archs, base,
                   memory, doomedA, doomedK, doomedB>>

BookmarkStep(p) ==
    /\ pc[p] = "bookmark"
    /\ BookmarkZfs(current[p].snap)
    /\ Goto(p, "open")
    /\ UNCHANGED <<clock, store, fileVars, locals>>

OpenStep(p) ==
    /\ pc[p] = "open"
    /\ OpenBase(current[p])
    /\ Goto(p, "finalize")
    /\ UNCHANGED <<clock, store, fileVars, locals>>

FinalizeStep(p) ==
    /\ pc[p] = "finalize"
    /\ Finalize(current[p].snap)
    /\ Goto(p, "commit")
    /\ UNCHANGED <<clock, store, fileVars, locals>>

(* SendBackup has read EOF and moved the backup to its final name.          *)
Commit(p) ==
    /\ pc[p] = "commit"
    /\ store' = [store EXCEPT ![target[p]] = @ \cup {current[p]}]
    /\ Goto(p, IF UseStateFile THEN "readState" ELSE "printed")
    /\ UNCHANGED <<sourceVars, clock, fileVars, locals>>

-----------------------------------------------------------------------------
(* uback backup: the state file.  os.WriteFile truncates, then writes.      *)

(* Mutant: an empty file is one without entries.                            *)
ReadStateEmpty(p) ==
    /\ pc[p] = "readState"
    /\ stateFile # "garbled"
    /\ memory' = [memory EXCEPT ![p] =
                      [state EXCEPT ![target[p]] = current[p].snap]]
    /\ Goto(p, "truncate")
    /\ UNCHANGED <<sourceVars, clock, store, fileVars, target, listed, marks,
                   archs, base, current, doomedA, doomedK, doomedB>>

(* A file that is not JSON, be it empty, is fatal.                          *)
ReadState(p) ==
    /\ pc[p] = "readState"
    /\ stateFile \in {"absent", "valid"}
    /\ memory' = [memory EXCEPT ![p] =
                      [state EXCEPT ![target[p]] = current[p].snap]]
    /\ Goto(p, "truncate")
    /\ UNCHANGED <<sourceVars, clock, store, fileVars, target, listed, marks,
                   archs, base, current, doomedA, doomedK, doomedB>>

TruncateState(p) ==
    /\ pc[p] = "truncate"
    /\ stateFile' = "empty"
    /\ state' = EmptyState
    /\ Goto(p, "write")
    /\ UNCHANGED <<sourceVars, clock, store, locals>>

(* Whether writing m over a file some other process has written since our   *)
(* truncation may, or must, leave the tail of the longer text behind.       *)
Garbles(m) ==
    CASE stateFile = "garbled" -> BOOLEAN
      [] stateFile = "valid" ->
             {g \in BOOLEAN : /\ Entries(state) \subseteq Entries(m) => ~g
                              /\ (Entries(m) \subseteq Entries(state) /\
                                  Entries(m) # Entries(state)) => g}
      [] OTHER -> {FALSE}

WriteState(p) ==
    /\ pc[p] = "write"
    /\ \E garbled \in Garbles(memory[p]) :
           /\ stateFile' = IF garbled THEN "garbled" ELSE "valid"
           /\ state' = IF garbled THEN EmptyState ELSE memory[p]
    /\ Goto(p, "printed")
    /\ UNCHANGED <<sourceVars, clock, store, locals>>

-----------------------------------------------------------------------------
(* Pruning the source.  Removals go from the most recent down; one that     *)
(* fails is reported and skipped.                                           *)

(* The backup command lists bookmarks, then archives.                       *)
ListBookmarksToPrune(p) ==
    /\ pc[p] = "printed"
    /\ marks' = [marks EXCEPT ![p] = bookmarks]
    /\ Goto(p, "listArchivesToPrune")
    /\ UNCHANGED <<sourceVars, clock, store, fileVars, target, listed, archs,
                   base, current, memory, doomedA, doomedK, doomedB>>

DoomSnapshots(p, archived, bookmarked, m) ==
    LET pruned == GetPrunedSnapshots(archived, bookmarked, SourcePolicies, Recorded(m))
    IN  /\ doomedA' = [doomedA EXCEPT ![p] = pruned.archives]
        /\ doomedK' = [doomedK EXCEPT ![p] = pruned.bookmarks]

ListArchivesToPrune(p) ==
    /\ pc[p] = "listArchivesToPrune"
    /\ DoomSnapshots(p, archives, marks[p], memory[p])
    /\ Goto(p, "removeSnapshots")
    /\ UNCHANGED <<sourceVars, clock, store, fileVars, target, listed, marks,
                   archs, base, current, memory, doomedB>>

(* --no-prune.                                                              *)
SkipPrune(p) ==
    /\ pc[p] = "printed"
    /\ Exit(p)
    /\ UNCHANGED <<sourceVars, clock, store, fileVars>>

RemoveArchiveStep(p) ==
    /\ pc[p] = "removeSnapshots"
    /\ \E s \in doomedA[p], removed \in {TRUE, SourceTarget \notin Unreliable} :
           /\ Newest(s, doomedA[p])
           /\ RemoveArchive(s, removed)
           /\ doomedA' = [doomedA EXCEPT ![p] = @ \ {s}]
    /\ UNCHANGED <<clock, store, fileVars, pc, target, listed, marks, archs,
                   base, current, memory, doomedK, doomedB>>

RemoveBookmarkStep(p) ==
    /\ pc[p] = "removeSnapshots"
    /\ doomedA[p] = {}
    /\ \E s \in doomedK[p], removed \in {TRUE, SourceTarget \notin Unreliable} :
           /\ Newest(s, doomedK[p])
           /\ RemoveBookmark(s, removed)
           /\ doomedK' = [doomedK EXCEPT ![p] = @ \ {s}]
    /\ UNCHANGED <<clock, store, fileVars, pc, target, listed, marks, archs,
                   base, current, memory, doomedA, doomedB>>

SnapshotsPruned(p) ==
    /\ pc[p] = "removeSnapshots"
    /\ doomedA[p] = {}
    /\ doomedK[p] = {}

-----------------------------------------------------------------------------
(* Pruning a destination.                                                   *)

PrunedBackups(d, backups) ==
    GetPrunedBackups(backups, SortedListBackups(backups), DestPolicies[d])

(* Mutant: the new backup comes after those listed.                         *)
DoomBackupsNewLast(p) ==
    /\ doomedB' = [doomedB EXCEPT ![p] =
                       GetPrunedBackups(listed[p] \cup {current[p]},
                                        NewBackupLast(current[p], SortedListBackups(listed[p])),
                                        DestPolicies[target[p]])]
    /\ Goto(p, "removeBackups")
    /\ UNCHANGED <<sourceVars, clock, store, fileVars, target, listed, marks,
                   archs, base, current, memory, doomedA, doomedK>>

(* The backup command prunes what it listed at its start and what it added. *)
DoomBackups(p) ==
    /\ doomedB' = [doomedB EXCEPT ![p] =
                       PrunedBackups(target[p], listed[p] \cup {current[p]})]
    /\ Goto(p, "removeBackups")
    /\ UNCHANGED <<sourceVars, clock, store, fileVars, target, listed, marks,
                   archs, base, current, memory, doomedA, doomedK>>

PruneBackups(p) ==
    /\ SnapshotsPruned(p)
    /\ target[p] \in Dests
    /\ DoomBackups(p)

(* It does so too when it could not list what to prune on the source.       *)
ListingFails(p) ==
    /\ pc[p] \in {"printed", "listArchivesToPrune"}
    /\ DoomBackups(p)

(* Mutant: bases are removed before what depends on them.                   *)
RemoveBackupOldestFirst(p) ==
    /\ pc[p] = "removeBackups"
    /\ \E b \in doomedB[p] :
           /\ \A c \in doomedB[p] : b.snap <= c.snap
           /\ store' = [store EXCEPT ![target[p]] = @ \ {b}]
           /\ doomedB' = [doomedB EXCEPT ![p] = @ \ {b}]
    /\ UNCHANGED <<sourceVars, clock, fileVars, pc, target, listed, marks,
                   archs, base, current, memory, doomedA, doomedK>>

RemoveBackup(p) ==
    /\ pc[p] = "removeBackups"
    /\ \E b \in doomedB[p], removed \in {TRUE, target[p] \notin Unreliable} :
           /\ Newest(b.snap, {c.snap : c \in doomedB[p]})
           /\ store' = [store EXCEPT ![target[p]] = IF removed THEN @ \ {b} ELSE @]
           /\ doomedB' = [doomedB EXCEPT ![p] = @ \ {b}]
    /\ UNCHANGED <<sourceVars, clock, fileVars, pc, target, listed, marks,
                   archs, base, current, memory, doomedA, doomedK>>

(* uback prune backups: list, decide, then remove like the above.           *)
StartPruneBackups(p, d) ==
    /\ MayStart(p, d)
    /\ target' = [target EXCEPT ![p] = d]
    /\ doomedB' = [doomedB EXCEPT ![p] = PrunedBackups(d, store[d])]
    /\ Goto(p, "removeBackups")
    /\ UNCHANGED <<sourceVars, clock, store, fileVars, listed, marks, archs,
                   base, current, memory, doomedA, doomedK>>

-----------------------------------------------------------------------------
(* uback prune snapshots: archives, bookmarks, state file, in that order.   *)

StartPruneSnapshots(p) ==
    /\ MayStart(p, SourceTarget)
    /\ archs' = [archs EXCEPT ![p] = archives]
    /\ Goto(p, "listBookmarksToPrune")
    /\ UNCHANGED <<sourceVars, clock, store, fileVars, target, listed, marks,
                   base, current, memory, doomedA, doomedK, doomedB>>

ListBookmarksOfCommand(p) ==
    /\ pc[p] = "listBookmarksToPrune"
    /\ marks' = [marks EXCEPT ![p] = bookmarks]
    /\ Goto(p, "readStateToPrune")
    /\ UNCHANGED <<sourceVars, clock, store, fileVars, target, listed, archs,
                   base, current, memory, doomedA, doomedK, doomedB>>

(* Without StateFile the state is empty and nothing is protected; a file    *)
(* that does not exist yet forces a dry run instead (DryRun below).         *)
ReadStateToPrune(p) ==
    /\ pc[p] = "readStateToPrune"
    /\ UseStateFile => stateFile = "valid"
    /\ DoomSnapshots(p, archs[p], marks[p], state)
    /\ Goto(p, "removeSnapshots")
    /\ UNCHANGED <<sourceVars, clock, store, fileVars, target, listed, marks,
                   archs, base, current, memory, doomedB>>

DryRun(p) ==
    /\ pc[p] = "readStateToPrune"
    /\ UseStateFile /\ stateFile = "absent"
    /\ Exit(p)
    /\ UNCHANGED <<sourceVars, clock, store, fileVars>>

(* The command ends.                                                        *)
Finish(p) ==
    /\ \/ pc[p] = "removeBackups" /\ doomedB[p] = {}
       \/ SnapshotsPruned(p) /\ target[p] = SourceTarget
    /\ Exit(p)
    /\ UNCHANGED <<sourceVars, clock, store, fileVars>>

-----------------------------------------------------------------------------
BackupCommand(p) ==
    \/ \E d \in Dests : StartBackup(p, d)
    \/ ListBookmarks(p) \/ ChooseBase(p)
    \/ CreateBackupStep(p) \/ BookmarkStep(p) \/ OpenStep(p)
    \/ FinalizeStep(p) \/ Commit(p)
    \/ ReadState(p) \/ TruncateState(p) \/ WriteState(p)
    \/ ListBookmarksToPrune(p) \/ ListArchivesToPrune(p) \/ ListingFails(p)
    \/ SkipPrune(p)
    \/ RemoveArchiveStep(p) \/ RemoveBookmarkStep(p)
    \/ PruneBackups(p) \/ RemoveBackup(p)

PruneCommands(p) ==
    \/ \E d \in Dests : StartPruneBackups(p, d)
    \/ StartPruneSnapshots(p) \/ ListBookmarksOfCommand(p)
    \/ ReadStateToPrune(p) \/ DryRun(p)

Next ==
    \/ Tick
    \/ \E p \in Procs :
           BackupCommand(p) \/ PruneCommands(p) \/ Finish(p) \/ Abort(p)

Spec == Init /\ [][Next]_vars

-----------------------------------------------------------------------------
(* Properties.                                                              *)

(* Every backup on a destination can be restored from what is on that       *)
(* destination, at every moment: also half way through a prune or after a   *)
(* process died in one.  It rests on the order in which PruneBackups        *)
(* removes, and needs removals that work and one command at a time on a     *)
(* destination (lib/retention.go PruneBackups, cmd/prune.go).               *)
StoreRestorable ==
    \A d \in Dests \ Unreliable : \A b \in store[d] : Restorable(b, store[d])

(* Where removals fail, PruneBackups goes on and removes the base of a      *)
(* backup that stayed.  But only a backup that was to be pruned is lost so: *)
(* one that can be restored and that a prune of what is there would keep is *)
(* still there after any step, and can still be restored (lib/retention.go  *)
(* PruneBackups).                                                           *)
RetainedStayRestorable ==
    [][\A d \in Dests : \A b \in store[d] \ PrunedBackups(d, store[d]) :
          Restorable(b, store[d]) => b \in store'[d] /\ Restorable(b, store'[d])]_vars

(* A removal decided on an old listing is still one the policies allow when *)
(* it happens: nothing leaves a destination that a prune of what is there   *)
(* now would keep (cmd/backup.go prunes the listing it made at its start).  *)
PruneIsCurrent ==
    [][\A d \in Dests : store[d] \ store'[d] \subseteq PrunedBackups(d, store[d])]_vars

(* doc/reference.md: the StateFile keeps track of the last backup present   *)
(* on every destination.  That backup is there with its whole chain, or a   *)
(* more recent one is, from a process that died before it recorded it: no   *)
(* prune takes a destination back behind what the state file says.          *)
RecordedBackupPresent ==
    \A d \in Dests : state[d] # NoBase =>
        \E b \in store[d] : b.snap >= state[d] /\ Restorable(b, store[d])

(* doc/reference.md: snapshots referenced in StateFile are always retained, *)
(* as an archive or as a bookmark (lib/retention.go PruneSnapshots); a      *)
(* source that keeps none has nothing to retain.                            *)
StateSnapshotsRetained ==
    KeepsSnapshots => Recorded(state) \subseteq archives \cup bookmarks

(* A kill between the truncation and the write spoils the state file.       *)
Writers == {p \in Procs : pc[p] = "write"}

Spoiled == stateFile = "garbled" \/ (stateFile = "empty" /\ Writers = {})

Content == IF Writers = {} THEN state ELSE memory[CHOOSE p \in Writers : TRUE]

(* The state file never goes back: an update of one destination's entry     *)
(* leaves those of the others, and a file that a kill has spoiled is never  *)
(* taken for one without entries, on which a prune would remove what the    *)
(* others need (cmd/backup.go, lib/retention.go PruneSnapshots).            *)
StateForgetsNothing ==
    [][Spoiled' \/ (~Spoiled /\ \A d \in Dests : Content[d] <= Content'[d])]_vars

(* doc/tutorial.md: of the bookmarks only those present in StateFile are    *)
(* retained, of the archives those a policy or StateFile asks for.  When a  *)
(* process is done pruning the source nothing else is left, whatever        *)
(* earlier processes left behind when they died.                            *)
NothingLeaks ==
    \A p \in Procs : SnapshotsPruned(p) /\ stateFile = "valid" =>
        /\ bookmarks \subseteq Recorded(state)
        /\ archives \subseteq
               Recorded(state) \cup
               ApplyRetentionPolicies(SourcePolicies, SortedListArchives(archives))
=============================================================================

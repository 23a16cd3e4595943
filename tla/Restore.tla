------------------------------- MODULE Restore -------------------------------
(***************************************************************************)
(* The restore and fetch commands (cmd/restore.go, cmd/fetch.go), the       *)
(* ReceiveBackup of the destinations and the RestoreBackup of the sources   *)
(* they call.  One restore and one fetch at a time work in the same         *)
(* directory, again and again; either may die at any point, and backups may *)
(* be pruned from the destination meanwhile.                                *)
(*                                                                         *)
(* What a restored directory holds is a snapshot, nothing (NoBase, what a   *)
(* full backup goes onto) or neither: a backup extracted over the content   *)
(* of its base gives the content of its snapshot.  As doc/src-tar.md says   *)
(* of tar, files deleted between the two are not told apart.                *)
(***************************************************************************)
EXTENDS Retention

CONSTANTS
    Names,   \* snapshots that may be restored
    Stores,  \* what a destination may hold at first
    Routes,    \* what is restored and where from
    MaxStarts  \* commands that are run: a bound, not code

Route ==
    [kind        : {"tar", "mariabackup", "btrfs", "zfs"},
     dest        : {"file", "btrfs", "zfs"},   \* file: it stores containers
     proxied     : BOOLEAN,                    \* the destination
     plain       : BOOLEAN,                    \* containers are not encrypted
     versionless : BOOLEAN]  \* mariabackup in podman: no version is found

ASSUME RestoreAssumption ==
    /\ Names \subseteq Snapshot
    /\ Routes \subseteq Route
    /\ \A r \in Routes : r.dest # "file" => r.plain
    /\ MaxStarts \in Nat
    /\ \A S \in Stores :
           /\ S \subseteq [snap : Names, base : Nat]
           /\ \A b \in S : b.base < b.snap
           /\ \A b, c \in S : b.snap = c.snap => b = c

VARIABLES
    route,    \* chosen once
    starts,   \* commands that were run
    store,    \* backups on the destination
    dirs,     \* what the directory of each snapshot holds
    tmp,      \* btrfs: the _tmp- subvolumes in the target directory
    sound,    \* backup files in the target directory: whole containers
    unsound,  \* backup files that are not
    (* the restore command *)
    rpc,      \* the call it makes next
    chain,    \* the backups it restores
    left,     \* those it has not restored yet
    input,    \* the stream it reads
    outcome,  \* of the last restore command
    (* the fetch command *)
    fpc,
    fleft,
    goal,     \* the backup fetched with its whole chain, if any
    fetched   \* outcome of the last fetch command

target == <<dirs, tmp>>
files == <<sound, unsound>>
restoring == <<rpc, chain, left, input, outcome>>
fetching == <<fpc, fleft, goal, fetched>>

vars == <<route, starts, store, target, files, restoring, fetching>>

Mixed == -1

Content == [present : BOOLEAN, of : {NoBase, Mixed} \cup Names]

Absent == [present |-> FALSE, of |-> NoBase]

Holding(s) == [present |-> TRUE, of |-> s]

Outcomes == {"none", "pending", "ok", "failed"}

Newest(b, B) == \A c \in B : c.snap <= b.snap

Oldest(b, B) == \A c \in B : b.snap <= c.snap

TypeOK ==
    /\ route \in Route
    /\ starts \in 0 .. MaxStarts
    /\ store \in SUBSET Backup
    /\ dirs \in [Names -> Content]
    /\ tmp \subseteq Names
    /\ sound \in SUBSET Backup
    /\ unsound \in SUBSET Backup
    /\ rpc \in {"idle", "open", "header", "clear", "place", "extract",
                "prepare", "discard", "rename"}
    /\ chain \in SUBSET [snap : Names, base : Nat]
    /\ left \subseteq chain
    /\ input \in {"none", "whole", "cut", "empty", "short", "raw", "hung"}
    /\ outcome \in Outcomes
    /\ fpc \in {"idle", "open", "copy", "hung"}
    /\ fleft \in SUBSET [snap : Names, base : Nat]
    /\ goal \in SUBSET Backup
    /\ fetched \in Outcomes
    /\ rpc = "idle" <=> left = {}
    /\ fpc = "idle" <=> fleft = {}

Init ==
    /\ route \in Routes
    /\ starts = 0
    /\ store \in Stores
    /\ dirs = [s \in Names |-> Absent]
    /\ tmp = {}
    /\ sound = {} /\ unsound = {}
    /\ rpc = "idle" /\ chain = {} /\ left = {} /\ input = "none" /\ outcome = "none"
    /\ fpc = "idle" /\ fleft = {} /\ goal = {} /\ fetched = "none"

(* ListBackups: btrfs and zfs destinations say every backup is full, and    *)
(* send it as one.                                                          *)
Listing ==
    IF route.dest = "file" THEN store ELSE [snap : {b.snap : b \in store}, base : {NoBase}]

(* Another command is run; the bound is the model's.                        *)
Start == starts < MaxStarts /\ starts' = starts + 1

-----------------------------------------------------------------------------
(* uback restore.  The backup is the newest whose name has the given        *)
(* prefix: any of them, since a prefix may be the name.                     *)

RestoreFails ==
    /\ rpc' = "idle"
    /\ chain' = {} /\ left' = {}
    /\ input' = "none"
    /\ outcome' = "failed"

StartRestore ==
    /\ Start
    /\ rpc = "idle"
    /\ \E b \in Listing :
           /\ Restorable(b, Listing)
           /\ chain' = GetFullChain(b, Listing)
           /\ left' = chain'
    /\ rpc' = "open"
    /\ input' = "none"
    /\ outcome' = "pending"
    /\ UNCHANGED <<route, store, target, files, fetching>>

(* "cannot find backup", or a chain without a full backup.                  *)
NothingToRestore ==
    /\ Start
    /\ rpc = "idle"
    /\ Listing = {} \/ \E b \in Listing : ~Restorable(b, Listing)
    /\ RestoreFails
    /\ UNCHANGED <<route, store, target, files, fetching>>

(* Mutant: the last backup of the chain is not noticed.                     *)
RestoredForever(b) ==
    /\ left' = left \ {b}
    /\ rpc' = "open"
    /\ UNCHANGED <<route, starts, store, files, chain, input, outcome, fetching>>

(* The end of RestoreBackup: on to the next backup of the chain.            *)
Restored(b) ==
    /\ left' = left \ {b}
    /\ IF left' = {} THEN rpc' = "idle" /\ outcome' = "ok"
       ELSE rpc' = "open" /\ UNCHANGED outcome
    /\ UNCHANGED <<route, starts, store, files, chain, input, fetching>>

(* What is read.  A stream may be cut, with an error, but a plain container *)
(* that is cut right after its header reads as an empty one.  A btrfs       *)
(* destination, whose containers are plain, closes that of a send that      *)
(* failed like a whole one; a zfs destination sends no container at all.    *)
Streams ==
    CASE route.dest = "file" -> {"whole", "cut"} \cup (IF route.plain THEN {"empty"} ELSE {})
      [] route.dest = "btrfs" -> {"whole", "cut", "empty", "short"}
      [] OTHER -> {"raw"}

(* A file of the backup's name in the target directory is preferred,        *)
(* --local or not; one that is being fetched may be read up to its end.     *)
OpenLocal(b) ==
    /\ rpc = "open"
    /\ b \in sound \cup unsound
    /\ input' \in CASE b \in sound -> {"whole"}
                    [] fpc = "copy" /\ b \in fleft /\ Oldest(b, fleft) -> Streams
                    [] OTHER -> Streams \ {"whole"}
    /\ rpc' = "header"
    /\ UNCHANGED <<route, starts, store, target, files, chain, left, outcome, fetching>>

ReceiveBackup(b) ==
    /\ rpc = "open"
    /\ b \notin sound \cup unsound
    /\ b \in Listing
    /\ input' \in Streams
    /\ rpc' = "header"
    /\ UNCHANGED <<route, starts, store, target, files, chain, left, outcome, fetching>>

(* The backup has been pruned.  A remote call that fails without a byte     *)
(* sent leaves the stream open, and its reader waiting for ever.            *)
ReceiveFails(b) ==
    /\ rpc = "open"
    /\ b \notin Listing \cup sound \cup unsound
    /\ IF route.proxied
       THEN rpc' = "header" /\ input' = "hung" /\ UNCHANGED <<chain, left, outcome>>
       ELSE RestoreFails
    /\ UNCHANGED <<route, starts, store, target, files, fetching>>

(* NewReader and Unseal.                                                    *)
ReadHeader(b) ==
    /\ rpc = "header"
    /\ input \in {"whole", "cut", "empty", "short"}
    /\ rpc' = IF route.kind \in {"tar", "mariabackup"} THEN "clear" ELSE "extract"
    /\ UNCHANGED <<route, starts, store, target, files, chain, left, input, outcome, fetching>>

HeaderFails(b) ==
    /\ rpc = "header"
    /\ input \in {"raw", "cut"}
    /\ RestoreFails
    /\ UNCHANGED <<route, starts, store, target, files, fetching>>

-----------------------------------------------------------------------------
(* RestoreBackup, kind by kind.                                             *)

(* What a directory holding `of' holds once b has been extracted over it.   *)
Over(b, of) == IF of = b.base THEN b.snap ELSE Mixed

Present == {s \in Names : dirs[s].present}

(* os.MkdirAll: a directory that exists is kept as it is.                   *)
Made(s) == IF s \in Present THEN dirs ELSE [dirs EXCEPT ![s] = Holding(NoBase)]

(* Mutant: the restored base is copied, not moved.                          *)
Copied(from, to) == [dirs EXCEPT ![to] = dirs[from]]

Moved(from, to) == [dirs EXCEPT ![from] = Absent, ![to] = dirs[from]]

Goto(next) ==
    /\ rpc' = next
    /\ UNCHANGED <<route, starts, store, files, chain, left, input, outcome, fetching>>

(* Mutant: nothing is removed first.                                        *)
ClearNothing(b) ==
    /\ rpc = "clear"
    /\ Goto("place")
    /\ UNCHANGED target

(* tar and mariabackup start by removing what has the snapshot's name.      *)
Clear(b) ==
    /\ rpc = "clear"
    /\ dirs' = [dirs EXCEPT ![b.snap] = Absent]
    /\ Goto("place")
    /\ UNCHANGED tmp

(* tar moves the restored base to its new name and extracts over it.        *)
TarPlace(b) ==
    /\ rpc = "place" /\ route.kind = "tar"
    /\ IF IsFull(b) THEN dirs' = Made(b.snap)
       ELSE b.base \in Present /\ b.snap \notin Present /\ dirs' = Moved(b.base, b.snap)
    /\ Goto("extract")
    /\ UNCHANGED tmp

TarExtract(b) ==
    /\ rpc = "extract" /\ route.kind = "tar"
    /\ input = "whole"
    /\ dirs' = [dirs EXCEPT ![b.snap] = Holding(Over(b, dirs[b.snap].of))]
    /\ Restored(b)
    /\ UNCHANGED tmp

(* tar finds nothing wrong with an empty archive.                           *)
TarExtractsNothing(b) ==
    /\ rpc = "extract" /\ route.kind = "tar"
    /\ input = "empty"
    /\ Restored(b)
    /\ UNCHANGED target

(* mariabackup extracts into a directory of its own ...                     *)
MariabackupPlace(b) ==
    /\ rpc = "place" /\ route.kind = "mariabackup"
    /\ dirs' = Made(b.snap)
    /\ Goto("extract")
    /\ UNCHANGED tmp

MariabackupExtract(b) ==
    /\ rpc = "extract" /\ route.kind = "mariabackup"
    /\ input \in {"whole", "empty"}
    /\ dirs' = [dirs EXCEPT ![b.snap] = Holding(Mixed)]
    /\ Goto("prepare")
    /\ UNCHANGED tmp

(* ... which is prepared, for a full backup, or merged into the base's,     *)
(* which then takes its place; an empty one cannot be.                      *)
PrepareFull(b) ==
    /\ rpc = "prepare" /\ ~route.versionless
    /\ input = "whole"
    /\ IsFull(b)
    /\ dirs' = [dirs EXCEPT ![b.snap] = Holding(b.snap)]
    /\ Restored(b)
    /\ UNCHANGED tmp

Merge(b) ==
    /\ rpc = "prepare" /\ ~route.versionless
    /\ input = "whole"
    /\ ~IsFull(b) /\ b.base \in Present
    /\ dirs' = [dirs EXCEPT ![b.base] = Holding(Over(b, dirs[b.base].of))]
    /\ Goto("discard")
    /\ UNCHANGED tmp

Discard(b) ==
    /\ rpc = "discard"
    /\ dirs' = [dirs EXCEPT ![b.snap] = Absent]
    /\ Goto("rename")
    /\ UNCHANGED tmp

MariabackupRename(b) ==
    /\ rpc = "rename" /\ route.kind = "mariabackup"
    /\ b.snap \notin Present
    /\ dirs' = Moved(b.base, b.snap)
    /\ Restored(b)
    /\ UNCHANGED tmp

(* In podman, a backup whose information names no server version is left    *)
(* unprepared, without an error.                                            *)
PrepareSkipped(b) ==
    /\ rpc = "prepare" /\ route.versionless
    /\ input = "whole"
    /\ Restored(b)
    /\ UNCHANGED target

(* btrfs receive creates the subvolume the source sent, a _tmp- one; it     *)
(* finds the base wherever it is, and may take a short stream for whole.    *)
BtrfsReceive(b) ==
    /\ rpc = "extract" /\ route.kind = "btrfs"
    /\ input \in {"whole", "short"}
    /\ b.snap \notin tmp
    /\ IsFull(b) \/ \E s \in Names : dirs[s] = Holding(b.base)
    /\ tmp' = tmp \cup {b.snap}
    /\ Goto("rename")
    /\ UNCHANGED dirs

BtrfsRename(b) ==
    /\ rpc = "rename" /\ route.kind = "btrfs"
    /\ b.snap \notin Present
    /\ tmp' = tmp \ {b.snap}
    /\ dirs' = [dirs EXCEPT ![b.snap] = Holding(IF input = "short" THEN Mixed ELSE b.snap)]
    /\ Restored(b)

(* zfs receive creates the dataset, or goes on from its newest snapshot.    *)
ZfsReceive(b) ==
    /\ rpc = "extract" /\ route.kind = "zfs"
    /\ input = "whole"
    /\ \A s \in Present : s <= b.base
    /\ b.base \in {NoBase} \cup Present
    /\ dirs' = [dirs EXCEPT ![b.snap] = Holding(b.snap)]
    /\ Restored(b)
    /\ UNCHANGED tmp

RestoreBackup(b) ==
    \/ Clear(b) \/ TarPlace(b) \/ TarExtract(b) \/ TarExtractsNothing(b)
    \/ MariabackupPlace(b) \/ MariabackupExtract(b) \/ PrepareFull(b) \/ Merge(b)
    \/ Discard(b) \/ MariabackupRename(b) \/ PrepareSkipped(b)
    \/ BtrfsReceive(b) \/ BtrfsRename(b) \/ ZfsReceive(b)

(* Any call may fail, one that cannot do its work does, and any failure or  *)
(* a kill is the end of the command; what an interrupted extraction, merge  *)
(* or removal leaves is anything.                                           *)
Touched(b) ==
    CASE rpc \in {"clear", "extract", "discard"} -> {b.snap}
      [] rpc = "prepare" -> {b.snap, b.base}
      [] OTHER -> {}

RestoreDies(b) ==
    /\ rpc # "idle"
    /\ RestoreFails
    /\ IF route.kind \in {"tar", "mariabackup"}
       THEN /\ dirs' \in {dirs} \cup {[dirs EXCEPT ![s] = Holding(Mixed)] :
                                      s \in Touched(b) \ {NoBase}}
            /\ UNCHANGED tmp
       ELSE /\ tmp' \in {tmp} \cup (IF rpc = "extract" /\ route.kind = "btrfs"
                                    THEN {tmp \cup {b.snap}} ELSE {})
            /\ UNCHANGED dirs
    /\ UNCHANGED <<route, starts, store, files, fetching>>

-----------------------------------------------------------------------------
(* uback fetch.                                                             *)

(* Mutant: only the base itself is fetched too.                             *)
WalkOnce(b, backups) == {c \in backups : c = b \/ c.snap = b.base}

(* The loop of GetFullChain, also when it ends at a missing base.           *)
Walk(b, backups) ==
    {c \in backups :
        \A S \in SUBSET backups :
            (b \in S /\ \A d \in S, e \in backups : e.snap = d.base => e \in S) => c \in S}

StartFetch ==
    /\ Start
    /\ fpc = "idle"
    /\ \E b \in Listing, recursive \in BOOLEAN :
           /\ fleft' = IF recursive THEN Walk(b, Listing) ELSE {b}
           /\ goal' = IF recursive /\ Restorable(b, Listing) THEN {b} ELSE {}
    /\ fpc' = "open"
    /\ fetched' = "pending"
    /\ UNCHANGED <<route, store, target, files, restoring>>

FetchFails ==
    /\ fpc' = "idle"
    /\ fleft' = {} /\ goal' = {}
    /\ fetched' = "failed"

(* ReceiveBackup, then the file is created or truncated.                    *)
FetchOpen(b) ==
    /\ fpc = "open"
    /\ b \in Listing
    /\ sound' = sound \ {b}
    /\ unsound' = unsound \cup {b}
    /\ fpc' = "copy"
    /\ UNCHANGED <<route, starts, store, target, restoring, fleft, goal, fetched>>

(* The backup has been pruned; ftp reports it when the file exists already. *)
FetchGone(b) ==
    /\ fpc = "open"
    /\ b \notin Listing
    /\ \E created \in BOOLEAN :
           /\ sound' = IF created \/ route.proxied THEN sound \ {b} ELSE sound
           /\ unsound' = IF created \/ route.proxied THEN unsound \cup {b} ELSE unsound
    /\ IF route.proxied THEN fpc' = "hung" /\ UNCHANGED <<fleft, goal, fetched>>
       ELSE FetchFails
    /\ UNCHANGED <<route, starts, store, target, restoring>>

FetchCopied(b) ==
    /\ fpc = "copy"
    /\ \E s \in IF route.dest = "file" THEN {TRUE}
                ELSE IF route.dest = "btrfs" THEN BOOLEAN ELSE {FALSE} :
           /\ sound' = IF s THEN sound \cup {b} ELSE sound
           /\ unsound' = IF s THEN unsound \ {b} ELSE unsound
    /\ fleft' = fleft \ {b}
    /\ IF fleft' = {} THEN fpc' = "idle" /\ fetched' = "ok"
       ELSE fpc' = "open" /\ UNCHANGED fetched
    /\ UNCHANGED <<route, starts, store, target, restoring, goal>>

FetchDies ==
    /\ fpc # "idle"
    /\ FetchFails
    /\ UNCHANGED <<route, starts, store, target, files, restoring>>

-----------------------------------------------------------------------------
(* A prune command removes a backup of the destination.                     *)
Prune(b) ==
    /\ store' = store \ {b}
    /\ UNCHANGED <<route, starts, target, files, restoring, fetching>>

RestoreCommand(b) ==
    \/ OpenLocal(b) \/ ReceiveBackup(b) \/ ReceiveFails(b)
    \/ ReadHeader(b) \/ HeaderFails(b) \/ RestoreBackup(b)

FetchCommand(b) == FetchOpen(b) \/ FetchGone(b) \/ FetchCopied(b)

Restoring ==
    \E b \in left : Oldest(b, left) /\ RestoreCommand(b)

Next ==
    \/ StartRestore \/ NothingToRestore \/ Restoring
    \/ \E b \in left : Oldest(b, left) /\ RestoreDies(b)
    \/ StartFetch \/ FetchDies
    \/ \E b \in fleft : Oldest(b, fleft) /\ FetchCommand(b)
    \/ \E b \in store : Prune(b)

Spec == Init /\ [][Next]_vars

-----------------------------------------------------------------------------
(* Properties.                                                              *)

(* A restore that reports success has left the content of the snapshot that *)
(* was asked for under its name, whatever earlier restores and fetches that *)
(* died left in the directory and whatever is pruned meanwhile.  A btrfs    *)
(* destination whose send failed is the exception (cmd/restore.go, the      *)
(* RestoreBackup of every source).                                          *)
RestoredExactly ==
    outcome = "ok" /\ input # "short" =>
        \A b \in chain : Newest(b, chain) => dirs[b.snap] = Holding(b.snap)

(* After it, none of the other names of the chain is left with something    *)
(* that looks like a restored snapshot and is not: tar and mariabackup have *)
(* moved every base on, btrfs and zfs keep it as it was.                    *)
NoImpostors ==
    outcome = "ok" /\ input # "short" =>
        \A b \in chain : ~Newest(b, chain) =>
            dirs[b.snap] = IF route.kind \in {"tar", "mariabackup"}
                           THEN Absent ELSE Holding(b.snap)

(* A recursive fetch that succeeds has left, as whole files, all that is    *)
(* needed to restore the backup (cmd/fetch.go).                             *)
FetchedRestorable ==
    fetched = "ok" /\ route.dest = "file" => \A b \in goal : Restorable(b, sound)
=============================================================================

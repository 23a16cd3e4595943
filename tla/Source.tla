------------------------------- MODULE Source -------------------------------
(***************************************************************************)
(* A backup source (lib/interfaces.go Source) of one of the four built-in   *)
(* snapshotting kinds, as the backup command drives it.                     *)
(*                                                                         *)
(* archives and bookmarks are what ListArchives and ListBookmarks return:   *)
(* work in progress under a _tmp- name is not listed and is not modelled.   *)
(* CreateBackup is three steps, because the commands it runs and the        *)
(* finalize callback of WrapSourceCommand leave marks other runs can see:   *)
(*   CreateBackup  choose the effective base, take the snapshot;            *)
(*   OpenBase      the sending command finds its incremental base;          *)
(*   Finalize      the command is done, its snapshot gets its final name,   *)
(*                 and only then the reader sees EOF.                       *)
(* ReuseSnapshots is unset; module Reuse has it.                            *)
(***************************************************************************)
EXTENDS Retention

CONSTANT Sources  \* the configurations a source may have

SourceConfig ==
    [kind          : {"tar", "mariabackup", "btrfs", "zfs"},
     snapshotsPath : BOOLEAN,   \* tar, mariabackup, btrfs: the option is set
     useBookmarks  : BOOLEAN]   \* zfs: the option of that name

ASSUME SourceAssumption == Sources \subseteq SourceConfig

VARIABLES
    source,     \* its configuration, chosen once
    archives,   \* snapshots subject to retention policies
    bookmarks   \* snapshots that only serve as incremental bases

sourceVars == <<source, archives, bookmarks>>

SourceTypeOK ==
    /\ source \in SourceConfig
    /\ archives \subseteq Snapshot
    /\ bookmarks \subseteq Snapshot

SourceInit ==
    /\ source \in Sources
    /\ archives = {}
    /\ bookmarks = {}

(* The others only make full backups.                                       *)
KeepsSnapshots == source.kind = "zfs" \/ source.snapshotsPath

-----------------------------------------------------------------------------
(* CreateBackup.  s is the snapshot's name, base the base asked for,        *)
(* effective the base of the backup that is really made.                    *)

(* tar copies the base's listed-incremental file, and falls back to a full  *)
(* backup when it cannot, for lack of a base or for another reason.         *)
TarCreateBackup(s, base, effective) ==
    /\ source.kind = "tar"
    /\ effective \in IF source.snapshotsPath /\ base \in bookmarks THEN {base, NoBase} ELSE {NoBase}
    /\ UNCHANGED sourceVars

(* mariabackup reads the base's server version: an unreadable base is an    *)
(* error, another version than the server's makes the backup full.          *)
MariabackupCreateBackup(s, base, effective) ==
    /\ source.kind = "mariabackup"
    /\ base = NoBase \/ base \in bookmarks
    /\ effective \in IF source.snapshotsPath THEN {base, NoBase} ELSE {NoBase}
    /\ UNCHANGED sourceVars

(* btrfs takes the read-only snapshot under a _tmp- name.                   *)
BtrfsCreateBackup(s, base, effective) ==
    /\ source.kind = "btrfs"
    /\ effective = IF source.snapshotsPath THEN base ELSE NoBase
    /\ UNCHANGED sourceVars

(* zfs takes the snapshot under its final name ...                          *)
ZfsCreateBackup(s, base, effective) ==
    /\ source.kind = "zfs"
    /\ effective = base
    /\ archives' = archives \cup {s}
    /\ UNCHANGED <<source, bookmarks>>

CreateBackup(s, base, effective) ==
    \/ TarCreateBackup(s, base, effective)
    \/ MariabackupCreateBackup(s, base, effective)
    \/ BtrfsCreateBackup(s, base, effective)
    \/ ZfsCreateBackup(s, base, effective)

(* ... and bookmarks it in a second command.                                *)
BookmarkZfs(s) ==
    /\ bookmarks' = IF source.kind = "zfs" /\ source.useBookmarks
                    THEN bookmarks \cup {s} ELSE bookmarks
    /\ UNCHANGED <<source, archives>>

(* Where the sending command looks for the incremental base.  tar works on  *)
(* the copy CreateBackup made.                                              *)
Bases ==
    CASE source.kind = "mariabackup" -> bookmarks
      [] source.kind = "btrfs" -> archives
      [] source.kind = "zfs" -> IF source.useBookmarks THEN bookmarks ELSE archives
      [] OTHER -> Snapshot

OpenBase(b) ==
    /\ IsFull(b) \/ b.base \in Bases
    /\ UNCHANGED sourceVars

(* The finalize callback, for a command that succeeded.                     *)
Finalize(s) ==
    /\ archives' = IF source.kind = "btrfs" /\ source.snapshotsPath
                   THEN archives \cup {s} ELSE archives
    /\ bookmarks' = IF source.kind \in {"tar", "mariabackup"} /\ source.snapshotsPath
                    THEN bookmarks \cup {s} ELSE bookmarks
    /\ UNCHANGED source

-----------------------------------------------------------------------------
(* Removals; removed is FALSE when the command fails.                       *)

RemoveArchive(s, removed) ==
    /\ archives' = IF removed THEN archives \ {s} ELSE archives
    /\ UNCHANGED <<source, bookmarks>>

RemoveBookmark(s, removed) ==
    /\ bookmarks' = IF removed THEN bookmarks \ {s} ELSE bookmarks
    /\ UNCHANGED <<source, archives>>
=============================================================================

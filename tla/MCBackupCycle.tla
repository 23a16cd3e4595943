--------------------------- MODULE MCBackupCycle ---------------------------
(***************************************************************************)
(* Instances of BackupCycle for TLC.                                        *)
(***************************************************************************)
EXTENDS BackupCycle

CONSTANTS p1, p2, d1, d2

(* Which commands an administrator's schedule lets overlap.                 *)
Serial == {}
OnePerTarget ==
    LET T == {d1, d2, "source"} IN {t \in T \X T : t[1] # t[2]}

(* Every configuration of a source, once: the option of another kind is     *)
(* given one value only.                                                    *)
AllSources ==
    {c \in SourceConfig : IF c.kind = "zfs" THEN c.snapshotsPath ELSE ~c.useBookmarks}

KeepingSources == {c \in AllSources : c.snapshotsPath}

Tar == {c \in KeepingSources : c.kind = "tar"}
Btrfs == {c \in KeepingSources : c.kind = "btrfs"}

KeepOne == <<[interval |-> 1, count |-> 1, fullOnly |-> FALSE]>>
KeepTwo == <<[interval |-> 2, count |-> 2, fullOnly |-> FALSE]>>
KeepNothing == <<>>

MixedPolicies == (d1 :> KeepOne) @@ (d2 :> KeepTwo)
SamePolicies == (d1 :> KeepOne) @@ (d2 :> KeepOne)

ProcSymmetry == Permutations({p1, p2})
=============================================================================

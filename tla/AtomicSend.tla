----------------------------- MODULE AtomicSend -----------------------------
(***************************************************************************)
(* What SendBackup promises the rest of uback (lib/interfaces.go: "store a  *)
(* backup whose data is `data`"), and what BackupCycle takes a destination  *)
(* for: the whole backup appears at once or never does, and success is only *)
(* reported for a backup that is there.  A destination that cannot tell the *)
(* end of the data from a failure promises less: a part of a backup may     *)
(* appear, but its sender never reports success.                            *)
(***************************************************************************)
VARIABLES
    exact,    \* whether the destination can tell the end from a failure
    entry,    \* what ListBackups shows under the backup's name: "none", "whole", "part"
    outcome   \* of the backup command: "pending", "ok", "failed", "killed"

vars == <<exact, entry, outcome>>

Init ==
    /\ exact \in BOOLEAN
    /\ entry = "none"
    /\ outcome = "pending"

(* The backup appears; its sender learns of it at once, later, or never     *)
(* because it is already gone.                                              *)
Store ==
    /\ entry = "none"
    /\ entry' = "whole"
    /\ \/ outcome' = outcome
       \/ outcome = "pending" /\ outcome' = "ok"
    /\ exact' = exact

StorePart ==
    /\ ~exact /\ entry = "none"
    /\ entry' = "part"
    /\ UNCHANGED <<exact, outcome>>

(* The command reports or dies: a backup may be there that nobody reported. *)
Report ==
    /\ outcome = "pending"
    /\ outcome' \in {"failed", "killed"} \cup (IF entry = "whole" THEN {"ok"} ELSE {})
    /\ UNCHANGED <<exact, entry>>

Next == Store \/ StorePart \/ Report

Spec == Init /\ [][Next]_vars
=============================================================================

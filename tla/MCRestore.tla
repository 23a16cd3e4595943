------------------------------ MODULE MCRestore ------------------------------
(***************************************************************************)
(* An instance of Restore for TLC.                                          *)
(***************************************************************************)
EXTENDS Restore

(* A chain of three, and an orphan next to a chain of two.                  *)
Chains ==
    LET full == [snap |-> 1, base |-> NoBase]
        inc(s, base) == [snap |-> s, base |-> base]
    IN  {{full, inc(2, 1), inc(3, 2)}, {inc(2, 1), inc(3, 2)}}

(* Sources restored from files of theirs, or from a destination of their    *)
(* own kind, whose containers are plain; every mariabackup names its        *)
(* server's version, and tar, which takes an empty archive, has encryption. *)
SoundRoutes ==
    {r \in Route : /\ r.dest \in {"file", r.kind}
                   /\ r.dest # "file" => r.plain
                   /\ ~r.versionless
                   /\ r.kind = "tar" => ~r.plain}
=============================================================================

------------------------------- MODULE MCReuse -------------------------------
(* Instances of Reuse for TLC.                                              *)
EXTENDS Reuse

CONSTANTS d1, d2

(* The option of the other kind is given one value only.                    *)
AllSources == {c \in SourceConfig : c.kind = "btrfs" => ~c.useBookmarks}

Btrfs == {c \in AllSources : c.kind = "btrfs"}

KeepOne == <<[interval |-> 1, count |-> 1, fullOnly |-> FALSE]>>

KeepTwo == <<[interval |-> 2, count |-> 2, fullOnly |-> FALSE]>>

MixedPolicies == (d1 :> KeepOne) @@ (d2 :> KeepTwo)
=============================================================================

----------------------------- MODULE PresetStore -----------------------------
(***************************************************************************)
(* What `uback preset' promises: a preset is the list of key-value pairs    *)
(* its set commands add up to.  A set appends all of its pairs or none; one *)
(* that is killed may spoil the preset it writes, and then nothing appends  *)
(* to it until it is cleared or removed.                                    *)
(***************************************************************************)
EXTENDS Sequences

CONSTANTS
    PresetNames,   \* names of presets
    Lines,         \* the lists of pairs a command line may mean
    Absent,        \* a preset that does not exist
    Torn           \* a preset nothing can decode

VARIABLE content

Init == content = [n \in PresetNames |-> Absent]

Put(n, pairs) == content' = [content EXCEPT ![n] = pairs]

Extend(n) ==
    /\ content[n] # Torn
    /\ \E pairs \in Lines :
           Put(n, (IF content[n] = Absent THEN <<>> ELSE content[n]) \o pairs)

Replace(n) == \E pairs \in Lines : Put(n, pairs)

Remove(n) == Put(n, Absent)

Tear(n) == Put(n, Torn)

Next == \E n \in PresetNames : Extend(n) \/ Replace(n) \/ Remove(n) \/ Tear(n)

Spec == Init /\ [][Next]_content
=============================================================================

------------------------------ MODULE MCPresets ------------------------------
(* Instances of Presets for TLC.                                            *)
EXTENDS Presets, TLC

CONSTANTS p1, p2

Vocabulary == {"k", "l", "preset", "p", "q", "{{.K}}", "{{.K|clean}}"}

PascalCase == ("k" :> "K") @@ ("l" :> "L") @@ ("preset" :> "Preset")

(* {{.K}}, and a template that fails when there is no K.                    *)
ReadsK == ("{{.K}}" :> [key |-> "K", strict |-> FALSE]) @@
          ("{{.K|clean}}" :> [key |-> "K", strict |-> TRUE])

Kv(k, v) == [at |-> FALSE, key |-> k, val |-> v]
At(k, v) == [at |-> TRUE, key |-> k, val |-> v]

SoundNames == << <<"p">>, <<"q">> >>

(* What has to be escaped, templates, and presets that include themselves   *)
(* and each other.                                                          *)
ShortLines ==
    {<<At("L", <<"{{.K|clean}}">>), Kv("K", <<",", "\\">>)>>,
     <<At("L", <<"{{.K}}", "\\">>), Kv("Preset", <<"q">>)>>,
     <<Kv("Preset", <<"p">>)>>}

CommandLines ==
    {<<Kv("K", <<"true">>), Kv("Preset", <<"p">>), At("L", <<"{{.K}}", "\\", ",">>)>>}

(* The hypotheses of EvaluatesDocumented hold here.                         *)
ASSUME PlainAssumption == PlainPresets
=============================================================================

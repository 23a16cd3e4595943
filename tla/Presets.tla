------------------------------- MODULE Presets -------------------------------
(***************************************************************************)
(* Option lines and presets (lib/options.go, cmd/preset.go): preset set and *)
(* preset remove, and what every other command does first with the options  *)
(* on its command line: read the presets directory file by file, split the  *)
(* line, evaluate it pair by pair.                                          *)
(*                                                                         *)
(* Text is a sequence of tokens.  A token is a character where splitting    *)
(* and trimming look at it (comma, backslash, equals sign, letters of a     *)
(* preset's name), else a word, a key or a template.  Texts have keys of    *)
(* one token, do not start with a comma, and no file but presets is in the  *)
(* directory.                                                               *)
(***************************************************************************)
EXTENDS Integers, Sequences, FiniteSets, SequencesExt

CONSTANTS
    Setters,      \* processes that run preset set and preset remove
    Readers,      \* processes that run other commands
    Names,        \* preset names, in the order os.ReadDir lists their files
    Lines,        \* the lists of pairs users mean to put into a preset
    OptionLines,  \* and those they mean to give to other commands
    Words,        \* the tokens that no command looks at
    Pascalize,    \* what flect.Pascalize makes of each key
    Templates,    \* template tokens: the key each reads, and if it must be set
    Absent,       \* a file that does not exist
    Torn,         \* a file that cannot be decoded
    MaxPairs,     \* a preset has no more pairs: a bound, not code
    MaxDepth      \* nor an evaluation more presets open at once: a bound

Backslash == "\\"

Procs == Setters \cup Readers

Keys == {Pascalize[k] : k \in DOMAIN Pascalize}

PresetNames == ToSet(Names)

Token == Words \cup {",", Backslash, "=", "@", "true", "<no value>"}

Pair == [at : BOOLEAN, key : Keys, val : Seq(Token)]

ASSUME PresetsAssumption ==
    /\ Names \in Seq(Seq(Token))
    /\ Lines \cup OptionLines \subseteq Seq(Pair)
    /\ DOMAIN Pascalize \subseteq Words \ {",", Backslash, "=", "@"}
    /\ Absent # Torn
    /\ {Absent, Torn} \cap Seq(Pair) = {}
    /\ "Preset" \in Keys
    /\ \A t \in DOMAIN Templates : Templates[t] \in [key : Keys, strict : BOOLEAN]
    /\ MaxPairs \in Nat
    /\ MaxDepth \in Nat

-----------------------------------------------------------------------------
(* From pairs to text, as doc/reference.md tells the user to write them.    *)

Escape(val) ==
    FlattenSeq([i \in DOMAIN val |->
        IF val[i] \in {",", Backslash} THEN <<Backslash, val[i]>> ELSE <<val[i]>>])

KeyText(pair) ==
    LET k == CHOOSE k \in DOMAIN Pascalize : Pascalize[k] = pair.key
    IN  IF pair.at THEN <<"@", k>> ELSE <<k>>

(* A value of "true" may be left out, and is.                               *)
PairText(pair) ==
    KeyText(pair) \o
    (IF pair.val = <<"true">> THEN <<>> ELSE <<"=">> \o Escape(pair.val))

LineText(pairs) ==
    FlattenSeq([i \in DOMAIN pairs |->
        (IF i = 1 THEN <<>> ELSE <<",">>) \o PairText(pairs[i])])

-----------------------------------------------------------------------------
(* From text to pairs.                                                      *)

Last0(S) == CHOOSE i \in S : \A j \in S : j <= i

(* How many backslashes stand directly before position c.                   *)
BackslashesBefore(text, c) ==
    c - 1 - Last0({i \in 0 .. c - 1 : i = 0 \/ text[i] # Backslash})

(* Mutant: a comma after a backslash never separates.                       *)
SeparatesBare(text, seps, c) == text[c] = "," /\ BackslashesBefore(text, c) = 0

(* Whether splitOptionsRe matches up to position c: a comma after an even   *)
(* number of backslashes, after a character that is not part of an earlier  *)
(* match or after the start of the text.                                    *)
Separates(text, seps, c) ==
    LET n == BackslashesBefore(text, c)
    IN  /\ text[c] = ","
        /\ n % 2 = 0
        /\ seps # <<>> => Last(seps) < c - 1 - n

NoteSeparator(text, seps, c) ==
    IF Separates(text, seps, c) THEN Append(seps, c) ELSE seps

Separators(text) ==
    LET seps[c \in 0 .. Len(text)] ==
            IF c = 0 THEN <<>> ELSE NoteSeparator(text, seps[c - 1], c)
    IN  seps[Len(text)]

(* "\," becomes ",", then, from the left, two backslashes become one.       *)
Kept(text, i) ==
    text[i] = Backslash =>
        /\ i < Len(text) => text[i + 1] # ","
        /\ BackslashesBefore(text, i) % 2 = 0

Unescape(text) ==
    LET out[i \in 0 .. Len(text)] ==
            IF i = 0 THEN <<>>
            ELSE IF Kept(text, i) THEN Append(out[i - 1], text[i])
            ELSE out[i - 1]
    IN  out[Len(text)]

(* parseOption, for a piece that has a key.                                 *)
ParseOption(piece) ==
    LET text == Unescape(piece)
        eq   == {i \in DOMAIN text : text[i] = "="}
        end  == IF eq = {} THEN Len(text)
                ELSE (CHOOSE i \in eq : \A j \in eq : i <= j) - 1
        at   == text[1] = "@"
    IN  [at  |-> at,
         key |-> Pascalize[text[IF at THEN 2 ELSE 1]],
         val |-> IF eq = {} THEN <<"true">> ELSE SubSeq(text, end + 2, Len(text))]

(* A piece without a key is skipped.                                        *)
SplitOptions(text) ==
    LET cuts     == <<0>> \o Separators(text) \o <<Len(text) + 1>>
        piece(i) == SubSeq(text, cuts[i] + 1, cuts[i + 1] - 1)
        result[i \in 0 .. Len(cuts) - 1] ==
            IF i = 0 THEN <<>>
            ELSE IF piece(i) = <<>> THEN result[i - 1]
            ELSE Append(result[i - 1], ParseOption(piece(i)))
    IN  result[Len(cuts) - 1]

(* strings.TrimRight(name + ".json", ".json") cuts every one of these       *)
(* characters from the end of the file's name.                              *)
TrimName(name) ==
    SubSeq(name, 1, Last0({i \in 0 .. Len(name) :
                              i = 0 \/ name[i] \notin {".", "j", "s", "o", "n"}}))

-----------------------------------------------------------------------------
VARIABLES
    file,      \* the preset files: a list of pairs, Absent, or Torn
    (* locals of each process *)
    pc,        \* what it does next
    arg,       \* preset set: the preset
    kvs,       \* preset set: the pairs to write
    toRead,    \* the directory entries it has still to open
    seen,      \* what it read in each file, Absent if nothing
    line,      \* the pairs the user meant by the option line
    stack,     \* calls of evalOptions: preset (NoName: the line), pairs left
    strings,   \* Options.String
    slices     \* Options.StrSlice

locals == <<arg, kvs, toRead, seen, line, stack, strings, slices>>

vars == <<file, pc, locals>>

NoName == <<>>

(* What a template renders for a key that has no value.                     *)
NoValue == <<"<no value>">>

NothingSeen == [n \in PresetNames |-> Absent]

NoStrings == [k \in Keys |-> NoValue]

NoSlices == [k \in Keys |-> <<>>]

SetPCs == {"truncate", "write"}

TypeOK ==
    /\ file \in [PresetNames -> Seq(Pair) \cup {Absent, Torn}]
    /\ pc \in [Procs -> SetPCs \cup {"idle", "open", "eval", "done"}]
    /\ \A p \in Procs :
           /\ pc[p] \in SetPCs => arg[p] \in PresetNames
           /\ pc[p] = "eval" => stack[p] # <<>>
           /\ kvs[p] \in Seq(Pair)
           /\ toRead[p] \subseteq PresetNames
           /\ seen[p] \in [PresetNames -> Seq(Pair) \cup {Absent}]
           /\ line[p] \in Seq(Pair)
           /\ stack[p] \in Seq([preset : Seq(Token), rest : Seq(Pair)])
           /\ strings[p] \in [Keys -> Seq(Token)]
           /\ slices[p] \in [Keys -> Seq(Seq(Token))]

Init ==
    /\ file = [n \in PresetNames |-> Absent]
    /\ pc = [p \in Procs |-> "idle"]
    /\ arg = [p \in Procs |-> NoName]
    /\ kvs = [p \in Procs |-> <<>>]
    /\ toRead = [p \in Procs |-> {}]
    /\ seen = [p \in Procs |-> NothingSeen]
    /\ line = [p \in Procs |-> <<>>]
    /\ stack = [p \in Procs |-> <<>>]
    /\ strings = [p \in Procs |-> NoStrings]
    /\ slices = [p \in Procs |-> NoSlices]

Goto(p, next) == pc' = [pc EXCEPT ![p] = next]

(* The process is gone: the end of a command, a fatal error or a kill.      *)
Exit(p) ==
    /\ Goto(p, "idle")
    /\ arg' = [arg EXCEPT ![p] = NoName]
    /\ kvs' = [kvs EXCEPT ![p] = <<>>]
    /\ toRead' = [toRead EXCEPT ![p] = {}]
    /\ seen' = [seen EXCEPT ![p] = NothingSeen]
    /\ line' = [line EXCEPT ![p] = <<>>]
    /\ stack' = [stack EXCEPT ![p] = <<>>]
    /\ strings' = [strings EXCEPT ![p] = NoStrings]
    /\ slices' = [slices EXCEPT ![p] = NoSlices]

Die(p) == pc[p] \notin {"idle", "done"} /\ Exit(p) /\ UNCHANGED file

Finish(p) == pc[p] = "done" /\ Exit(p) /\ UNCHANGED file

-----------------------------------------------------------------------------
(* preset set and preset remove.  Nothing keeps two of them from working on *)
(* one preset at the same time; that users do is left out.                  *)

Untouched(n) == \A p \in Procs : pc[p] \in SetPCs => arg[p] # n

KeptPairs(n, clear) == IF clear \/ file[n] = Absent THEN <<>> ELSE file[n]

(* Without --clear a file that cannot be decoded is fatal.                  *)
StartSet(p) ==
    /\ pc[p] = "idle"
    /\ \E n \in PresetNames, pairs \in Lines, clear \in BOOLEAN :
           /\ Untouched(n)
           /\ ~clear => file[n] # Torn
           /\ Len(KeptPairs(n, clear) \o pairs) <= MaxPairs
           /\ arg' = [arg EXCEPT ![p] = n]
           /\ kvs' = [kvs EXCEPT ![p] =
                          KeptPairs(n, clear) \o SplitOptions(LineText(pairs))]
    /\ Goto(p, "truncate")
    /\ UNCHANGED <<file, toRead, seen, line, stack, strings, slices>>

(* os.WriteFile truncates, then writes.                                     *)
TruncateFile(p) ==
    /\ pc[p] = "truncate"
    /\ file' = [file EXCEPT ![arg[p]] = Torn]
    /\ Goto(p, "write")
    /\ UNCHANGED locals

WriteFile(p) ==
    /\ pc[p] = "write"
    /\ file' = [file EXCEPT ![arg[p]] = kvs[p]]
    /\ Exit(p)

RemovePreset(p) ==
    /\ pc[p] = "idle"
    /\ \E n \in PresetNames :
           /\ file[n] # Absent
           /\ Untouched(n)
           /\ file' = [file EXCEPT ![n] = Absent]
    /\ UNCHANGED <<pc, locals>>

-----------------------------------------------------------------------------
(* Any other command.                                                       *)

ListDirectory(p) ==
    /\ pc[p] = "idle"
    /\ \E pairs \in OptionLines : line' = [line EXCEPT ![p] = pairs]
    /\ toRead' = [toRead EXCEPT ![p] = {n \in PresetNames : file[n] # Absent}]
    /\ Goto(p, "open")
    /\ UNCHANGED <<file, arg, kvs, seen, stack, strings, slices>>

Position(n) == CHOOSE i \in DOMAIN Names : Names[i] = n

(* A file that is gone is skipped; one that cannot be decoded is reported   *)
(* and taken for a preset without pairs.                                    *)
OpenPreset(p) ==
    /\ pc[p] = "open"
    /\ \E n \in toRead[p] :
           /\ \A m \in toRead[p] : Position(n) <= Position(m)
           /\ seen' = [seen EXCEPT ![p][n] = IF file[n] = Torn THEN <<>> ELSE file[n]]
           /\ toRead' = [toRead EXCEPT ![p] = @ \ {n}]
    /\ UNCHANGED <<file, pc, arg, kvs, line, stack, strings, slices>>

Call(preset, pairs) == <<[preset |-> preset, rest |-> pairs]>>

StartEval(p) ==
    /\ pc[p] = "open"
    /\ toRead[p] = {}
    /\ stack' = [stack EXCEPT ![p] = Call(NoName, SplitOptions(LineText(line[p])))]
    /\ Goto(p, "eval")
    /\ UNCHANGED <<file, arg, kvs, toRead, seen, line, strings, slices>>

(* What a value's template renders to; the value itself if that fails.      *)
Render(val, given) ==
    LET reads == [i \in DOMAIN val |->
                     IF val[i] \in DOMAIN Templates THEN given[Templates[val[i]].key]
                                                    ELSE <<val[i]>>]
        fails == \E i \in DOMAIN val :
                     /\ val[i] \in DOMAIN Templates
                     /\ Templates[val[i]].strict
                     /\ given[Templates[val[i]].key] = NoValue
    IN  IF fails THEN val ELSE FlattenSeq(reads)

(* The presets a process found under a name, the last file of the directory *)
(* if there are several.                                                    *)
FilesOf(p, name) ==
    {i \in DOMAIN Names : seen[p][Names[i]] # Absent /\ TrimName(Names[i]) = name}

Top(p) == Last(stack[p])

(* The pair is off the list of the call that evaluates it.                  *)
Popped(p) ==
    Append(Front(stack[p]), [Top(p) EXCEPT !.rest = Tail(@)])

(* Mutant: a preset's pairs are evaluated after those that follow it.       *)
ExpandLate(p, name) ==
    LET at == Last0(FilesOf(p, name))
    IN  stack' = [stack EXCEPT ![p] =
                      IF FilesOf(p, name) = {} THEN Popped(p)
                      ELSE Call(Names[at], seen[p][Names[at]]) \o Popped(p)]

(* Mutant: a preset that does not exist is tried again.                     *)
ExpandAgain(p, name) ==
    LET at == Last0(FilesOf(p, name))
    IN  stack' = [stack EXCEPT ![p] =
                      IF FilesOf(p, name) = {} THEN stack[p]
                      ELSE Popped(p) \o Call(Names[at], seen[p][Names[at]])]

Expand(p, name) ==
    LET at == Last0(FilesOf(p, name))
    IN  stack' = [stack EXCEPT ![p] =
                      IF FilesOf(p, name) = {} THEN Popped(p)
                      ELSE Popped(p) \o Call(Names[at], seen[p][Names[at]])]

EvalPair(p) ==
    /\ pc[p] = "eval"
    /\ Top(p).rest # <<>>
    /\ Len(stack[p]) <= MaxDepth
    /\ LET pair == Head(Top(p).rest)
           v    == Render(pair.val, strings[p])
       IN  CASE pair.at ->
                    /\ slices' = [slices EXCEPT ![p][pair.key] = Append(@, v)]
                    /\ stack' = [stack EXCEPT ![p] = Popped(p)]
                    /\ UNCHANGED strings
             [] pair.key = "Preset" /\ ~pair.at ->
                    /\ Expand(p, v)
                    /\ UNCHANGED <<strings, slices>>
             [] OTHER ->
                    /\ strings' = [strings EXCEPT ![p][pair.key] = v]
                    /\ stack' = [stack EXCEPT ![p] = Popped(p)]
                    /\ UNCHANGED slices
    /\ UNCHANGED <<file, pc, arg, kvs, toRead, seen, line>>

(* Mutant: nobody notices that the first call returns.                      *)
EvalReturnsUnnoticed(p) ==
    /\ pc[p] = "eval"
    /\ Top(p).rest = <<>>
    /\ stack' = [stack EXCEPT ![p] = Front(@)]
    /\ UNCHANGED <<file, pc, arg, kvs, toRead, seen, line, strings, slices>>

(* evalOptions returns; from its first call, the options are evaluated.     *)
EvalReturns(p) ==
    /\ pc[p] = "eval"
    /\ Top(p).rest = <<>>
    /\ stack' = [stack EXCEPT ![p] = Front(@)]
    /\ Goto(p, IF Len(stack[p]) = 1 THEN "done" ELSE "eval")
    /\ UNCHANGED <<file, arg, kvs, toRead, seen, line, strings, slices>>

Evaluate(p) == EvalPair(p) \/ EvalReturns(p)

-----------------------------------------------------------------------------
PresetCommand(p) ==
    \/ StartSet(p) \/ TruncateFile(p) \/ WriteFile(p) \/ RemovePreset(p)

OtherCommand(p) ==
    \/ ListDirectory(p) \/ OpenPreset(p) \/ StartEval(p) \/ Evaluate(p)

Next ==
    \/ \E p \in Setters : PresetCommand(p)
    \/ \E p \in Readers : OtherCommand(p)
    \/ \E p \in Procs : Finish(p) \/ Die(p)

Spec == Init /\ [][Next]_vars

(* An evaluation only computes: nothing makes it stop half way.             *)
FairSpec == Spec /\ \A p \in Readers : WF_vars(Evaluate(p))

-----------------------------------------------------------------------------
(* Properties.                                                              *)

(* A process that has truncated a file is about to give it its new content. *)
PresetContent ==
    [n \in PresetNames |->
        IF \E p \in Procs : pc[p] = "write" /\ arg[p] = n
        THEN kvs[CHOOSE p \in Procs : pc[p] = "write" /\ arg[p] = n]
        ELSE file[n]]

Store == INSTANCE PresetStore WITH content <- PresetContent

(* `uback preset' is a store of the lists of pairs users mean: through      *)
(* escaping, splitting, parsing, files that are read, truncated and written *)
(* in steps, and kills, a set command adds the pairs it was given or spoils *)
(* the preset visibly (cmd/preset.go, lib/options.go SplitOptions).         *)
StoreSpec == Store!Spec

(* The documented meaning of a list of pairs (doc/reference.md): presets    *)
(* are replaced by the pairs they designate, recursively ...                *)
Expansion(found, pair, inner) ==
    IF pair.at \/ pair.key # "Preset" THEN <<pair>>
    ELSE IF pair.val \notin PresetNames THEN <<>>
    ELSE IF found[pair.val] = Absent THEN <<>>
    ELSE inner[found[pair.val]]

Splice(found, pairs, inner) ==
    FlattenSeq([i \in 1 .. Len(pairs) |-> Expansion(found, pairs[i], inner)])

Spliced(found) ==
    LET sub[d \in 0 .. MaxDepth + 1] ==
            [pairs \in Seq(Pair) |->
                IF d = 0 THEN <<>> ELSE Splice(found, pairs, sub[d - 1])]
    IN  sub

Flat(found, pairs) == Spliced(found)[MaxDepth + 1][pairs]

(* ... and each value sees the last value of each key before it.            *)
Given(flat, value, n) ==
    LET places(k) == {j \in 1 .. n : flat[j].key = k /\ ~flat[j].at}
    IN  [k \in Keys |-> IF places(k) = {} THEN NoValue ELSE value[Last0(places(k))]]

Meaning(flat) ==
    LET value[i \in 1 .. Len(flat)] ==
            Render(flat[i].val, Given(flat, value, i - 1))
    IN  [strings |-> Given(flat, value, Len(flat)),
         slices  |-> [k \in Keys |->
             FlattenSeq([i \in 1 .. Len(flat) |->
                 IF flat[i].at /\ flat[i].key = k THEN <<value[i]>> ELSE <<>>])]]

Documented(p) == Meaning(Flat(seen[p], line[p]))

(* What the documentation takes for granted: a preset is named by a literal *)
(* text, and its name comes back from its file's name.                      *)
LiteralPresets(pairs) ==
    \A i \in DOMAIN pairs :
        ~pairs[i].at /\ pairs[i].key = "Preset" =>
            ToSet(pairs[i].val) \cap DOMAIN Templates = {}

PlainPresets ==
    /\ \A pairs \in Lines \cup OptionLines : LiteralPresets(pairs)
    /\ \A n \in PresetNames : TrimName(n) = n

(* An option line evaluates to what the documentation says of the pairs the *)
(* user meant and of the presets as the process read them: for a plain key  *)
(* the last value, for an @ key all of them, templates over what was        *)
(* evaluated before (lib/options.go evalOptions).                           *)
EvaluatesAsDocumented ==
    \A p \in Procs : pc[p] = "done" =>
        [strings |-> strings[p], slices |-> slices[p]] = Documented(p)

(* A preset is being expanded inside its own expansion.                     *)
Nested(p) ==
    \E i, j \in DOMAIN stack[p] : i # j /\ stack[p][i].preset = stack[p][j].preset

(* Evaluation ends, unless a preset includes itself, directly or through    *)
(* others: then evalOptions calls itself without end.                       *)
EndsUnlessNested ==
    \A p \in Readers : pc[p] = "eval" ~> pc[p] # "eval" \/ Nested(p)
=============================================================================

------------------------------ MODULE Policies ------------------------------
(***************************************************************************)
(* From the text of an interval or of a retention policy to its value       *)
(* (lib/retention.go ParseInterval, ParseRetentionPolicy).  A text is a     *)
(* sequence of tokens, each a character, an alias or the word "full", with  *)
(* no sign and no space in it.  A result is a value and whether there is an *)
(* error.                                                                   *)
(***************************************************************************)
EXTENDS Retention

Hour == 3600

Seconds(unit) ==
    CASE unit = "h" -> Hour
      [] unit = "d" -> 24 * Hour
      [] unit = "w" -> 7 * 24 * Hour
      [] unit = "m" -> 30 * 24 * Hour
      [] unit = "y" -> 365 * 24 * Hour

Units == {"h", "d", "w", "m", "y"}

IntervalAliases ==
    [alias \in {"hourly", "daily", "weekly", "monthly", "yearly"} |->
        CASE alias = "hourly"  -> <<"1", "h">>
          [] alias = "daily"   -> <<"1", "d">>
          [] alias = "weekly"  -> <<"1", "w">>
          [] alias = "monthly" -> <<"1", "m">>
          [] alias = "yearly"  -> <<"1", "y">>]

Digits == <<"0", "1", "2", "3", "4", "5", "6", "7", "8", "9">>

Ok(v) == [ok |-> TRUE, value |-> v]

Error(zero) == [ok |-> FALSE, value |-> zero]

DigitValue(c) == (CHOOSE i \in DOMAIN Digits : Digits[i] = c) - 1

Atoi(text) ==
    LET read[i \in 0 .. Len(text)] ==
            IF i = 0 THEN 0 ELSE 10 * read[i - 1] + DigitValue(text[i])
    IN  IF text = <<>> \/ ToSet(text) \ ToSet(Digits) # {} THEN Error(0)
        ELSE Ok(read[Len(text)])

(* Mutant: the unit of an alias is lost.                                    *)
ParseIntervalLiterally(text) ==
    IF text # <<>> /\ Last(text) \in Units
    THEN LET n == Atoi(Front(text))
         IN  [ok |-> n.ok, value |-> n.value * Seconds(Last(text))]
    ELSE Atoi(text)

ParseInterval(text) ==
    LET intv == IF Len(text) = 1 /\ text[1] \in DOMAIN IntervalAliases
                THEN IntervalAliases[text[1]] ELSE text
        n    == Atoi(Front(intv))
    IN  IF intv # <<>> /\ Last(intv) \in Units
        THEN [ok |-> n.ok, value |-> n.value * Seconds(Last(intv))]
        ELSE Atoi(intv)

NoPolicy == [interval |-> 0, count |-> 0, fullOnly |-> FALSE]

(* "<interval>=<count>", then ":full", once or several times.               *)
ParseRetentionPolicy(text) ==
    LET equals  == SelectInSeq(text, LAMBDA c : c = "=")
        item    == SubSeq(text, equals + 1, Len(text))
        colon   == SelectInSeq(item, LAMBDA c : c = ":")
        count   == Atoi(IF colon = 0 THEN item ELSE SubSeq(item, 1, colon - 1))
        options == IF colon = 0 THEN <<>> ELSE SubSeq(item, colon, Len(item))
        intv    == ParseInterval(SubSeq(text, 1, equals - 1))
    IN  IF /\ equals # 0
           /\ count.ok
           /\ intv.ok
           /\ Len(options) % 2 = 0
           /\ \A i \in DOMAIN options : options[i] = IF i % 2 = 1 THEN ":" ELSE "full"
        THEN Ok([interval |-> intv.value, count |-> count.value,
                 fullOnly |-> options # <<>>])
        ELSE Error(NoPolicy)
=============================================================================

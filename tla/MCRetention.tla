----------------------------- MODULE MCRetention -----------------------------
(***************************************************************************)
(* GetPrunedBackups and what it is built from, on every small destination   *)
(* listing (orphans included) and every short list of policies; and the     *)
(* parser of policies, on every short text.  Init enumerates the inputs;    *)
(* the only steps are to prune and to parse.                                *)
(***************************************************************************)
EXTENDS Policies, TLC

CONSTANTS
    Times,        \* instants at which snapshots were taken
    Intervals,    \* intervals of the policies
    Counts,       \* counts of the policies
    MaxPolicies,  \* how many policies a destination has at most
    Tokens,       \* what texts of policies are made of
    MaxTokens     \* how long they are at most

ASSUME RetentionAssumption ==
    /\ Times \subseteq Snapshot /\ IsFiniteSet(Times)
    /\ Intervals \subseteq Nat
    /\ Counts \subseteq Nat
    /\ MaxPolicies \in Nat

VARIABLES backups, policies, text

vars == <<backups, policies, text>>

(* Every set of distinctly named backups with an older (or no) base, the    *)
(* base itself possibly gone.                                               *)
Listings ==
    LET Bases(t) == {NoBase} \cup {s \in Times : s < t}
    IN  UNION {{{[snap |-> t, base |-> f[t]] : t \in T} :
                    f \in {g \in [T -> {NoBase} \cup Times] :
                              \A t \in T : g[t] \in Bases(t)}} :
               T \in SUBSET Times}

Policies ==
    UNION {[1 .. n -> [interval : Intervals, count : Counts, fullOnly : BOOLEAN]] :
               n \in 0 .. MaxPolicies}

Init ==
    \/ backups \in Listings /\ policies \in Policies /\ text = <<>>
    \/ backups = {} /\ policies = <<>> /\ text \in BoundedSeq(Tokens, MaxTokens)

order == SortedListBackups(backups)

Pruned == GetPrunedBackups(backups, order, policies)

Kept == backups \ Pruned

(* `uback prune backups' in one go; BackupCycle has it step by step.        *)
Prune ==
    /\ backups' = Kept
    /\ UNCHANGED <<policies, text>>

(* GetRetentionPolicies, for one @RetentionPolicy.                          *)
Parse ==
    /\ ParseRetentionPolicy(text).ok
    /\ policies' = <<ParseRetentionPolicy(text).value>>
    /\ UNCHANGED <<backups, text>>

Next == Prune \/ Parse

Spec == Init /\ [][Next]_vars

-----------------------------------------------------------------------------
(* The loop of GetFullChain, as written: the names visited from b, and      *)
(* whether a full backup was reached.                                       *)
ChainLoop(b) ==
    LET at(s) == CHOOSE c \in backups : c.snap = s
        walk[s \in {NoBase} \cup Times] ==
            IF s = NoBase THEN [chain |-> {}, ok |-> TRUE]
            ELSE IF \A c \in backups : c.snap # s THEN [chain |-> {}, ok |-> FALSE]
            ELSE [chain |-> {at(s)} \cup walk[at(s).base].chain,
                  ok    |-> walk[at(s).base].ok]
    IN  walk[b.snap]

(* The declarative chain is what the loop of GetFullChain collects, and     *)
(* Restorable is its ok result (lib/utils.go GetFullChain).                 *)
ChainMatchesLoop ==
    \A b \in backups :
        /\ Restorable(b, backups) = ChainLoop(b).ok
        /\ Restorable(b, backups) => GetFullChain(b, backups) = ChainLoop(b).chain

(* The single pass of ApplyRetentionPolicies computes the one greedy        *)
(* selection there is: nothing eligible is skipped, nothing too close or    *)
(* beyond the count is taken.                                               *)
RetainsGreedily ==
    \A i \in DOMAIN policies :
        LET E == Eligible(policies[i], backups)
            R == RetainedBy(policies[i], order)
        IN  {S \in SUBSET E : Greedy(policies[i], E, S)} = {R}

(* What pruning leaves can be restored from what it leaves: no chain is cut *)
(* and, under any policy, no orphan stays (GetPrunedBackups).               *)
KeepsWholeChains ==
    policies # <<>> => \A b \in Kept : Restorable(b, Kept)

(* Pruning is stable: pruning again what one pass left removes nothing, so  *)
(* the prune of a later `uback prune backups' never eats into what the      *)
(* policies had just protected (GetPrunedBackups).                          *)
PruneIdempotent ==
    GetPrunedBackups(Kept, SortedListBackups(Kept), policies) = {}

(* A policy considers every backup, or the full ones.                       *)
Considers(policy, b) == policy.count > 0 /\ (policy.fullOnly => IsFull(b))

(* Of the restorable backups that a policy considers, the most recent one   *)
(* is never pruned (ApplyRetentionPolicies retains the first subject it     *)
(* meets); if every policy has the full option, that is the last full one.  *)
MostRecentRetained ==
    \A i \in DOMAIN policies :
        LET candidates == {b \in backups : Restorable(b, backups) /\ Considers(policies[i], b)}
        IN  \A b \in candidates : (\A c \in candidates : c.snap <= b.snap) => b \in Kept

(* If the clock was set back, the new backup is not the most recent and the *)
(* list the backup command prunes is not sorted.  The scan may then drop    *)
(* what it should retain; but what is left can still be restored, and the   *)
(* new backup stays if a policy considers it (cmd/backup.go, PruneBackups). *)
NewBackupStays ==
    LET names == {b.snap : b \in backups}
        bases == {b.base : b \in backups}
    IN  policies # <<>> =>
        \A new \in [snap : Times \ (names \cup bases), base : {NoBase} \cup names] :
            LET all  == backups \cup {new}
                left == all \ GetPrunedBackups(all, NewBackupFirst(new, order), policies)
            IN  /\ \A b \in left : Restorable(b, left)
                /\ Restorable(new, all) /\ (\E i \in DOMAIN policies : Considers(policies[i], new))
                       => new \in left

(* The texts of doc/reference.md.  An interval is a positive number of      *)
(* seconds, one with the letter of a unit, or an alias; a policy is an      *)
(* interval, a count and, optionally, "full".  An hour is "one hour (60     *)
(* seconds)" there: its length is a parameter.  The code takes more than    *)
(* these texts: an interval of zero, and "full" several times.              *)
IsNumber(t) == t # <<>> /\ \A i \in DOMAIN t : \E d \in DOMAIN Digits : t[i] = Digits[d]

Figure(c) == CHOOSE d \in 0 .. 9 : Digits[d + 1] = c

(* The value of a number, from its last figure to its first.                *)
Decimal(t) ==
    LET n == Len(t)
        ten[i \in 0 .. n] == IF i = 0 THEN 1 ELSE 10 * ten[i - 1]
        sum[i \in 0 .. n] == IF i = 0 THEN 0
                             ELSE sum[i - 1] + ten[i - 1] * Figure(t[n - i + 1])
    IN  sum[n]

UnitLengths(hour) ==
    {<<"h", hour>>, <<"d", 86400>>, <<"w", 604800>>, <<"m", 2592000>>, <<"y", 31536000>>}

AliasLengths(hour) ==
    {<<"hourly", hour>>, <<"daily", 86400>>, <<"weekly", 604800>>,
     <<"monthly", 2592000>>, <<"yearly", 31536000>>}

(* What a text means as an interval: nothing if it is not one.              *)
IntervalMeanings(t, hour) ==
    (IF IsNumber(t) THEN {Decimal(t)} ELSE {})
    \cup {Decimal(Front(t)) * u[2] :
             u \in {l \in UnitLengths(hour) : IsNumber(Front(t)) /\ Last(t) = l[1]}}
    \cup {a[2] : a \in {l \in AliasLengths(hour) : t = <<l[1]>>}}

(* The option, any number of times.                                         *)
IsFullOption(t) ==
    \E n \in 0 .. Len(t) :
        /\ Len(t) = 2 * n
        /\ \A i \in 1 .. n : t[2 * i - 1] = ":" /\ t[2 * i] = "full"

(* Where the "=" and the last figure of the count may be.                   *)
Readings(t) ==
    {r \in (DOMAIN t) \X (DOMAIN t) :
        /\ t[r[1]] = "="
        /\ IsNumber(SubSeq(t, r[1] + 1, r[2]))
        /\ IsFullOption(SubSeq(t, r[2] + 1, Len(t)))}

Meaning(t, r, n) ==
    [interval |-> n, count |-> Decimal(SubSeq(t, r[1] + 1, r[2])), fullOnly |-> r[2] < Len(t)]

(* What a text means as a policy, if it is of the form the code takes ...   *)
WiderMeanings(t) ==
    UNION {{Meaning(t, r, n) : n \in IntervalMeanings(SubSeq(t, 1, r[1] - 1), 3600)} :
           r \in Readings(t)}

(* ... and if it is of the documented form.                                 *)
DocumentedMeanings(t, hour) ==
    UNION {{Meaning(t, r, n) : n \in IntervalMeanings(SubSeq(t, 1, r[1] - 1), hour) \ {0}} :
           r \in {q \in Readings(t) : SubSeq(t, q[2] + 1, Len(t)) \in {<<>>, <<":", "full">>}}}

NamesHours(t) == \E i \in DOMAIN t : t[i] \in {"h", "hourly"}

(* A text of the documented form is parsed to the policy it means, with an  *)
(* hour of 3600 seconds: with the 60 of the reference, only a text in hours *)
(* means something else.  Beyond this form, all that is accepted is an      *)
(* interval of zero or a repeated option, and it is read as such: a policy  *)
(* with any other typo never silently retains less (lib/retention.go        *)
(* ParseRetentionPolicy).                                                   *)
ParsesPolicies ==
    LET parsed == ParseRetentionPolicy(text)
    IN  /\ \A p \in DocumentedMeanings(text, 3600) : parsed = Ok(p)
        /\ \A p \in DocumentedMeanings(text, 60) : parsed = Ok(p) \/ NamesHours(text)
        /\ WiderMeanings(text) = IF parsed.ok THEN {parsed.value} ELSE {}
=============================================================================

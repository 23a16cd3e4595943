---------------------------- MODULE PresetsProofs ----------------------------
(***************************************************************************)
(* Proofs about Presets: splitting an option line gives back the pairs it   *)
(* was written from, the types, that the preset files implement             *)
(* PresetStore, and that options evaluate to what the documentation says.   *)
(* Lemmas about loops come from RetentionProofs.                            *)
(***************************************************************************)
EXTENDS Presets, RetentionProofs, SequenceTheorems

-----------------------------------------------------------------------------
(* Concatenation.                                                           *)

(* t is the concatenation of ss; its part k ends at position at[k].         *)
Placed(ss, at, t) ==
    /\ at[0] = 0
    /\ Len(t) = at[Len(ss)]
    /\ \A k \in 1 .. Len(ss) : at[k] = at[k - 1] + Len(ss[k])
    /\ \A k \in 0 .. Len(ss) : at[k] <= Len(t)
    /\ \A k \in 1 .. Len(ss) : \A i \in 1 .. Len(ss[k]) : t[at[k - 1] + i] = ss[k][i]

(* Where a position of a part lies in the whole.                            *)
LEMMA Within ==
    ASSUME NEW a \in Nat, NEW l \in Nat, NEW b \in Nat, NEW i \in 1 .. l, a + l <= b
    PROVE  a + i \in 1 .. b
OBVIOUS

LEMMA Upto ==
    ASSUME NEW a \in Nat, NEW b \in Nat, NEW i \in Nat, i >= 1, a + i <= b
    PROVE  a + i \in 1 .. b
OBVIOUS

LEMMA Beyond ==
    ASSUME NEW a \in Nat, NEW b \in Nat, NEW i \in Nat, NEW l \in Nat, a + i <= b
    PROVE  a + i <= b + l
OBVIOUS

LEMMA Parity ==
    ASSUME NEW n \in Nat, n % 2 = 0
    PROVE  (n + 1) % 2 # 0
OBVIOUS

(* The concatenation of the first parts.                                    *)
LEMMA FlattenSteps ==
    ASSUME NEW S, NEW ss \in Seq(Seq(S))
    PROVE  \E part \in [0 .. Len(ss) -> Seq(S)] :
               /\ part[0] = <<>>
               /\ \A k \in 1 .. Len(ss) : part[k] = part[k - 1] \o ss[k]
               /\ FlattenSeq(ss) = part[Len(ss)]
<1> DEFINE n == Len(ss)
           A == Seq(S)
           Step == [k \in 1 .. n |-> [acc \in A |-> acc \o ss[k]]]
           Eqn(f) == f = [k \in 1 .. n |-> IF k = 1 THEN ss[k] ELSE f[k - 1] \o ss[k]]
           flat == CHOOSE f : Eqn(f)
<1>1. n \in Nat /\ <<>> \in A /\ \A k \in 1 .. n : ss[k] \in A
    OBVIOUS
<1>2. Step \in [1 .. n -> [A -> A]]
    <2>1. \A k \in 1 .. n, acc \in A : acc \o ss[k] \in A
        BY <1>1
    <2> HIDE DEF A, n
    <2> QED
        BY <2>1
<1>3. PICK f \in [0 .. n -> A] : IsRun(f, n, <<>>, Step)
    <2> HIDE DEF n, A, Step
    <2> QED
        BY <1>1, <1>2, LoopRuns
<1>4. \A k \in 1 .. n : k - 1 \in 0 .. n /\ f[k - 1] \in A /\ f[k] = f[k - 1] \o ss[k]
    <2> SUFFICES ASSUME NEW k \in 1 .. n
                 PROVE  k - 1 \in 0 .. n /\ f[k - 1] \in A /\ f[k] = f[k - 1] \o ss[k]
        OBVIOUS
    <2>1. k - 1 \in 0 .. n
        BY <1>1
    <2> HIDE DEF A
    <2>2. f[k - 1] \in A
        BY <2>1
    <2> QED
        BY <1>3, <2>1, <2>2 DEF IsRun
<1>5. CASE n = 0
    <2>1. FlattenSeq(ss) = <<>> /\ f[0] = <<>>
        BY <1>3, <1>5 DEF FlattenSeq, IsRun
    <2> QED
        BY <1>4, <1>5, <2>1
<1>6. CASE n # 0
    <2> DEFINE g == [k \in 1 .. n |-> f[k]]
    <2>0. 1 \in 1 .. n /\ ss[1] \in Seq(S) /\ f[1] = ss[1]
        <3>1. 1 \in 1 .. n /\ 1 - 1 = 0
            BY <1>1, <1>6
        <3>2. f[1] = f[0] \o ss[1] /\ ss[1] \in Seq(S)
            BY <1>1, <1>4, <3>1
        <3>3. f[0] = <<>>
            BY <1>3 DEF IsRun
        <3> QED
            BY <3>1, <3>2, <3>3
    <2>1. ASSUME NEW k \in 1 .. n, k # 1
          PROVE  k - 1 \in 1 .. n /\ f[k] = f[k - 1] \o ss[k]
        <3>1. k - 1 \in 1 .. n
            BY <1>1, <2>1
        <3> HIDE DEF A
        <3> QED
            BY <1>4, <3>1
    <2>2. Eqn(g)
        <3> SUFFICES ASSUME NEW k \in 1 .. n
                     PROVE  g[k] = IF k = 1 THEN ss[k] ELSE g[k - 1] \o ss[k]
            OBVIOUS
        <3> HIDE DEF A
        <3> QED
            BY <2>0, <2>1
    <2>3. Eqn(flat)
        BY <2>2
    <2>4. FlattenSeq(ss) = flat[n]
        BY <1>6 DEF FlattenSeq
    <2> HIDE DEF flat, A
    <2> DEFINE G == {k \in 0 .. n : k >= 1 => flat[k] = f[k]}
    <2>5. 0 \in G
        BY <1>1
    <2>6. ASSUME NEW k \in 1 .. n, k - 1 \in G PROVE k \in G
        <3>1. flat[k] = IF k = 1 THEN ss[k] ELSE flat[k - 1] \o ss[k]
            BY <2>3
        <3>2. CASE k = 1
            BY <1>1, <2>0, <3>1, <3>2
        <3>3. CASE k # 1
            <4>1. flat[k - 1] = f[k - 1]
                BY <2>1, <2>6, <3>3
            <4>2. f[k] = f[k - 1] \o ss[k]
                BY <2>1, <3>3
            <4>3. flat[k] = f[k]
                BY <3>1, <3>3, <4>1, <4>2
            <4> QED
                BY <1>1, <4>3
        <3> QED
            BY <3>2, <3>3
    <2>7. n \in G
        <3>1. n \in 0 .. n
            BY <1>1
        <3> HIDE DEF G, n
        <3> QED
            BY <1>1, <2>5, <2>6, <3>1, UpTo
    <2>8. flat[n] = f[n]
        BY <1>1, <1>6, <2>7
    <2> QED
        BY <1>3, <1>4, <2>4, <2>8 DEF IsRun, A
<1> QED
    BY <1>5, <1>6

(* Where the parts of a concatenation are.                                  *)
LEMMA FlattenAt ==
    ASSUME NEW S, NEW ss \in Seq(Seq(S))
    PROVE  /\ FlattenSeq(ss) \in Seq(S)
           /\ \E at \in [0 .. Len(ss) -> Nat] : Placed(ss, at, FlattenSeq(ss))
<1> DEFINE n == Len(ss)
<1>1. PICK part \in [0 .. n -> Seq(S)] :
          /\ part[0] = <<>>
          /\ \A k \in 1 .. n : part[k] = part[k - 1] \o ss[k]
          /\ FlattenSeq(ss) = part[n]
    BY FlattenSteps
<1>2. n \in Nat /\ \A k \in 1 .. n : ss[k] \in Seq(S)
    OBVIOUS
<1> DEFINE at == [k \in 0 .. n |-> Len(part[k])]
<1>3. at \in [0 .. n -> Nat]
    OBVIOUS
<1> DEFINE Good(m) ==
               /\ \A k \in 0 .. m : at[k] <= at[m]
               /\ \A k \in 1 .. m : \A i \in 1 .. Len(ss[k]) :
                      at[k - 1] + i <= at[m] /\ part[m][at[k - 1] + i] = ss[k][i]
           G == {m \in 0 .. n : Good(m)}
<1>4. ASSUME NEW k \in 1 .. n
      PROVE  /\ k - 1 \in 0 .. n /\ part[k - 1] \in Seq(S) /\ ss[k] \in Seq(S)
             /\ at[k] = at[k - 1] + Len(ss[k])
             /\ \A i \in 1 .. at[k - 1] : part[k][i] = part[k - 1][i]
             /\ \A i \in 1 .. Len(ss[k]) : part[k][at[k - 1] + i] = ss[k][i]
    <2>1. k - 1 \in 0 .. n
        BY <1>2
    <2>2. part[k - 1] \in Seq(S) /\ ss[k] \in Seq(S) /\ part[k] = part[k - 1] \o ss[k]
        BY <1>1, <1>2, <2>1
    <2>3. at[k - 1] = Len(part[k - 1]) /\ at[k] = Len(part[k])
        BY <2>1
    <2> HIDE DEF at
    <2> QED
        BY <2>1, <2>2, <2>3
<1>5. 0 \in G
    BY <1>1, <1>2
<1>6. ASSUME NEW m \in 1 .. n, m - 1 \in G PROVE m \in G
    <2>1. /\ m - 1 \in 0 .. n /\ at[m - 1] \in Nat /\ at[m] \in Nat /\ Len(ss[m]) \in Nat
          /\ at[m] = at[m - 1] + Len(ss[m])
        <3>1. m - 1 \in 0 .. n /\ m \in 0 .. n /\ ss[m] \in Seq(S)
            BY <1>2, <1>4
        <3>2. at[m] = at[m - 1] + Len(ss[m])
            BY <1>4
        <3>3. Len(ss[m]) \in Nat
            BY <3>1
        <3> HIDE DEF at
        <3>4. at[m - 1] \in Nat /\ at[m] \in Nat
            BY <1>3, <3>1
        <3> QED
            BY <3>1, <3>2, <3>3, <3>4
    <2>2. \A k \in 0 .. n : at[k] \in Nat
        BY <1>3
    <2> HIDE DEF at
    <2>3. ASSUME NEW k \in 0 .. m PROVE at[k] <= at[m]
        <3>1. CASE k = m
            BY <2>1, <3>1
        <3>2. CASE k # m
            <4>1. k \in 0 .. m - 1 /\ k \in 0 .. n
                BY <3>2
            <4>2. at[k] <= at[m - 1] /\ at[k] \in Nat
                BY <1>6, <2>2, <4>1
            <4> QED
                BY <2>1, <4>2
        <3> QED
            BY <3>1, <3>2
    <2>4. ASSUME NEW k \in 1 .. m, NEW i \in 1 .. Len(ss[k])
          PROVE  at[k - 1] + i <= at[m] /\ part[m][at[k - 1] + i] = ss[k][i]
        <3>0. k \in 1 .. n /\ k - 1 \in 0 .. n /\ Len(ss[k]) \in Nat
            BY <1>2
        <3>1. CASE k = m
            <4>1. part[m][at[m - 1] + i] = ss[m][i]
                BY <1>4, <3>1
            <4> QED
                BY <2>1, <3>1, <4>1
        <3>2. CASE k # m
            <4>1. k \in 1 .. m - 1
                BY <3>2
            <4>2. at[k - 1] + i <= at[m - 1] /\ part[m - 1][at[k - 1] + i] = ss[k][i]
                BY <1>6, <4>1
            <4>3. at[k - 1] \in Nat /\ i \in Nat /\ i >= 1
                BY <2>2, <3>0
            <4>4. at[k - 1] + i \in 1 .. at[m - 1]
                BY <2>1, <4>2, <4>3, Upto
            <4>5. part[m][at[k - 1] + i] = part[m - 1][at[k - 1] + i]
                BY <1>4, <4>4
            <4>6. at[k - 1] + i <= at[m - 1] + Len(ss[m])
                BY <2>1, <4>2, <4>3, Beyond
            <4> QED
                BY <2>1, <4>2, <4>5, <4>6
        <3> QED
            BY <3>1, <3>2
    <2> QED
        BY <2>3, <2>4
<1>7. n \in G
    <2>1. n \in 0 .. n
        BY <1>2
    <2> HIDE DEF G, n
    <2> QED
        BY <1>2, <1>5, <1>6, <2>1, UpTo
<1>8. at[n] = Len(FlattenSeq(ss)) /\ at[0] = 0 /\ n \in 0 .. n
    BY <1>1, <1>2
<1>9. Placed(ss, at, FlattenSeq(ss))
    <2> HIDE DEF at
    <2> QED
        BY <1>1, <1>4, <1>7, <1>8 DEF Placed
<1> QED
    BY <1>1, <1>3, <1>8, <1>9

(* Every position of a concatenation is one of a part.                      *)
LEMMA PlacedCovers ==
    ASSUME NEW ss, Len(ss) \in Nat, \A k \in 1 .. Len(ss) : Len(ss[k]) \in Nat, NEW t,
           NEW at, \A k \in 0 .. Len(ss) : at[k] \in Nat, Placed(ss, at, t)
    PROVE  \A c \in 1 .. Len(t) :
               \E k \in 1 .. Len(ss) : \E i \in 1 .. Len(ss[k]) : c = at[k - 1] + i
<1> SUFFICES ASSUME NEW c \in 1 .. Len(t)
             PROVE  \E k \in 1 .. Len(ss) : \E i \in 1 .. Len(ss[k]) : c = at[k - 1] + i
    OBVIOUS
<1> DEFINE n == Len(ss)
           Found(m) == \E k \in 1 .. m : \E i \in 1 .. Len(ss[k]) : c = at[k - 1] + i
           G == {m \in 0 .. n : c <= at[m] => Found(m)}
<1>1. 0 \in G
    BY DEF Placed
<1>2. ASSUME NEW m \in 1 .. n, m - 1 \in G PROVE m \in G
    <2>1. at[m] = at[m - 1] + Len(ss[m]) /\ Len(ss[m]) \in Nat /\ at[m - 1] \in Nat
        <3>1. m - 1 \in 0 .. n
            OBVIOUS
        <3> QED
            BY <3>1 DEF Placed
    <2>2. CASE c <= at[m - 1]
        BY <1>2, <2>2
    <2>3. CASE ~(c <= at[m - 1])
        <3> DEFINE i == c - at[m - 1]
        <3>0. c \in Nat
            BY DEF Placed
        <3>1. c <= at[m] => i \in 1 .. Len(ss[m]) /\ c = at[m - 1] + i
            BY <2>1, <2>3, <3>0
        <3>2. c <= at[m] => Found(m)
            BY <3>1
        <3> QED
            BY <3>2
    <2> QED
        BY <2>2, <2>3
<1>3. n \in G
    <2>1. n \in 0 .. n
        OBVIOUS
    <2> HIDE DEF G, n
    <2> QED
        BY <1>1, <1>2, <2>1, UpTo DEF n
<1> QED
    BY <1>3 DEF Placed

-----------------------------------------------------------------------------
(* Backslashes.                                                             *)

LEMMA LastIs ==
    ASSUME NEW S \in SUBSET Nat, NEW m \in S, \A j \in S : j <= m
    PROVE  Last0(S) = m
<1>1. \A i \in S : (\A j \in S : j <= i) => i = m
    <2> SUFFICES ASSUME NEW i \in S, i <= m, m <= i PROVE i = m
        OBVIOUS
    <2> QED
        OBVIOUS
<1> QED
    BY <1>1 DEF Last0

(* None after another character, one more after each.                       *)
LEMMA BackslashNone ==
    ASSUME NEW text, NEW c \in Nat \ {0}, c = 1 \/ text[c - 1] # Backslash
    PROVE  BackslashesBefore(text, c) = 0
<1> DEFINE S == {i \in 0 .. c - 1 : i = 0 \/ text[i] # Backslash}
<1>1. S \in SUBSET Nat /\ c - 1 \in S /\ \A j \in S : j <= c - 1
    OBVIOUS
<1> HIDE DEF S
<1>2. Last0(S) = c - 1
    BY <1>1, LastIs
<1> QED
    BY <1>2 DEF BackslashesBefore, S

LEMMA BackslashRun ==
    ASSUME NEW text, NEW c \in Nat \ {0}
    PROVE  /\ BackslashesBefore(text, c) \in 0 .. c - 1
           /\ \A i \in 1 .. c - 1 :
                  text[i] # Backslash => i <= c - 1 - BackslashesBefore(text, c)
           /\ text[c] = Backslash =>
                  BackslashesBefore(text, c + 1) = BackslashesBefore(text, c) + 1
<1> DEFINE S == {i \in 0 .. c - 1 : i = 0 \/ text[i] # Backslash}
<1>1. S \subseteq Nat /\ 0 \in S /\ S # {} /\ IsFiniteSet(S) /\ \A i \in S : i <= c - 1
    <2>1. IsFiniteSet(0 .. c - 1)
        BY FS_Interval
    <2>2. IsFiniteSet(S)
        BY <2>1, FS_Subset
    <2> QED
        BY <2>2
<1>2. PICK m \in S : \A j \in S : j <= m
    <2> HIDE DEF S
    <2> QED
        BY <1>1, GreatestElement
<1>3. Last0(S) = m
    <2> HIDE DEF S
    <2> QED
        BY <1>1, <1>2, LastIs
<1>4. BackslashesBefore(text, c) = c - 1 - m
    BY <1>3 DEF BackslashesBefore
<1>5. m \in 0 .. c - 1 /\ c - 1 - (c - 1 - m) = m
    BY <1>1
<1>6. ASSUME text[c] = Backslash PROVE BackslashesBefore(text, c + 1) = c - m
    <2>1. {i \in 0 .. c : i = 0 \/ text[i] # Backslash} = S
        BY <1>6
    <2>2. (c + 1) - 1 = c
        OBVIOUS
    <2> QED
        BY <1>3, <2>1, <2>2 DEF BackslashesBefore
<1> QED
    BY <1>2, <1>4, <1>5, <1>6

LEMMA BackslashCount ==
    ASSUME NEW text, NEW c \in Nat \ {0}
    PROVE  BackslashesBefore(text, c) \in Nat
<1>1. BackslashesBefore(text, c) \in 0 .. c - 1
    BY BackslashRun
<1> QED
    BY <1>1

-----------------------------------------------------------------------------
(* Escaped values.                                                          *)

Unit(c) == IF c \in {",", Backslash} THEN <<Backslash, c>> ELSE <<c>>

Units(val) == [i \in DOMAIN val |-> Unit(val[i])]

(* t stands in the text after position o.                                   *)
Located(text, o, t) ==
    o + Len(t) <= Len(text) /\ \A j \in 1 .. Len(t) : text[o + j] = t[j]

Even(text, c) == BackslashesBefore(text, c) % 2 = 0

LEMMA EscapeAt ==
    ASSUME NEW val \in Seq(Token)
    PROVE  /\ Escape(val) \in Seq(Token)
           /\ Len(Units(val)) = Len(val)
           /\ \E at \in [0 .. Len(val) -> Nat] : Placed(Units(val), at, Escape(val))
<1>1. Units(val) \in Seq(Seq(Token)) /\ Len(Units(val)) = Len(val)
    <2>1. Backslash \in Token
        BY DEF Token
    <2>2. \A i \in 1 .. Len(val) : val[i] \in Token
        OBVIOUS
    <2>3. ASSUME NEW c \in Token PROVE Unit(c) \in Seq(Token)
        <3>1. <<Backslash, c>> \in Seq(Token) /\ <<c>> \in Seq(Token)
            BY <2>1
        <3> QED
            BY <3>1 DEF Unit
    <2> QED
        <3> DEFINE us == [i \in 1 .. Len(val) |-> Unit(val[i])]
        <3>1. Units(val) = us /\ Len(val) \in Nat
            BY DEF Units
        <3>2. \A i \in 1 .. Len(val) : Unit(val[i]) \in Seq(Token)
            BY <2>2, <2>3
        <3>3. us \in Seq(Seq(Token)) /\ Len(us) = Len(val)
            BY <3>1, <3>2, IsASeq
        <3> QED
            BY <3>1, <3>3
<1>2. Escape(val) = FlattenSeq(Units(val))
    BY DEF Escape, Units, Unit
<1> QED
    BY <1>1, <1>2, FlattenAt
(* The unit of x stands in the text from c to e.                            *)
UnitFrom(text, c, e, x) ==
    \/ /\ x \in {",", Backslash} /\ e = c + 1
       /\ text[c] = Backslash /\ text[c + 1] = x /\ ~Even(text, c + 1)
    \/ /\ x \notin {",", Backslash} /\ e = c
       /\ text[c] = x

(* In an escaped value that follows an even number of backslashes, every    *)
(* unit does too; a comma follows an odd one, so that nothing separates it, *)
(* and of each unit Unescape keeps one character, the one it escapes.       *)
LEMMA EscapedUnits ==
    ASSUME NEW text, Len(text) \in Nat, NEW val \in Seq(Token), NEW o \in Nat,
           Located(text, o, Escape(val)), Even(text, o + 1),
           NEW at \in [0 .. Len(val) -> Nat], Placed(Units(val), at, Escape(val)),
           NEW k \in 1 .. Len(val), Even(text, o + at[k - 1] + 1)
    PROVE  /\ Even(text, o + at[k] + 1)
           /\ o + at[k] <= Len(text)
           /\ UnitFrom(text, o + at[k - 1] + 1, o + at[k], val[k])
<1> DEFINE c == o + at[k - 1] + 1
           u == Unit(val[k])
<1>1. /\ k - 1 \in 0 .. Len(val) /\ at[k - 1] \in Nat /\ at[k] \in Nat
      /\ c \in Nat \ {0}
    OBVIOUS
<1>2. Len(Units(val)) = Len(val) /\ Units(val)[k] = u
    BY EscapeAt DEF Units
<1>3. /\ at[k] = at[k - 1] + Len(u) /\ at[k] <= Len(Escape(val))
      /\ \A i \in 1 .. Len(u) : Escape(val)[at[k - 1] + i] = u[i]
    <2> HIDE DEF u
    <2>1. k \in 1 .. Len(Units(val)) /\ k \in 0 .. Len(Units(val))
        BY <1>2
    <2> QED
        BY <1>2, <2>1 DEF Placed
<1>4. Len(Escape(val)) \in Nat /\ Len(u) \in {1, 2}
    BY EscapeAt DEF Unit
<1>5. \A i \in 1 .. Len(u) : text[o + (at[k - 1] + i)] = u[i]
    <2> SUFFICES ASSUME NEW i \in 1 .. Len(u) PROVE text[o + (at[k - 1] + i)] = u[i]
        OBVIOUS
    <2>1. at[k - 1] + i \in 1 .. Len(Escape(val))
        <3> HIDE DEF u
        <3>1. Len(u) \in Nat /\ at[k - 1] + Len(u) <= Len(Escape(val))
            BY <1>3, <1>4
        <3> QED
            BY <1>1, <1>4, <3>1, Within
    <2> QED
        BY <1>3, <2>1 DEF Located
<1>6. o + at[k] <= Len(text) /\ o + at[k] = o + at[k - 1] + Len(u)
    <2> DEFINE b == at[k - 1]
               e == at[k]
               l == Len(u)
               L == Len(Escape(val))
    <2>1. /\ b \in Nat /\ e \in Nat /\ e = b + l /\ e <= L /\ l \in Nat /\ L \in Nat
          /\ o + L <= Len(text)
        BY <1>1, <1>3, <1>4 DEF Located
    <2> HIDE DEF b, e, l, L, c, u
    <2>2. o + e <= Len(text) /\ o + e = o + b + l
        BY <2>1
    <2> QED
        BY <2>2 DEF b, e, l
<1>7. CASE val[k] \in {",", Backslash}
    <2>1. u = <<Backslash, val[k]>>
        BY <1>7 DEF Unit
    <2>2. text[o + (at[k - 1] + 1)] = Backslash /\ text[o + (at[k - 1] + 2)] = val[k]
        BY <1>5, <2>1
    <2>3. o + (at[k - 1] + 1) = c /\ o + (at[k - 1] + 2) = c + 1 /\ o + at[k] = c + 1
        <3> DEFINE b == at[k - 1]
                   e == at[k]
        <3>1. Len(u) = 2
            BY <2>1
        <3>2. b \in Nat /\ e \in Nat /\ o + e = o + b + 2
            BY <1>1, <1>6, <3>1
        <3> HIDE DEF b, e, u
        <3>3. o + (b + 1) = o + b + 1 /\ o + (b + 2) = (o + b + 1) + 1 /\ o + e = (o + b + 1) + 1
            BY <3>2
        <3> QED
            BY <3>3 DEF b, e
    <2>4. text[c] = Backslash /\ text[c + 1] = val[k]
        BY <2>2, <2>3
    <2>5. BackslashesBefore(text, c) \in Nat /\ BackslashesBefore(text, c) % 2 = 0
        <3>1. Even(text, c) /\ c \in Nat \ {0}
            BY <1>1
        <3> HIDE DEF c
        <3>2. BackslashesBefore(text, c) \in Nat
            BY <3>1, BackslashCount
        <3> QED
            BY <3>1, <3>2 DEF Even
    <2>6. BackslashesBefore(text, c + 1) = BackslashesBefore(text, c) + 1
        BY <1>1, <2>4, BackslashRun
    <2>7. ~Even(text, c + 1)
        BY <2>5, <2>6, Parity DEF Even
    <2>8. Even(text, c + 2)
        <3>1. CASE val[k] = Backslash
            <4>1. c + 1 \in Nat \ {0} /\ (c + 1) + 1 = c + 2
                BY <1>1
            <4> HIDE DEF c
            <4>2. BackslashesBefore(text, c + 2) = BackslashesBefore(text, c + 1) + 1
                BY <2>4, <3>1, <4>1, BackslashRun
            <4> QED
                BY <2>5, <2>6, <4>2 DEF Even
        <3>2. CASE val[k] = ","
            <4>1. c + 2 \in Nat \ {0} /\ (c + 2) - 1 = c + 1
                BY <1>1
            <4>2. text[c + 1] # Backslash
                BY <2>4, <3>2 DEF Backslash
            <4> HIDE DEF c
            <4> QED
                BY <4>1, <4>2, BackslashNone DEF Even
        <3> QED
            BY <1>7, <3>1, <3>2
    <2>9. o + at[k] + 1 = c + 2
        BY <1>1, <2>3
    <2>10. Even(text, o + at[k] + 1)
        BY <2>8, <2>9
    <2> HIDE DEF c
    <2>11. UnitFrom(text, c, o + at[k], val[k])
        BY <1>7, <2>3, <2>4, <2>7 DEF UnitFrom
    <2> QED
        BY <1>6, <2>10, <2>11 DEF c
<1>8. CASE val[k] \notin {",", Backslash}
    <2>1. u = <<val[k]>>
        BY <1>8 DEF Unit
    <2>2. text[o + (at[k - 1] + 1)] = val[k]
        BY <1>5, <2>1
    <2>3. o + (at[k - 1] + 1) = c /\ o + at[k] = c
        BY <1>1, <1>6, <2>1
    <2>4. text[c] = val[k] /\ text[c] # Backslash
        BY <1>8, <2>2, <2>3
    <2>5. c + 1 \in Nat \ {0} /\ (c + 1) - 1 = c
        BY <1>1
    <2> HIDE DEF c
    <2>6. Even(text, c + 1)
        BY <2>4, <2>5, BackslashNone DEF Even
    <2>7. Even(text, o + at[k] + 1)
        BY <2>3, <2>6
    <2>8. UnitFrom(text, c, o + at[k], val[k])
        BY <1>8, <2>3, <2>4 DEF UnitFrom
    <2> QED
        BY <1>6, <2>7, <2>8 DEF c
<1> QED
    BY <1>7, <1>8

LEMMA EscapedEven ==
    ASSUME NEW text, Len(text) \in Nat, NEW val \in Seq(Token), NEW o \in Nat,
           Located(text, o, Escape(val)), Even(text, o + 1),
           NEW at \in [0 .. Len(val) -> Nat], Placed(Units(val), at, Escape(val))
    PROVE  \A k \in 0 .. Len(val) : Even(text, o + at[k] + 1)
<1> DEFINE n == Len(val)
           G == {k \in 0 .. n : Even(text, o + at[k] + 1)}
<1>0. n \in Nat
    OBVIOUS
<1>1. 0 \in G
    <2>1. at[0] = 0 /\ o + 0 + 1 = o + 1
        BY DEF Placed
    <2> QED
        BY <1>0, <2>1
<1>2. ASSUME NEW k \in 1 .. n, k - 1 \in G PROVE k \in G
    <2>1. Even(text, o + at[k - 1] + 1) /\ k \in 0 .. n
        BY <1>2
    <2>2. Even(text, o + at[k] + 1)
        BY <2>1, EscapedUnits
    <2> QED
        BY <2>1, <2>2
<1>3. \A k \in 0 .. n : k \in G
    <2> HIDE DEF G, n
    <2> QED
        BY <1>0, <1>1, <1>2, UpTo
<1> QED
    BY <1>3

(* Every position of an escaped value belongs to one of its units.          *)
LEMMA UnitsCover ==
    ASSUME NEW val \in Seq(Token), NEW at \in [0 .. Len(val) -> Nat],
           Placed(Units(val), at, Escape(val)), NEW d \in 1 .. Len(Escape(val))
    PROVE  \E k \in 1 .. Len(val) : \E i \in 1 .. Len(Units(val)[k]) : d = at[k - 1] + i
<1>1. Len(Units(val)) = Len(val) /\ Len(val) \in Nat
    BY EscapeAt
<1>2. \A k \in 1 .. Len(val) : Len(Units(val)[k]) \in Nat
    <2>1. \A c : Len(Unit(c)) \in Nat
        BY DEF Unit
    <2> QED
        BY <2>1 DEF Units
<1> DEFINE ss == Units(val)
           t == Escape(val)
<1>3. /\ Len(ss) = Len(val) /\ Len(ss) \in Nat /\ \A k \in 1 .. Len(ss) : Len(ss[k]) \in Nat
      /\ \A k \in 0 .. Len(ss) : at[k] \in Nat
      /\ Placed(ss, at, t) /\ d \in 1 .. Len(t)
    BY <1>1, <1>2
<1> HIDE DEF ss, t
<1>4. \E k \in 1 .. Len(ss) : \E i \in 1 .. Len(ss[k]) : d = at[k - 1] + i
    BY <1>3, PlacedCovers
<1> QED
    BY <1>3, <1>4 DEF ss

(* An escaped value has no separator in it and leaves an even number of     *)
(* backslashes before what comes next.                                      *)
LEMMA EscapedCommas ==
    ASSUME NEW text, Len(text) \in Nat, NEW val \in Seq(Token), NEW o \in Nat,
           Located(text, o, Escape(val)), Even(text, o + 1)
    PROVE  /\ Even(text, o + Len(Escape(val)) + 1)
           /\ \A c \in o + 1 .. o + Len(Escape(val)) : text[c] = "," => ~Even(text, c)
<1>1. PICK at \in [0 .. Len(val) -> Nat] : Placed(Units(val), at, Escape(val))
    BY EscapeAt
<1>2. Escape(val) \in Seq(Token) /\ Len(Units(val)) = Len(val) /\ Len(val) \in Nat
    BY EscapeAt
<1>3. \A k \in 0 .. Len(val) : Even(text, o + at[k] + 1)
    BY <1>1, EscapedEven
<1>4. Even(text, o + Len(Escape(val)) + 1)
    BY <1>1, <1>2, <1>3 DEF Placed
<1>5. ASSUME NEW d \in 1 .. Len(Escape(val)), text[o + d] = "," PROVE ~Even(text, o + d)
    <2>1. \A k \in 1 .. Len(Units(val)) :
              Units(val)[k] = Unit(val[k]) /\ Len(Units(val)[k]) \in {1, 2}
        <3>1. \A c : Len(Unit(c)) \in {1, 2}
            BY DEF Unit
        <3>2. \A k \in 1 .. Len(val) : Units(val)[k] = Unit(val[k])
            BY DEF Units
        <3> QED
            BY <1>2, <3>1, <3>2
    <2>2. PICK k \in 1 .. Len(val) : \E i \in 1 .. Len(Units(val)[k]) : d = at[k - 1] + i
        BY <1>1, UnitsCover
    <2> DEFINE m == Len(Units(val)[k])
               b == at[k - 1]
               c == o + b + 1
    <2>3. m \in {1, 2} /\ b \in Nat /\ k - 1 \in 0 .. Len(val)
        <3>1. m \in {1, 2}
            BY <1>2, <2>1
        <3>2. k - 1 \in 0 .. Len(val)
            BY <1>2
        <3> QED
            BY <3>1, <3>2
    <2>4. Even(text, o + at[k - 1] + 1)
        BY <1>3, <2>3
    <2>5. UnitFrom(text, o + at[k - 1] + 1, o + at[k], val[k])
        BY <1>1, <2>4, EscapedUnits
    <2>6. at[k] = b + m
        BY <1>1, <1>2 DEF Placed
    <2> HIDE DEF m, b
    <2>7. PICK i \in 1 .. m : d = b + i
        BY <2>2 DEF m, b
    <2>8. UnitFrom(text, c, o + at[k], val[k])
        BY <2>5 DEF b
    <2>9. o + d \in {c, c + 1} /\ o + d <= o + at[k] /\ c \in Nat
        BY <2>3, <2>6, <2>7
    <2>10. "," # Backslash /\ ~(c + 1 <= c)
        BY <2>9 DEF Backslash
    <2> HIDE DEF c
    <2> QED
        BY <1>5, <2>8, <2>9, <2>10 DEF UnitFrom
<1>6. ASSUME NEW c \in o + 1 .. o + Len(Escape(val)), text[c] = "," PROVE ~Even(text, c)
    <2>1. c - o \in 1 .. Len(Escape(val)) /\ o + (c - o) = c
        BY <1>2
    <2> QED
        BY <1>5, <1>6, <2>1
<1> QED
    BY <1>4, <1>6

(* The steps of Unescape.                                                   *)
LEMMA UnescapeSteps ==
    ASSUME NEW text \in Seq(Token)
    PROVE  \E out \in [0 .. Len(text) -> Seq(Token)] :
               /\ out[0] = <<>>
               /\ \A k \in 1 .. Len(text) :
                      out[k] = IF Kept(text, k) THEN Append(out[k - 1], text[k]) ELSE out[k - 1]
               /\ Unescape(text) = out[Len(text)]
<1> DEFINE n == Len(text)
           A == Seq(Token)
           Look(acc, k) == IF Kept(text, k) THEN Append(acc, text[k]) ELSE acc
           Step == [k \in 1 .. n |-> [acc \in A |-> Look(acc, k)]]
           Eqn(f) == f = [k \in 0 .. n |-> IF k = 0 THEN <<>> ELSE Look(f[k - 1], k)]
           out == CHOOSE f : Eqn(f)
<1>1. n \in Nat /\ <<>> \in A
    OBVIOUS
<1>2. \A k \in 1 .. n, acc \in A : Look(acc, k) \in A
    <2>1. \A k \in 1 .. n : text[k] \in Token
        OBVIOUS
    <2>2. \A acc \in A, x \in Token : Append(acc, x) \in A
        OBVIOUS
    <2> HIDE DEF A
    <2> QED
        BY <2>1, <2>2
<1>3. Step \in [1 .. n -> [A -> A]]
    <2> HIDE DEF Look, A, n
    <2> QED
        BY <1>2
<1>4. PICK f \in [0 .. n -> A] : IsRun(f, n, <<>>, Step)
    <2> HIDE DEF n, A, Step
    <2> QED
        BY <1>1, <1>3, LoopRuns
<1>5. ASSUME NEW k \in 1 .. n PROVE f[k] = Look(f[k - 1], k)
    <2>1. k - 1 \in 0 .. n
        BY <1>1
    <2> HIDE DEF A, Look
    <2>2. f[k - 1] \in A
        BY <2>1
    <2>3. Step[k][f[k - 1]] = Look(f[k - 1], k)
        BY <2>2
    <2> QED
        BY <1>4, <2>3 DEF IsRun
<1>6. Eqn(f)
    <2> HIDE DEF A, Look
    <2> QED
        BY <1>1, <1>4, <1>5 DEF IsRun
<1>7. Eqn(out)
    BY <1>6
<1>8. Unescape(text) = out[n]
    BY DEF Unescape
<1> HIDE DEF out
<1>9. out[0] = <<>> /\ \A k \in 1 .. n : out[k] = Look(out[k - 1], k)
    <2> HIDE DEF A, Look
    <2> QED
        BY <1>1, <1>7
<1>10. \A k \in 0 .. n : out[k] \in A
    <2> DEFINE G == {k \in 0 .. n : out[k] \in A}
    <2> HIDE DEF A, Look
    <2>1. 0 \in G
        BY <1>1, <1>9
    <2>2. ASSUME NEW k \in 1 .. n, k - 1 \in G PROVE k \in G
        BY <1>2, <1>9, <2>2
    <2>3. \A k \in 0 .. n : k \in G
        <3> HIDE DEF G, n
        <3> QED
            BY <1>1, <2>1, <2>2, UpTo
    <2> QED
        BY <2>3
<1>11. out \in [0 .. n -> A]
    BY <1>7, <1>10
<1> QED
    BY <1>8, <1>9, <1>11

(* A loop that appends the elements of a sequence appends the sequence.     *)
LEMMA AppendsAll ==
    ASSUME NEW S, NEW val \in Seq(S), NEW h \in [0 .. Len(val) -> Seq(S)],
           \A k \in 1 .. Len(val) : h[k] = Append(h[k - 1], val[k])
    PROVE  h[Len(val)] = h[0] \o val
<1> DEFINE n == Len(val)
           Good(k) == /\ Len(h[k]) = Len(h[0]) + k
                      /\ \A i \in 1 .. Len(h[0]) : h[k][i] = h[0][i]
                      /\ \A i \in 1 .. k : h[k][Len(h[0]) + i] = val[i]
           G == {k \in 0 .. n : Good(k)}
<1>0. n \in Nat /\ 0 \in 0 .. n /\ n \in 0 .. n
    OBVIOUS
<1>1. h[0] \in Seq(S) /\ Len(h[0]) \in Nat /\ h[n] \in Seq(S)
    BY <1>0
<1>2. 0 \in G
    BY <1>0, <1>1
<1>3. ASSUME NEW k \in 1 .. n, k - 1 \in G PROVE k \in G
    <2>0. k - 1 \in 0 .. n
        BY <1>0
    <2>1. k - 1 \in 0 .. n /\ h[k - 1] \in Seq(S) /\ h[k] = Append(h[k - 1], val[k])
        BY <2>0
    <2>2. Len(h[k - 1]) = Len(h[0]) + (k - 1) /\ Good(k - 1)
        BY <1>3
    <2> DEFINE g == h[k - 1]
    <2>3. g \in Seq(S) /\ val[k] \in S
        BY <2>1
    <2>4. /\ Len(h[k]) = Len(g) + 1 /\ h[k][Len(g) + 1] = val[k]
          /\ \A i \in 1 .. Len(g) : h[k][i] = g[i]
        <3> HIDE DEF g
        <3>1. h[k] = Append(g, val[k])
            BY <2>1 DEF g
        <3> QED
            BY <2>3, <3>1
    <2>5. Len(g) = Len(h[0]) + (k - 1) /\ Len(g) + 1 = Len(h[0]) + k
        BY <1>1, <2>2
    <2>6. \A i \in 1 .. Len(h[0]) : i \in 1 .. Len(g)
        BY <1>1, <2>5
    <2>7. ASSUME NEW i \in 1 .. k PROVE h[k][Len(h[0]) + i] = val[i]
        <3>1. CASE i = k
            BY <2>4, <2>5, <3>1
        <3>2. CASE i # k
            <4>1. i \in 1 .. (k - 1) /\ Len(h[0]) + i \in 1 .. Len(g)
                BY <1>1, <2>5, <3>2
            <4> QED
                BY <2>2, <2>4, <4>1
        <3> QED
            BY <3>1, <3>2
    <2> QED
        BY <2>2, <2>4, <2>5, <2>6, <2>7
<1>4. Good(n)
    <2>1. n \in G
        <3> HIDE DEF G, n
        <3> QED
            BY <1>0, <1>2, <1>3, UpTo
    <2> QED
        BY <2>1
<1>5. h[0] \o val \in Seq(S) /\ Len(h[0] \o val) = Len(h[0]) + n
    BY <1>1
<1>6. ASSUME NEW i \in 1 .. Len(h[0]) + n PROVE h[n][i] = (h[0] \o val)[i]
    <2>1. CASE i <= Len(h[0])
        BY <1>1, <1>4, <2>1
    <2>2. CASE ~(i <= Len(h[0]))
        <3>1. i - Len(h[0]) \in 1 .. n /\ Len(h[0]) + (i - Len(h[0])) = i
            BY <1>0, <1>1, <2>2
        <3>2. h[n][i] = val[i - Len(h[0])]
            BY <1>4, <3>1
        <3> QED
            BY <1>1, <2>2, <3>2
    <2> QED
        BY <2>1, <2>2
<1> HIDE DEF n
<1> QED
    BY <1>1, <1>4, <1>5, <1>6, SeqEqual DEF n

(* Of an escaped character, Unescape keeps the character.                   *)
UnescapesTo(text, out) ==
    \A k \in 1 .. Len(text) :
        out[k] = IF Kept(text, k) THEN Append(out[k - 1], text[k]) ELSE out[k - 1]

LEMMA EscapedKept ==
    ASSUME NEW text, Len(text) \in Nat, NEW c \in 1 .. Len(text), NEW e \in 1 .. Len(text),
           NEW x, UnitFrom(text, c, e, x), Even(text, c),
           NEW out, UnescapesTo(text, out)
    PROVE  out[e] = Append(out[c - 1], x)
<1>0. c \in Nat /\ c + 1 \in Nat /\ (c + 1) - 1 = c
    OBVIOUS
<1>1. CASE x = ","
    <2>0. e = c + 1 /\ text[c] = Backslash /\ text[c + 1] = ","
        BY <1>1 DEF UnitFrom
    <2>1. c < Len(text)
        <3>1. e = c + 1
            BY <2>0
        <3>2. e <= Len(text)
            OBVIOUS
        <3> QED
            BY <1>0, <3>1, <3>2
    <2>2. ~Kept(text, c) /\ Kept(text, c + 1)
        BY <2>0, <2>1 DEF Kept, Backslash
    <2>3. out[c] = out[c - 1] /\ out[c + 1] = Append(out[c], text[c + 1])
        BY <1>0, <2>0, <2>2 DEF UnescapesTo
    <2> QED
        BY <1>1, <2>0, <2>3
<1>2. CASE x = Backslash
    <2>1. /\ e = c + 1 /\ text[c] = Backslash /\ text[c + 1] = Backslash
          /\ ~Even(text, c + 1)
        BY <1>2 DEF UnitFrom
    <2>2. Kept(text, c) /\ ~Kept(text, c + 1)
        BY <2>1 DEF Kept, Even, Backslash
    <2>3. out[c] = Append(out[c - 1], text[c]) /\ out[c + 1] = out[c]
        BY <1>0, <2>1, <2>2 DEF UnescapesTo
    <2> QED
        BY <1>2, <2>1, <2>3
<1>3. CASE x \notin {",", Backslash}
    <2>1. e = c /\ text[c] = x /\ text[c] # Backslash
        BY <1>3 DEF UnitFrom
    <2>2. Kept(text, c)
        BY <2>1 DEF Kept
    <2> QED
        BY <2>1, <2>2 DEF UnescapesTo
<1> QED
    BY <1>1, <1>2, <1>3

(* Unescape undoes Escape, after a text without backslashes.                *)
LEMMA UnescapeInverts ==
    ASSUME NEW prefix \in Seq(Token), \A i \in 1 .. Len(prefix) : prefix[i] # Backslash,
           NEW val \in Seq(Token)
    PROVE  Unescape(prefix \o Escape(val)) = prefix \o val
<1> DEFINE text == prefix \o Escape(val)
           o == Len(prefix)
           n == Len(val)
<1>1. /\ Escape(val) \in Seq(Token) /\ text \in Seq(Token)
      /\ o \in Nat /\ n \in Nat /\ Len(text) = o + Len(Escape(val)) /\ Len(text) \in Nat
      /\ \A i \in 1 .. o : text[i] = prefix[i]
    BY EscapeAt
<1>2. Located(text, o, Escape(val))
    BY <1>1 DEF Located
<1>3. Even(text, o + 1)
    <2>1. o + 1 \in Nat \ {0} /\ (o + 1) - 1 = o /\ (o + 1 = 1 \/ text[o] # Backslash)
        BY <1>1
    <2> HIDE DEF text, o
    <2>2. BackslashesBefore(text, o + 1) = 0
        BY <2>1, BackslashNone
    <2> QED
        BY <2>2 DEF Even
<1>4. PICK at \in [0 .. n -> Nat] : Placed(Units(val), at, Escape(val))
    BY EscapeAt
<1>5. PICK out \in [0 .. Len(text) -> Seq(Token)] :
          out[0] = <<>> /\ UnescapesTo(text, out) /\ Unescape(text) = out[Len(text)]
    <2> HIDE DEF text
    <2> QED
        BY <1>1, UnescapeSteps DEF UnescapesTo
<1>6. out[o] = prefix
    <2> DEFINE h == [k \in 0 .. o |-> out[k]]
    <2>1. 0 .. o \subseteq 0 .. Len(text)
        BY <1>1
    <2>2. h \in [0 .. o -> Seq(Token)]
        <3> HIDE DEF text
        <3> QED
            BY <2>1
    <2>3. ASSUME NEW k \in 1 .. o PROVE h[k] = Append(h[k - 1], prefix[k])
        <3>1. k \in 1 .. Len(text) /\ k - 1 \in 0 .. o /\ text[k] = prefix[k]
            BY <1>1
        <3> HIDE DEF text, o
        <3>2. Kept(text, k)
            BY <3>1 DEF Kept, o
        <3>3. out[k] = Append(out[k - 1], text[k])
            BY <1>5, <3>1, <3>2 DEF UnescapesTo
        <3> QED
            BY <3>1, <3>3
    <2>4. h[o] = h[0] \o prefix
        <3> HIDE DEF h
        <3> QED
            BY <2>2, <2>3, AppendsAll
    <2>5. h[o] = out[o] /\ h[0] = <<>>
        BY <1>1, <1>5
    <2>6. <<>> \o prefix = prefix
        OBVIOUS
    <2> HIDE DEF h
    <2> QED
        BY <2>4, <2>5, <2>6
<1>7. Unescape(text) = out[o] \o val
    <2> DEFINE h == [k \in 0 .. n |-> out[o + at[k]]]
    <2>1. at[0] = 0 /\ at[n] = Len(Escape(val)) /\ Len(Units(val)) = n
          /\ \A k \in 0 .. n : at[k] \in Nat /\ at[k] <= Len(Escape(val))
        BY <1>1, <1>4, EscapeAt DEF Placed
    <2>2. \A k \in 0 .. n : o + at[k] \in 0 .. Len(text)
        BY <1>1, <2>1
    <2>3. h \in [0 .. n -> Seq(Token)]
        <3> HIDE DEF text, o, n
        <3> QED
            BY <2>2
    <2>4. ASSUME NEW k \in 1 .. n PROVE h[k] = Append(h[k - 1], val[k])
        <3>1. k - 1 \in 0 .. n /\ k \in 0 .. n
            BY <1>1
        <3>2. Even(text, o + at[k - 1] + 1)
            <4> HIDE DEF text, o
            <4> QED
                BY <1>1, <1>2, <1>3, <1>4, <3>1, EscapedEven
        <3>3. UnitFrom(text, o + at[k - 1] + 1, o + at[k], val[k])
            <4> HIDE DEF text, o
            <4> QED
                BY <1>1, <1>2, <1>3, <1>4, <3>2, EscapedUnits
        <3>4. /\ o + at[k - 1] + 1 \in 1 .. Len(text) /\ o + at[k] \in 1 .. Len(text)
              /\ (o + at[k - 1] + 1) - 1 = o + at[k - 1]
            <4>0. /\ o \in Nat /\ at[k - 1] \in Nat /\ at[k] \in Nat
                  /\ o + at[k] \in 0 .. Len(text)
                BY <1>1, <2>1, <2>2, <3>1
            <4>1. /\ o \in Nat /\ at[k - 1] \in Nat /\ at[k] \in Nat
                  /\ o + at[k - 1] \in Nat /\ o + at[k] \in 0 .. Len(text)
                <5> DEFINE b == at[k - 1]
                <5> HIDE DEF b, text, o
                <5>1. b \in Nat => o + b \in Nat
                    BY <4>0
                <5> QED
                    BY <4>0, <5>1 DEF b
            <4>2. o + at[k - 1] + 1 <= o + at[k]
                <5> DEFINE c == o + at[k - 1] + 1
                           e == o + at[k]
                <5>1. c \in Nat /\ UnitFrom(text, c, e, val[k])
                    <6>1. \A d \in Nat : d + 1 \in Nat
                        OBVIOUS
                    <6> HIDE DEF text, o
                    <6>2. c \in Nat
                        BY <4>1, <6>1
                    <6> QED
                        BY <3>3, <6>2
                <5>2. e = c + 1 \/ e = c
                    <6> HIDE DEF c, e, text
                    <6> QED
                        BY <5>1 DEF UnitFrom
                <5> HIDE DEF c, e
                <5>3. c <= e
                    BY <5>1, <5>2
                <5> QED
                    BY <5>3 DEF c, e
            <4>3. Len(text) \in Nat
                BY <1>1
            <4> DEFINE b == o + at[k - 1]
                       e == o + at[k]
            <4>4. b \in Nat /\ e \in Nat /\ e <= Len(text) /\ b + 1 <= e
                BY <4>1, <4>2, <4>3
            <4> HIDE DEF text, o, b, e
            <4>5. b + 1 \in 1 .. Len(text) /\ e \in 1 .. Len(text) /\ (b + 1) - 1 = b
                BY <4>3, <4>4
            <4> QED
                BY <4>5 DEF b, e
        <3>5. out[o + at[k]] = Append(out[o + at[k - 1]], val[k])
            <4> HIDE DEF text, o
            <4>1. Len(text) \in Nat
                BY <1>1
            <4>2. UnescapesTo(text, out)
                BY <1>5
            <4> DEFINE c == o + at[k - 1] + 1
                       e == o + at[k]
            <4>3. c \in 1 .. Len(text) /\ e \in 1 .. Len(text)
                BY <3>4
            <4>4. UnitFrom(text, c, e, val[k]) /\ Even(text, c)
                BY <3>2, <3>3
            <4> HIDE DEF c, e
            <4> DEFINE x == val[k]
            <4> HIDE DEF x
            <4>6. UnitFrom(text, c, e, x)
                BY <4>4 DEF x
            <4>7. out[e] = Append(out[c - 1], x)
                BY <4>1, <4>2, <4>3, <4>4, <4>6, EscapedKept
            <4>5. out[e] = Append(out[c - 1], val[k])
                BY <4>7 DEF x
            <4> QED
                BY <3>4, <4>5 DEF c, e
        <3> QED
            BY <3>1, <3>5
    <2>5. h[n] = h[0] \o val
        <3> HIDE DEF h
        <3> QED
            BY <2>3, <2>4, AppendsAll
    <2>6. h[n] = out[Len(text)] /\ h[0] = out[o]
        BY <1>1, <2>1
    <2> HIDE DEF h
    <2> QED
        BY <1>5, <2>5, <2>6
<1> QED
    BY <1>6, <1>7

-----------------------------------------------------------------------------
(* Pairs.                                                                   *)

LEMMA KeyTextIs ==
    ASSUME NEW pair \in Pair
    PROVE  \E k \in DOMAIN Pascalize :
               /\ Pascalize[k] = pair.key
               /\ k \in Token \ {",", Backslash, "=", "@"}
               /\ KeyText(pair) = IF pair.at THEN <<"@", k>> ELSE <<k>>
<1> DEFINE k == CHOOSE k \in DOMAIN Pascalize : Pascalize[k] = pair.key
<1>1. pair.key \in Keys
    BY DEF Pair
<1>2. k \in DOMAIN Pascalize /\ Pascalize[k] = pair.key
    BY <1>1 DEF Keys
<1>3. KeyText(pair) = IF pair.at THEN <<"@", k>> ELSE <<k>>
    BY DEF KeyText
<1>4. k \in Token \ {",", Backslash, "=", "@"}
    BY <1>2, PresetsAssumption DEF Token
<1> HIDE DEF k
<1> QED
    BY <1>2, <1>3, <1>4

(* What of a pair's text is not escaped, and the value that is.             *)
PlainText(pair) ==
    IF pair.val = <<"true">> THEN KeyText(pair) ELSE KeyText(pair) \o <<"=">>

ValueOf(pair) == IF pair.val = <<"true">> THEN <<>> ELSE pair.val

LEMMA EscapeNothing == Escape(<<>>) = <<>>
<1>1. <<>> \in Seq(Token) /\ Len(<<>>) = 0
    OBVIOUS
<1>2. PICK at \in [0 .. 0 -> Nat] : Placed(Units(<<>>), at, Escape(<<>>))
    BY <1>1, EscapeAt
<1>3. Len(Units(<<>>)) = 0 /\ Escape(<<>>) \in Seq(Token)
    BY <1>1, EscapeAt
<1>4. Len(Escape(<<>>)) = 0
    BY <1>2, <1>3 DEF Placed
<1> QED
    BY <1>3, <1>4, EmptySeq

LEMMA PairTextIs ==
    ASSUME NEW pair \in Pair
    PROVE  /\ PlainText(pair) \in Seq(Token)
           /\ ValueOf(pair) \in Seq(Token)
           /\ PairText(pair) = PlainText(pair) \o Escape(ValueOf(pair))
           /\ PairText(pair) \in Seq(Token)
           /\ Len(PlainText(pair)) \in {1, 2, 3}
           /\ \A i \in 1 .. Len(PlainText(pair)) :
                  PlainText(pair)[i] \notin {",", Backslash}
<1>0. {"@", "=", "true"} \subseteq Token \ {",", Backslash}
    BY DEF Token, Backslash
<1>1. PICK k \in DOMAIN Pascalize :
          /\ k \in Token \ {",", Backslash, "=", "@"}
          /\ KeyText(pair) = IF pair.at THEN <<"@", k>> ELSE <<k>>
    BY KeyTextIs
<1> DEFINE K == KeyText(pair)
           Plain == Token \ {",", Backslash}
<1>2. K \in Seq(Plain) /\ Len(K) \in {1, 2}
    <2>1. "@" \in Plain /\ k \in Plain
        BY <1>0, <1>1
    <2> HIDE DEF Plain
    <2>2. <<"@", k>> \in Seq(Plain) /\ <<k>> \in Seq(Plain)
        BY <2>1
    <2>3. Len(<<"@", k>>) = 2 /\ Len(<<k>>) = 1
        OBVIOUS
    <2> QED
        BY <1>1, <2>2, <2>3
<1>3. <<"=">> \in Seq(Plain) /\ Len(<<"=">>) = 1
    <2>1. "=" \in Plain
        BY <1>0
    <2> HIDE DEF Plain
    <2> QED
        BY <2>1
<1>4. PlainText(pair) \in Seq(Plain) /\ Len(PlainText(pair)) \in {1, 2, 3}
    <2> HIDE DEF K, Plain
    <2>1. K \o <<"=">> \in Seq(Plain) /\ Len(K \o <<"=">>) = Len(K) + 1
        BY <1>2, <1>3, ConcatProperties
    <2>2. PlainText(pair) = IF pair.val = <<"true">> THEN K ELSE K \o <<"=">>
        BY DEF PlainText, K
    <2> QED
        BY <1>2, <2>1, <2>2
<1>5. \A i \in 1 .. Len(PlainText(pair)) : PlainText(pair)[i] \in Plain
    <2> HIDE DEF Plain
    <2> QED
        BY <1>4, ElementOfSeq
<1>6. \A t \in Seq(Plain) : t \in Seq(Token)
    <2>1. Plain \subseteq Token
        OBVIOUS
    <2> HIDE DEF Plain
    <2> QED
        BY <2>1, SeqMonotonic
<1>7. PlainText(pair) \in Seq(Token) /\ K \in Seq(Token) /\ <<"=">> \in Seq(Token)
    <2> HIDE DEF K, Plain
    <2> QED
        BY <1>2, <1>3, <1>4, <1>6
<1>8. pair.val \in Seq(Token) /\ <<>> \in Seq(Token)
    BY DEF Pair
<1>9. ValueOf(pair) \in Seq(Token)
    BY <1>8 DEF ValueOf
<1>10. Escape(ValueOf(pair)) \in Seq(Token) /\ Escape(pair.val) \in Seq(Token)
    BY <1>8, <1>9, EscapeAt
<1>11. PairText(pair) = PlainText(pair) \o Escape(ValueOf(pair))
    <2>1. CASE pair.val = <<"true">>
        BY <2>1, EscapeNothing DEF PairText, PlainText, ValueOf
    <2>2. CASE pair.val # <<"true">>
        <3>1. PairText(pair) = K \o (<<"=">> \o Escape(pair.val))
            BY <2>2 DEF PairText
        <3>2. PlainText(pair) = K \o <<"=">> /\ ValueOf(pair) = pair.val
            BY <2>2 DEF PlainText, ValueOf
        <3> DEFINE e == <<"=">>
                   v == Escape(pair.val)
        <3>3. (K \o <<"=">>) \o Escape(pair.val) = K \o (<<"=">> \o Escape(pair.val))
            <4>1. K \in Seq(Token) /\ e \in Seq(Token) /\ v \in Seq(Token)
                BY <1>7, <1>10
            <4> HIDE DEF K, e, v
            <4>2. (K \o e) \o v = K \o (e \o v)
                BY <4>1, ConcatAssociative, SMTT(20)
            <4> QED
                BY <4>2 DEF e, v
        <3> HIDE DEF K, e, v
        <3> QED
            BY <3>1, <3>2, <3>3
    <2> QED
        BY <2>1, <2>2
<1>12. PairText(pair) \in Seq(Token)
    BY <1>7, <1>10, <1>11, ConcatProperties
<1> QED
    BY <1>4, <1>5, <1>7, <1>9, <1>11, <1>12

(* parseOption reads back the pair.                                         *)
LEMMA ParseInverts ==
    ASSUME NEW pair \in Pair
    PROVE  ParseOption(PairText(pair)) = pair
<1>1. PICK k \in DOMAIN Pascalize :
          /\ Pascalize[k] = pair.key
          /\ k \in Token \ {",", Backslash, "=", "@"}
          /\ KeyText(pair) = IF pair.at THEN <<"@", k>> ELSE <<k>>
    BY KeyTextIs
<1> DEFINE K == KeyText(pair)
           m == Len(K)
           U == PlainText(pair) \o ValueOf(pair)
           eq == {i \in DOMAIN U : U[i] = "="}
           end == IF eq = {} THEN Len(U)
                  ELSE (CHOOSE i \in eq : \A j \in eq : i <= j) - 1
           at == U[1] = "@"
           key == Pascalize[U[IF at THEN 2 ELSE 1]]
           val == IF eq = {} THEN <<"true">> ELSE SubSeq(U, end + 2, Len(U))
<1>2. Unescape(PairText(pair)) = U
    BY PairTextIs, UnescapeInverts
<1>3. ParseOption(PairText(pair)) = [at |-> at, key |-> key, val |-> val]
    BY <1>2 DEF ParseOption
<1>4. /\ pair.at \in BOOLEAN /\ pair.val \in Seq(Token)
      /\ pair = [at |-> pair.at, key |-> pair.key, val |-> pair.val]
    BY DEF Pair
<1>5. /\ K \in Seq(Token) /\ m \in {1, 2} /\ m = (IF pair.at THEN 2 ELSE 1)
      /\ K[m] = k /\ (pair.at => K[1] = "@") /\ \A i \in 1 .. m : K[i] # "="
    <2>1. "@" \in Token /\ k \in Token /\ "@" # "=" /\ k # "="
        BY <1>1 DEF Token
    <2>2. /\ <<"@", k>> \in Seq(Token) /\ Len(<<"@", k>>) = 2
          /\ <<"@", k>>[1] = "@" /\ <<"@", k>>[2] = k
          /\ <<k>> \in Seq(Token) /\ Len(<<k>>) = 1 /\ <<k>>[1] = k
        BY <2>1
    <2>3. K = IF pair.at THEN <<"@", k>> ELSE <<k>>
        BY <1>1
    <2> HIDE DEF K
    <2>4. CASE pair.at
        <3>1. K = <<"@", k>>
            BY <2>3, <2>4
        <3>2. K \in Seq(Token) /\ m = 2 /\ K[2] = k /\ K[1] = "@"
            BY <2>2, <3>1
        <3> HIDE DEF m
        <3>3. \A i \in 1 .. m : i = 1 \/ i = 2
            BY <3>2
        <3>4. \A i \in 1 .. m : K[i] # "="
            BY <2>1, <3>2, <3>3
        <3> QED
            BY <2>4, <3>2, <3>4
    <2>5. CASE ~pair.at
        <3>1. K = <<k>>
            BY <2>3, <2>5
        <3>2. K \in Seq(Token) /\ m = 1 /\ K[1] = k
            BY <2>2, <3>1
        <3> HIDE DEF m
        <3>3. \A i \in 1 .. m : i = 1
            BY <3>2
        <3>4. \A i \in 1 .. m : K[i] # "="
            BY <2>1, <3>2, <3>3
        <3> QED
            BY <2>5, <3>2, <3>4
    <2> QED
        BY <2>4, <2>5
<1>6. U \in Seq(Token) /\ m <= Len(U) /\ \A i \in 1 .. m : U[i] = K[i]
    <2>1. CASE pair.val = <<"true">>
        <3>1. U = K \o <<>>
            BY <2>1 DEF PlainText, ValueOf
        <3> HIDE DEF U, K
        <3> QED
            BY <1>5, <3>1 DEF m
    <2>2. CASE pair.val # <<"true">>
        <3>1. U = (K \o <<"=">>) \o pair.val /\ "=" \in Token
            BY <2>2 DEF PlainText, ValueOf, Token
        <3> HIDE DEF U, K
        <3> QED
            BY <1>4, <1>5, <3>1 DEF m
    <2> QED
        BY <2>1, <2>2
<1>7. at = pair.at
    <2> HIDE DEF U, K, m
    <2>1. CASE pair.at
        <3>1. U[1] = "@"
            BY <1>5, <1>6, <2>1
        <3> QED
            BY <1>4, <2>1, <3>1
    <2>2. CASE ~pair.at
        <3>1. U[1] = k
            BY <1>5, <1>6, <2>2
        <3>2. k # "@"
            BY <1>1
        <3> QED
            BY <1>4, <2>2, <3>1, <3>2
    <2> QED
        BY <2>1, <2>2
<1>8. key = pair.key
    <2> HIDE DEF U, K
    <2>1. U[m] = k
        BY <1>5, <1>6
    <2>2. m = (IF at THEN 2 ELSE 1)
        BY <1>5, <1>7
    <2> QED
        BY <1>1, <2>1, <2>2
<1>9. val = pair.val
    <2>1. CASE pair.val = <<"true">>
        <3>1. U = K
            <4>1. U = K \o <<>>
                BY <2>1 DEF PlainText, ValueOf
            <4> HIDE DEF K, U
            <4> QED
                BY <1>5, <4>1
        <3>2. eq = {}
            <4> HIDE DEF K
            <4> QED
                BY <1>5, <3>1 DEF m
        <3> QED
            BY <2>1, <3>2
    <2>2. CASE pair.val # <<"true">>
        <3>1. U = (K \o <<"=">>) \o pair.val /\ "=" \in Token
            BY <2>2 DEF PlainText, ValueOf, Token
        <3> HIDE DEF U, K, end, eq
        <3>2. /\ Len(U) = m + 1 + Len(pair.val) /\ Len(pair.val) \in Nat
              /\ U[m + 1] = "="
              /\ \A i \in 1 .. Len(pair.val) : U[m + 1 + i] = pair.val[i]
            <4> DEFINE J == K \o <<"=">>
                       v == pair.val
            <4>1. J \in Seq(Token) /\ Len(J) = m + 1 /\ J[m + 1] = "=" /\ m \in Nat
                BY <1>4, <1>5, <3>1 DEF m
            <4>2. v \in Seq(Token) /\ U = J \o v
                BY <1>4, <3>1
            <4> HIDE DEF J, v, m
            <4>3. /\ Len(U) = m + 1 + Len(v) /\ Len(v) \in Nat
                  /\ U[m + 1] = J[m + 1]
                  /\ \A i \in 1 .. Len(v) : U[m + 1 + i] = v[i]
                <5>1. /\ Len(J \o v) = Len(J) + Len(v)
                      /\ \A i \in 1 .. Len(J) + Len(v) :
                             (J \o v)[i] = IF i <= Len(J) THEN J[i] ELSE v[i - Len(J)]
                    BY <4>1, <4>2, ConcatProperties
                <5>2. Len(v) \in Nat
                    BY <4>2
                <5>3. m + 1 \in 1 .. Len(J) + Len(v) /\ m + 1 <= Len(J)
                    BY <4>1, <5>2
                <5>4. ASSUME NEW i \in 1 .. Len(v) PROVE (J \o v)[m + 1 + i] = v[i]
                    <6>1. /\ m + 1 + i \in 1 .. Len(J) + Len(v) /\ ~(m + 1 + i <= Len(J))
                          /\ (m + 1 + i) - Len(J) = i
                        BY <4>1, <5>2
                    <6> QED
                        BY <5>1, <6>1
                <5> QED
                    BY <4>1, <4>2, <5>1, <5>2, <5>3, <5>4
            <4> QED
                BY <4>1, <4>3 DEF v
        <3>0. DOMAIN U = 1 .. Len(U) /\ Len(U) \in Nat
            BY <1>6
        <3>3. m + 1 \in eq /\ \A j \in eq : j \in Nat /\ m + 1 <= j
            <4> HIDE DEF m
            <4>1. m + 1 \in DOMAIN U
                <5> DEFINE l == Len(U)
                           v == Len(pair.val)
                <5>1. l = m + 1 + v /\ v \in Nat /\ m \in Nat /\ DOMAIN U = 1 .. l
                    BY <1>5, <3>0, <3>2
                <5> HIDE DEF l, v
                <5> QED
                    BY <5>1
            <4>2. m + 1 \in eq
                BY <3>2, <4>1 DEF eq
            <4>3. ASSUME NEW j \in eq PROVE j \in Nat /\ m + 1 <= j
                <5>1. j \in 1 .. Len(U) /\ U[j] = "="
                    BY <3>0 DEF eq
                <5>2. j \notin 1 .. m
                    BY <1>5, <1>6, <5>1
                <5> QED
                    BY <1>5, <3>0, <5>1, <5>2
            <4> QED
                BY <4>2, <4>3
        <3>4. \A i \in eq : (\A j \in eq : i <= j) => i = m + 1
            <4> SUFFICES ASSUME NEW i \in eq, \A j \in eq : i <= j PROVE i = m + 1
                OBVIOUS
            <4>1. i \in Nat /\ m + 1 <= i /\ i <= m + 1 /\ m \in Nat
                BY <1>5, <3>3
            <4> QED
                BY <4>1
        <3>5. end = (m + 1) - 1 /\ eq # {}
            BY <3>3, <3>4 DEF end
        <3> HIDE DEF m
        <3>6. end + 2 = m + 2 /\ m \in Nat
            BY <1>5, <3>5
        <3>7. val = SubSeq(U, m + 2, Len(U))
            BY <3>5, <3>6
        <3>8. \A i \in m + 2 .. Len(U) : U[i] \in Token
            BY <1>6, <3>6, ElementOfSeq
        <3>9. /\ SubSeq(U, m + 2, Len(U)) \in Seq(Token)
              /\ Len(SubSeq(U, m + 2, Len(U))) = Len(pair.val)
              /\ \A i \in 1 .. Len(pair.val) :
                     SubSeq(U, m + 2, Len(U))[i] = U[m + 1 + i]
            <4>1. m + 2 \in Int /\ Len(U) \in Int
                BY <1>6, <3>6
            <4>2. /\ SubSeq(U, m + 2, Len(U)) \in Seq(Token)
                  /\ Len(SubSeq(U, m + 2, Len(U))) =
                         IF m + 2 <= Len(U) THEN Len(U) - (m + 2) + 1 ELSE 0
                  /\ \A i \in 1 .. Len(U) - (m + 2) + 1 :
                         SubSeq(U, m + 2, Len(U))[i] = U[m + 2 + i - 1]
                BY <3>8, <4>1, SubSeqProperties
            <4> DEFINE l == Len(U)
                       v == Len(pair.val)
            <4>0. l = m + 1 + v /\ v \in Nat
                BY <3>2
            <4>3. Len(U) - (m + 2) + 1 = Len(pair.val)
                <5> HIDE DEF l, v
                <5>1. l - (m + 2) + 1 = v
                    BY <3>6, <4>0
                <5> QED
                    BY <5>1 DEF l, v
            <4>4. \A i \in Nat : m + 2 + i - 1 = m + 1 + i
                BY <3>6
            <4>5. Len(SubSeq(U, m + 2, Len(U))) = Len(pair.val)
                <5>1. Len(SubSeq(U, m + 2, l)) = IF m + 2 <= l THEN l - (m + 2) + 1 ELSE 0
                    BY <4>2
                <5>2. l - (m + 2) + 1 = v
                    BY <4>3
                <5> HIDE DEF l, v
                <5>3. Len(SubSeq(U, m + 2, l)) = v
                    BY <3>6, <4>0, <5>1, <5>2
                <5> QED
                    BY <5>3 DEF l, v
            <4>6. \A i \in 1 .. Len(pair.val) : SubSeq(U, m + 2, Len(U))[i] = U[m + 2 + i - 1]
                BY <4>2, <4>3
            <4>7. \A i \in 1 .. Len(pair.val) : i \in Nat
                BY <4>0
            <4>8. \A i \in 1 .. Len(pair.val) : SubSeq(U, m + 2, Len(U))[i] = U[m + 1 + i]
                BY <4>4, <4>6, <4>7
            <4> QED
                BY <4>2, <4>5, <4>8
        <3> DEFINE v == SubSeq(U, m + 2, Len(U))
        <3>11. /\ v \in Seq(Token) /\ pair.val \in Seq(Token) /\ Len(v) = Len(pair.val)
               /\ \A i \in 1 .. Len(pair.val) : v[i] = pair.val[i]
            BY <1>4, <3>2, <3>9
        <3> HIDE DEF v
        <3>12. v = pair.val
            BY <3>11, SeqEqual
        <3>10. SubSeq(U, m + 2, Len(U)) = pair.val
            BY <3>12 DEF v
        <3> QED
            BY <3>7, <3>10
    <2> QED
        BY <2>1, <2>2
<1> HIDE DEF at, key, val
<1> QED
    BY <1>3, <1>4, <1>7, <1>8, <1>9

-----------------------------------------------------------------------------
(* Lines.                                                                   *)

(* The steps of Separators.                                                 *)
ScansTo(text, seps) ==
    \A c \in 1 .. Len(text) : seps[c] = NoteSeparator(text, seps[c - 1], c)

LEMMA SeparatorsSteps ==
    ASSUME NEW text, Len(text) \in Nat
    PROVE  \E seps \in [0 .. Len(text) -> Seq(Nat)] :
               seps[0] = <<>> /\ ScansTo(text, seps) /\ Separators(text) = seps[Len(text)]
<1> DEFINE n == Len(text)
           A == Seq(Nat)
           Step == [k \in 1 .. n |-> [acc \in A |-> NoteSeparator(text, acc, k)]]
           Eqn(f) == f = [c \in 0 .. n |-> IF c = 0 THEN <<>>
                                           ELSE NoteSeparator(text, f[c - 1], c)]
           seps == CHOOSE f : Eqn(f)
<1>1. n \in Nat /\ <<>> \in A
    OBVIOUS
<1>2. \A k \in 1 .. n, acc \in A : NoteSeparator(text, acc, k) \in A
    <2>1. \A acc \in A, x \in Nat : Append(acc, x) \in A
        OBVIOUS
    <2>2. \A k \in 1 .. n : k \in Nat
        OBVIOUS
    <2> HIDE DEF A
    <2> QED
        BY <2>1, <2>2 DEF NoteSeparator
<1>3. Step \in [1 .. n -> [A -> A]]
    <2> HIDE DEF A, n
    <2> QED
        BY <1>2
<1>4. PICK f \in [0 .. n -> A] : IsRun(f, n, <<>>, Step)
    <2> HIDE DEF n, A, Step
    <2> QED
        BY <1>1, <1>3, LoopRuns
<1>5. ASSUME NEW k \in 1 .. n PROVE f[k] = NoteSeparator(text, f[k - 1], k)
    <2>1. k - 1 \in 0 .. n
        BY <1>1
    <2> HIDE DEF A
    <2>2. f[k - 1] \in A
        BY <2>1
    <2>3. Step[k][f[k - 1]] = NoteSeparator(text, f[k - 1], k)
        BY <2>2
    <2> QED
        BY <1>4, <2>3 DEF IsRun
<1>6. Eqn(f)
    <2> HIDE DEF A
    <2> QED
        BY <1>1, <1>4, <1>5 DEF IsRun
<1>7. Eqn(seps)
    BY <1>6
<1>8. Separators(text) = seps[n]
    BY DEF Separators
<1> HIDE DEF seps
<1>9. seps[0] = <<>> /\ \A k \in 1 .. n : seps[k] = NoteSeparator(text, seps[k - 1], k)
    <2> HIDE DEF A
    <2> QED
        BY <1>1, <1>7
<1>10. \A k \in 0 .. n : seps[k] \in A
    <2> DEFINE G == {k \in 0 .. n : seps[k] \in A}
    <2> HIDE DEF A
    <2>1. 0 \in G
        BY <1>1, <1>9
    <2>2. ASSUME NEW k \in 1 .. n, k - 1 \in G PROVE k \in G
        BY <1>2, <1>9, <2>2
    <2>3. \A k \in 0 .. n : k \in G
        <3> HIDE DEF G, n
        <3> QED
            BY <1>1, <2>1, <2>2, UpTo
    <2> QED
        BY <2>3
<1>11. seps \in [0 .. n -> A]
    BY <1>7, <1>10
<1> QED
    BY <1>8, <1>9, <1>11 DEF ScansTo

(* Every comma in a stretch of text is escaped ...                          *)
CommasEscaped(text, b, l) == \A c \in b + 1 .. b + l : text[c] = "," => ~Even(text, c)

(* ... and then it has no separator.                                        *)
LEMMA NoSeparators ==
    ASSUME NEW text, Len(text) \in Nat, NEW seps, ScansTo(text, seps),
           NEW b \in Nat, NEW l \in Nat, b + l <= Len(text),
           CommasEscaped(text, b, l)
    PROVE  seps[b + l] = seps[b]
<1> DEFINE G == {k \in 0 .. l : seps[b + k] = seps[b]}
           n == Len(text)
<1>0. n \in Nat /\ b + l <= n
    OBVIOUS
<1> HIDE DEF n
<1>1. 0 \in G
    <2>1. 0 \in 0 .. l /\ b + 0 = b
        OBVIOUS
    <2> QED
        BY <2>1
<1>2. ASSUME NEW k \in 1 .. l, k - 1 \in G PROVE k \in G
    <2>1. seps[b + (k - 1)] = seps[b]
        BY <1>2
    <2> HIDE DEF G
    <2>2. b + k \in 1 .. n /\ b + k \in b + 1 .. b + l /\ (b + k) - 1 = b + (k - 1)
        BY <1>0
    <2>3. seps[b + k] = NoteSeparator(text, seps[(b + k) - 1], b + k)
        BY <2>2 DEF ScansTo, n
    <2>4. ~Separates(text, seps[(b + k) - 1], b + k)
        BY <2>2 DEF Separates, Even, CommasEscaped
    <2>5. seps[b + k] = seps[b + (k - 1)]
        BY <2>2, <2>3, <2>4 DEF NoteSeparator
    <2> QED
        BY <2>1, <2>5 DEF G
<1>3. l \in G
    <2>1. l \in 0 .. l
        OBVIOUS
    <2> HIDE DEF G
    <2> QED
        BY <1>1, <1>2, <2>1, UpTo
<1> QED
    BY <1>3

(* The text of a pair, after a separator or at the start of the line: no    *)
(* comma in it separates, and one after it does.                            *)
LEMMA PieceScan ==
    ASSUME NEW text, Len(text) \in Nat, NEW pair \in Pair, NEW b \in Nat,
           Located(text, b, PairText(pair))
    PROVE  LET l == Len(PairText(pair)) IN
           /\ l \in Nat /\ l >= 1
           /\ Even(text, b + l + 1)
           /\ CommasEscaped(text, b, l)
           /\ b < b + l - BackslashesBefore(text, b + l + 1)
<1> DEFINE K == PlainText(pair)
           V == Escape(ValueOf(pair))
           P == PairText(pair)
           k == Len(K)
           o == b + k
           l == Len(P)
<1>0. \A i \in 1 .. k : K[i] \notin {",", Backslash}
    BY PairTextIs
<1>1. /\ K \in Seq(Token) /\ V \in Seq(Token) /\ P = K \o V
      /\ k \in {1, 2, 3} /\ ValueOf(pair) \in Seq(Token)
    BY PairTextIs, EscapeAt
<1>2. Len(V) \in Nat /\ l = k + Len(V) /\ k \in Nat /\ k >= 1
      /\ (\A i \in 1 .. k : P[i] = K[i]) /\ (\A i \in 1 .. Len(V) : P[k + i] = V[i])
    <2> HIDE DEF K, V, P
    <2>1. /\ Len(V) \in Nat /\ Len(K) \in Nat /\ Len(P) = Len(K) + Len(V)
          /\ (\A i \in 1 .. Len(K) : P[i] = K[i])
          /\ (\A i \in 1 .. Len(V) : P[Len(K) + i] = V[i])
        <3>1. Len(V) \in Nat /\ Len(K) \in Nat
            BY <1>1
        <3>2. /\ Len(K \o V) = Len(K) + Len(V)
              /\ \A i \in 1 .. Len(K) + Len(V) :
                     (K \o V)[i] = IF i <= Len(K) THEN K[i] ELSE V[i - Len(K)]
            BY <1>1, ConcatProperties
        <3>3. \A i \in 1 .. Len(K) : i \in 1 .. Len(K) + Len(V) /\ i <= Len(K)
            BY <3>1
        <3>4. \A i \in 1 .. Len(V) : /\ Len(K) + i \in 1 .. Len(K) + Len(V)
                                     /\ ~(Len(K) + i <= Len(K)) /\ (Len(K) + i) - Len(K) = i
            BY <3>1
        <3> QED
            BY <1>1, <3>1, <3>2, <3>3, <3>4
    <2>2. k \in Nat /\ k >= 1
        <3>1. k \in {1, 2, 3}
            BY <1>1
        <3> HIDE DEF k
        <3> QED
            BY <3>1
    <2> QED
        BY <2>1, <2>2
<1>3. b + l <= Len(text) /\ \A j \in 1 .. l : text[b + j] = P[j]
    BY DEF Located
<1> HIDE DEF K, V, P, k, l
<1>4. \A i \in 1 .. k : text[b + i] \notin {",", Backslash}
    <2> SUFFICES ASSUME NEW i \in 1 .. k PROVE text[b + i] \notin {",", Backslash}
        OBVIOUS
    <2>1. i \in 1 .. l
        BY <1>2
    <2>2. text[b + i] = P[i] /\ P[i] = K[i]
        BY <1>2, <1>3, <2>1
    <2>3. K[i] \notin {",", Backslash}
        BY <1>0
    <2> QED
        BY <2>2, <2>3
<1>5. Located(text, o, V)
    <2>1. o + Len(V) <= Len(text)
        BY <1>2, <1>3
    <2>2. ASSUME NEW j \in 1 .. Len(V) PROVE text[o + j] = V[j]
        <3>1. k + j \in 1 .. l /\ b + (k + j) = o + j
            BY <1>2
        <3> QED
            BY <1>2, <1>3, <3>1
    <2> QED
        BY <2>1, <2>2 DEF Located
<1>6. Even(text, o + 1)
    <2>1. o + 1 \in Nat \ {0} /\ (o + 1) - 1 = b + k /\ k \in 1 .. k
        BY <1>2
    <2>2. text[(o + 1) - 1] # Backslash
        BY <1>4, <2>1
    <2> HIDE DEF o
    <2>3. BackslashesBefore(text, o + 1) = 0
        BY <2>1, <2>2, BackslashNone
    <2> QED
        BY <2>3 DEF Even
<1>7. o \in Nat /\ o + Len(V) = b + l
    BY <1>2
<1>8. /\ Even(text, o + Len(V) + 1)
      /\ \A c \in o + 1 .. o + Len(V) : text[c] = "," => ~Even(text, c)
    <2> HIDE DEF o
    <2> QED
        BY <1>1, <1>5, <1>6, <1>7, EscapedCommas DEF V
<1>9. Even(text, b + l + 1)
    BY <1>7, <1>8
<1>10. ASSUME NEW c \in b + 1 .. b + l, text[c] = "," PROVE ~Even(text, c)
    <2>1. c - b \in 1 .. l /\ b + (c - b) = c /\ c \in Nat
        BY <1>2
    <2>2. c - b \notin 1 .. k
        BY <1>4, <1>10, <2>1
    <2>3. c \in o + 1 .. o + Len(V)
        BY <1>2, <1>7, <2>1, <2>2
    <2> QED
        BY <1>8, <1>10, <2>3
<1>11. b < b + l - BackslashesBefore(text, b + l + 1)
    <2> DEFINE c == b + l + 1
               m == BackslashesBefore(text, c)
    <2>1. c \in Nat \ {0} /\ b + 1 \in 1 .. c - 1 /\ c - 1 = b + l
        BY <1>2
    <2>2. text[b + 1] # Backslash
        <3>1. 1 \in 1 .. k
            BY <1>2
        <3> QED
            BY <1>4, <3>1
    <2>3. m \in 0 .. c - 1 /\ b + 1 <= c - 1 - m
        <3> HIDE DEF c
        <3> QED
            BY <2>1, <2>2, BackslashRun
    <2> HIDE DEF m
    <2>4. b < b + l - m
        <3>1. b \in Nat /\ l \in Nat /\ m \in Int /\ b + 1 <= (b + l) - m
            BY <1>2, <2>1, <2>3
        <3> QED
            BY <3>1
    <2> QED
        BY <2>4 DEF m
<1>12. CommasEscaped(text, b, l)
    BY <1>10 DEF CommasEscaped
<1>13. l \in Nat /\ l >= 1
    BY <1>2
<1> QED
    BY <1>9, <1>11, <1>12, <1>13 DEF l, P

(* The texts of the pairs stand in the line one after the other, piece i    *)
(* ends at at[i], and a comma is before each but the first.                 *)
PieceStart(at, i) == IF i = 1 THEN 0 ELSE at[i - 1] + 1

Written(pairs, at, text) ==
    /\ at[0] = 0
    /\ at[Len(pairs)] = Len(text)
    /\ \A i \in 1 .. Len(pairs) :
           /\ at[i] = PieceStart(at, i) + Len(PairText(pairs[i]))
           /\ Located(text, PieceStart(at, i), PairText(pairs[i]))
           /\ i > 1 => text[at[i - 1] + 1] = ","

LEMMA LineAt ==
    ASSUME NEW pairs \in Seq(Pair)
    PROVE  /\ LineText(pairs) \in Seq(Token)
           /\ \E at \in [0 .. Len(pairs) -> Nat] : Written(pairs, at, LineText(pairs))
<1> DEFINE n == Len(pairs)
           Lead(i) == IF i = 1 THEN <<>> ELSE <<",">>
           P(i) == PairText(pairs[i])
           parts == [i \in 1 .. n |-> Lead(i) \o P(i)]
           text == LineText(pairs)
<1>1. n \in Nat /\ \A i \in 1 .. n : pairs[i] \in Pair
    OBVIOUS
<1>2. text = FlattenSeq(parts)
    <2>1. DOMAIN pairs = 1 .. n
        OBVIOUS
    <2> QED
        BY <2>1 DEF LineText
<1>3. ASSUME NEW i \in 1 .. n
      PROVE  /\ P(i) \in Seq(Token) /\ Lead(i) \in Seq(Token)
             /\ Len(P(i)) \in Nat /\ Len(Lead(i)) = (IF i = 1 THEN 0 ELSE 1)
             /\ i # 1 => Lead(i)[1] = ","
    <2>1. P(i) \in Seq(Token)
        BY <1>1, PairTextIs
    <2>2. "," \in Token
        BY DEF Token
    <2> DEFINE comma == <<",">>
    <2>3. comma \in Seq(Token) /\ Len(comma) = 1 /\ comma[1] = ","
        <3>1. \A x \in Token : <<x>> \in Seq(Token) /\ Len(<<x>>) = 1 /\ <<x>>[1] = x
            OBVIOUS
        <3> QED
            BY <2>2, <3>1, Zenon
    <2>a. <<>> \in Seq(Token) /\ Len(<<>>) = 0
        OBVIOUS
    <2>b. Lead(i) = IF i = 1 THEN <<>> ELSE comma
        OBVIOUS
    <2> HIDE DEF comma, Lead
    <2>4. Len(P(i)) \in Nat
        BY <2>1, LenProperties
    <2> HIDE DEF P
    <2>5. CASE i = 1
        BY <2>1, <2>a, <2>b, <2>4, <2>5
    <2>6. CASE i # 1
        BY <2>1, <2>3, <2>b, <2>4, <2>6
    <2> QED
        BY <2>5, <2>6
<1>4. ASSUME NEW i \in 1 .. n
      PROVE  /\ Lead(i) \o P(i) \in Seq(Token)
             /\ Len(Lead(i) \o P(i)) = Len(Lead(i)) + Len(P(i))
             /\ \A j \in 1 .. Len(P(i)) : (Lead(i) \o P(i))[Len(Lead(i)) + j] = P(i)[j]
             /\ i # 1 => (Lead(i) \o P(i))[1] = ","
    <2> DEFINE u == Lead(i)
               v == P(i)
    <2>1. u \in Seq(Token) /\ v \in Seq(Token) /\ (i # 1 => Len(u) = 1)
        BY <1>3
    <2>c. i # 1 => u[1] = ","
        BY <1>3
    <2> HIDE DEF u, v
    <2>2. Len(u) \in Nat /\ Len(v) \in Nat
        BY <2>1
    <2>3. /\ u \o v \in Seq(Token) /\ Len(u \o v) = Len(u) + Len(v)
          /\ \A j \in 1 .. Len(u) + Len(v) :
                 (u \o v)[j] = IF j <= Len(u) THEN u[j] ELSE v[j - Len(u)]
        BY <2>1, ConcatProperties
    <2>4. ASSUME NEW j \in 1 .. Len(v) PROVE (u \o v)[Len(u) + j] = v[j]
        <3>1. /\ Len(u) + j \in 1 .. Len(u) + Len(v) /\ ~(Len(u) + j <= Len(u))
              /\ (Len(u) + j) - Len(u) = j
            BY <2>2
        <3> QED
            BY <2>3, <3>1
    <2>5. ASSUME i # 1 PROVE (u \o v)[1] = ","
        <3>0. Len(u) = 1
            BY <2>1, <2>5
        <3>1. 1 \in 1 .. Len(u) + Len(v) /\ 1 <= Len(u)
            BY <2>2, <3>0
        <3> QED
            BY <2>c, <2>3, <2>5, <3>1
    <2> QED
        BY <2>3, <2>4, <2>5 DEF u, v
<1>5. parts \in Seq(Seq(Token)) /\ Len(parts) = n
    <2>1. \A i \in 1 .. n : Lead(i) \o P(i) \in Seq(Token)
        BY <1>4
    <2> HIDE DEF Lead, P, n
    <2> QED
        BY <1>1, <2>1, IsASeq
<1> HIDE DEF parts
<1>6. text \in Seq(Token) /\ \E at \in [0 .. n -> Nat] : Placed(parts, at, text)
    <2> HIDE DEF n, text
    <2> QED
        BY <1>2, <1>5, FlattenAt
<1>7. PICK at \in [0 .. n -> Nat] : Placed(parts, at, text)
    BY <1>6
<1>8. ASSUME NEW i \in 1 .. n
      PROVE  /\ at[i] = PieceStart(at, i) + Len(P(i))
             /\ Located(text, PieceStart(at, i), P(i))
             /\ i > 1 => text[at[i - 1] + 1] = ","
    <2> DEFINE a == at[i - 1]
               u == Lead(i) \o P(i)
               l == Len(Lead(i))
               m == Len(P(i))
    <2>1. parts[i] = u
        BY DEF parts
    <2>2. a \in Nat /\ at[i] \in Nat
        <3>1. i - 1 \in 0 .. n /\ i \in 0 .. n
            BY <1>1
        <3> HIDE DEF n
        <3> QED
            BY <3>1
    <2>3. /\ at[i] = a + Len(u) /\ at[i] <= Len(text)
          /\ \A j \in 1 .. Len(u) : text[a + j] = u[j]
        <3>1. i \in 1 .. Len(parts) /\ i \in 0 .. Len(parts)
            BY <1>5
        <3>2. /\ at[i] = at[i - 1] + Len(parts[i]) /\ at[i] <= Len(text)
              /\ \A j \in 1 .. Len(parts[i]) : text[at[i - 1] + j] = parts[i][j]
            BY <1>7, <3>1 DEF Placed
        <3> HIDE DEF u
        <3> QED
            BY <2>1, <3>2
    <2>4. Len(u) = l + m /\ m \in Nat /\ l \in {0, 1} /\ l = (IF i = 1 THEN 0 ELSE 1)
        BY <1>3, <1>4
    <2>5. PieceStart(at, i) = a + l
        <3>1. i = 1 => a = 0
            BY <1>7 DEF Placed
        <3> HIDE DEF a, l
        <3> QED
            BY <2>2, <2>4, <3>1 DEF PieceStart, a
    <2>6. (\A j \in 1 .. m : u[l + j] = P(i)[j]) /\ (i # 1 => u[1] = ",")
        BY <1>4
    <2>7. Len(text) \in Nat
        BY <1>6
    <2> HIDE DEF a, u, l, m, text
    <2>8. at[i] = PieceStart(at, i) + m
        BY <2>2, <2>3, <2>4, <2>5
    <2>9. Located(text, PieceStart(at, i), P(i))
        <3>1. PieceStart(at, i) + m <= Len(text)
            BY <2>3, <2>8
        <3>2. ASSUME NEW j \in 1 .. m PROVE text[PieceStart(at, i) + j] = P(i)[j]
            <4>1. l + j \in 1 .. Len(u) /\ PieceStart(at, i) + j = a + (l + j)
                BY <2>2, <2>4, <2>5
            <4>2. text[a + (l + j)] = u[l + j]
                BY <2>3, <4>1
            <4> QED
                BY <2>6, <4>1, <4>2
        <3> QED
            BY <3>1, <3>2 DEF Located, m
    <2>10. i > 1 => text[at[i - 1] + 1] = ","
        <3>1. i > 1 => 1 \in 1 .. Len(u)
            BY <2>4
        <3>2. i > 1 => i # 1
            OBVIOUS
        <3> QED
            BY <2>3, <2>6, <3>1, <3>2 DEF a
    <2> QED
        BY <2>8, <2>9, <2>10 DEF m
<1>9. at[0] = 0 /\ at[n] = Len(text)
    BY <1>5, <1>7 DEF Placed
<1>10. Written(pairs, at, text)
    <2> HIDE DEF text
    <2> QED
        BY <1>8, <1>9 DEF Written
<1> QED
    BY <1>6, <1>10

(* The separators found are the commas between the pairs.                   *)
LEMMA PieceScanAt ==
    ASSUME NEW pairs \in Seq(Pair), NEW at \in [0 .. Len(pairs) -> Nat],
           NEW text, Len(text) \in Nat, Written(pairs, at, text),
           NEW i \in 1 .. Len(pairs)
    PROVE  LET b == PieceStart(at, i)
               l == Len(PairText(pairs[i])) IN
           /\ b \in Nat /\ l \in Nat /\ l >= 1 /\ at[i] = b + l /\ at[i] <= Len(text)
           /\ Even(text, at[i] + 1)
           /\ CommasEscaped(text, b, l)
           /\ b < at[i] - BackslashesBefore(text, at[i] + 1)
<1> DEFINE b == PieceStart(at, i)
           P == PairText(pairs[i])
           l == Len(P)
<1>1. b \in Nat
    <2>1. i - 1 \in 0 .. Len(pairs)
        OBVIOUS
    <2> QED
        BY <2>1 DEF PieceStart
<1>2. at[i] = b + l /\ Located(text, b, P) /\ pairs[i] \in Pair
    <2>1. pairs[i] \in Pair
        OBVIOUS
    <2>2. at[i] = b + l /\ Located(text, b, P)
        BY Zenon DEF Written
    <2> QED
        BY <2>1, <2>2
<1>3. b + l <= Len(text)
    BY <1>2 DEF Located
<1> HIDE DEF b
<1>4. /\ l \in Nat /\ l >= 1 /\ Even(text, b + l + 1) /\ CommasEscaped(text, b, l)
      /\ b < b + l - BackslashesBefore(text, b + l + 1)
    BY <1>1, <1>2, PieceScan
<1> HIDE DEF l
<1>5. b + l = at[i] /\ at[i] <= Len(text)
    BY <1>2, <1>3
<1>6. Even(text, at[i] + 1) /\ b < at[i] - BackslashesBefore(text, at[i] + 1)
    BY <1>4, <1>5
<1> QED
    BY <1>1, <1>4, <1>5, <1>6 DEF b, l

(* The positions of the commas before the first i pieces.                   *)
Cut(at, i) == [j \in 1 .. i - 1 |-> at[j] + 1]

LEMMA CutGrows ==
    ASSUME NEW i \in Nat, i >= 2, NEW at, \A j \in 1 .. i - 1 : at[j] \in Nat
    PROVE  /\ Cut(at, i) = Append(Cut(at, i - 1), at[i - 1] + 1)
           /\ Cut(at, i - 1) \in Seq(Nat)
           /\ i > 2 => Last(Cut(at, i - 1)) = at[i - 2] + 1
           /\ i = 2 => Cut(at, i - 1) = <<>>
<1> DEFINE m == i - 2
           s == [j \in 1 .. m |-> at[j] + 1]
<1>1. m \in Nat /\ i - 1 = m + 1 /\ (i - 1) - 1 = m
    OBVIOUS
<1>2. Cut(at, i) = [j \in 1 .. m + 1 |-> at[j] + 1] /\ Cut(at, i - 1) = s
    BY <1>1 DEF Cut
<1>3. \A j \in 1 .. m + 1 : at[j] + 1 \in Nat
    BY <1>1
<1> HIDE DEF m
<1>4. s \in Seq(Nat) /\ Len(s) = m
    <2>1. \A j \in 1 .. m : at[j] + 1 \in Nat
        BY <1>1, <1>3
    <2> QED
        BY <1>1, <2>1, IsASeq
<1>5. [j \in 1 .. m + 1 |-> at[j] + 1] \in Seq(Nat) /\ Len([j \in 1 .. m + 1 |-> at[j] + 1]) = m + 1
    BY <1>1, <1>3, IsASeq
<1> DEFINE t == [j \in 1 .. m + 1 |-> at[j] + 1]
           u == Append(s, at[m + 1] + 1)
<1>6. at[m + 1] + 1 \in Nat
    BY <1>1, <1>3
<1>7. t = u
    <2>1. /\ u \in Seq(Nat) /\ Len(u) = m + 1
          /\ \A j \in 1 .. m : u[j] = s[j]
          /\ u[m + 1] = at[m + 1] + 1
        <3> HIDE DEF s
        <3> QED
            BY <1>4, <1>6, AppendProperties
    <2>2. ASSUME NEW j \in 1 .. m + 1 PROVE t[j] = u[j]
        <3>1. CASE j = m + 1
            BY <2>1, <3>1
        <3>2. CASE j # m + 1
            <4>1. j \in 1 .. m
                BY <1>1, <3>2
            <4>2. u[j] = s[j]
                BY <2>1, <4>1
            <4> HIDE DEF u
            <4> QED
                BY <4>1, <4>2
        <3> QED
            BY <3>1, <3>2
    <2>3. t \in Seq(Nat) /\ Len(t) = m + 1
        BY <1>5
    <2> HIDE DEF t, u
    <2> QED
        BY <2>1, <2>2, <2>3, SeqEqual
<1>8. i > 2 => Last(s) = at[i - 2] + 1
    <2>1. i > 2 => m \in 1 .. m
        BY <1>1
    <2> QED
        BY <1>4, <2>1 DEF Last, m
<1>9. i = 2 => s = <<>>
    <2>1. i = 2 => m = 0
        BY DEF m
    <2> HIDE DEF s
    <2> QED
        BY <1>4, <2>1, EmptySeq
<1> QED
    BY <1>1, <1>2, <1>4, <1>7, <1>8, <1>9

LEMMA SeparatorsAre ==
    ASSUME NEW pairs \in Seq(Pair), pairs # <<>>,
           NEW at \in [0 .. Len(pairs) -> Nat],
           NEW text, Len(text) \in Nat, Written(pairs, at, text)
    PROVE  Separators(text) = Cut(at, Len(pairs))
<1> DEFINE n == Len(pairs)
<1>0. n \in Nat /\ n >= 1
    OBVIOUS
<1>1. PICK seps \in [0 .. Len(text) -> Seq(Nat)] :
          seps[0] = <<>> /\ ScansTo(text, seps) /\ Separators(text) = seps[Len(text)]
    BY SeparatorsSteps
<1>2. ASSUME NEW i \in 1 .. n PROVE seps[at[i]] = seps[PieceStart(at, i)]
    <2> DEFINE b == PieceStart(at, i)
               l == Len(PairText(pairs[i]))
    <2>1. b \in Nat /\ l \in Nat /\ at[i] = b + l /\ at[i] <= Len(text) /\ CommasEscaped(text, b, l)
        BY PieceScanAt
    <2> HIDE DEF b, l
    <2>2. seps[b + l] = seps[b]
        BY <1>1, <2>1, NoSeparators
    <2> QED
        BY <2>1, <2>2 DEF b
<1> DEFINE G == {i \in 0 .. n : i >= 1 => seps[at[i]] = Cut(at, i)}
<1>3. 0 \in G
    BY <1>0
<1>4. ASSUME NEW i \in 1 .. n, i - 1 \in G PROVE i \in G
    <2>1. CASE i = 1
        <3>1. seps[at[i]] = <<>>
            BY <1>1, <1>2, <2>1 DEF PieceStart
        <3>2. Cut(at, i) = <<>>
            BY <2>1 DEF Cut
        <3> QED
            BY <3>1, <3>2
    <2>2. CASE i # 1
        <3>1. i - 1 \in 1 .. n /\ i \in Nat /\ i >= 2 /\ i - 1 >= 1
            BY <1>0, <2>2
        <3>2. seps[at[i - 1]] = Cut(at, i - 1)
            BY <1>4, <3>1
        <3> DEFINE a == at[i - 1]
                   c == a + 1
                   b == PieceStart(at, i - 1)
        <3>3. /\ b \in Nat /\ Even(text, a + 1)
              /\ b < a - BackslashesBefore(text, a + 1)
            BY <3>1, PieceScanAt
        <3>4. text[c] = ","
            <4>1. i > 1
                BY <3>1
            <4> QED
                BY <4>1, Zenon DEF Written
        <3>5. \A j \in 1 .. i - 1 : at[j] \in Nat
            <4>1. \A j \in 1 .. i - 1 : j \in 0 .. n
                BY <1>0, <3>1
            <4> HIDE DEF n
            <4> QED
                BY <4>1 DEF n
        <3>6. /\ Cut(at, i) = Append(Cut(at, i - 1), c) /\ Cut(at, i - 1) \in Seq(Nat)
              /\ i > 2 => Last(Cut(at, i - 1)) = at[i - 2] + 1
              /\ i = 2 => Cut(at, i - 1) = <<>>
            BY <3>1, <3>5, CutGrows
        <3>7. Cut(at, i - 1) # <<>> => Last(Cut(at, i - 1)) = b
            <4>1. i # 2 => i > 2 /\ i - 1 # 1 /\ (i - 1) - 1 = i - 2
                BY <3>1
            <4>2. i # 2 => b = at[i - 2] + 1
                BY <4>1 DEF PieceStart
            <4> HIDE DEF b
            <4> QED
                BY <3>6, <4>1, <4>2
        <3>8. Separates(text, Cut(at, i - 1), c)
            <4>1. a \in Nat /\ c - 1 = a
                BY <3>1, <3>5
            <4>2. BackslashesBefore(text, c) % 2 = 0
                BY <3>3 DEF Even
            <4>3. Cut(at, i - 1) # <<>> => Last(Cut(at, i - 1)) < c - 1 - BackslashesBefore(text, c)
                <5> HIDE DEF b, a
                <5>1. b < (c - 1) - BackslashesBefore(text, c)
                    BY <3>3, <4>1
                <5> QED
                    BY <3>7, <5>1
            <4> HIDE DEF a, b, c
            <4> QED
                BY <3>4, <4>2, <4>3 DEF Separates
        <3>9. c \in 1 .. Len(text) /\ c - 1 = a
            <4>1. PieceStart(at, i) = c /\ PieceStart(at, i) \in Nat /\ at[i] <= Len(text)
                  /\ \E l \in Nat : at[i] = PieceStart(at, i) + l
                BY <2>2, PieceScanAt DEF PieceStart
            <4>2. a \in Nat
                BY <3>1, <3>5
            <4> HIDE DEF a
            <4>3. c <= Len(text)
                BY <4>1
            <4> QED
                BY <4>2, <4>3
        <3>10. seps[c] = NoteSeparator(text, seps[c - 1], c)
            <4> HIDE DEF c
            <4> QED
                BY <1>1, <3>9 DEF ScansTo
        <3>11. seps[c] = Append(Cut(at, i - 1), c)
            <4> HIDE DEF c
            <4>1. seps[c - 1] = Cut(at, i - 1)
                BY <3>2, <3>9
            <4> QED
                BY <3>8, <3>10, <4>1 DEF NoteSeparator
        <3>12. seps[at[i]] = seps[c]
            BY <1>2, <2>2 DEF PieceStart
        <3>13. Cut(at, i) = Append(Cut(at, i - 1), c)
            BY <3>6
        <3>14. seps[at[i]] = Cut(at, i)
            <4> HIDE DEF c
            <4> QED
                BY <3>11, <3>12, <3>13
        <3> QED
            BY <3>14
    <2> QED
        BY <2>1, <2>2
<1>5. n \in G
    <2>1. n \in 0 .. n
        BY <1>0
    <2> HIDE DEF G, n
    <2> QED
        BY <1>0, <1>3, <1>4, <2>1, UpTo
<1>6. at[n] = Len(text)
    BY DEF Written
<1> QED
    BY <1>0, <1>1, <1>5, <1>6

-----------------------------------------------------------------------------
(* SplitOptions.                                                            *)

Cuts(text) == <<0>> \o Separators(text) \o <<Len(text) + 1>>

Piece(text, i) == SubSeq(text, Cuts(text)[i] + 1, Cuts(text)[i + 1] - 1)

(* The steps of SplitOptions, on a text whose pieces parse.                 *)
LEMMA SplitSteps ==
    ASSUME NEW text, NEW n \in Nat, Len(Cuts(text)) = n + 1,
           \A i \in 1 .. n : Piece(text, i) # <<>> => ParseOption(Piece(text, i)) \in Pair
    PROVE  \E result \in [0 .. n -> Seq(Pair)] :
               /\ result[0] = <<>>
               /\ \A i \in 1 .. n :
                      result[i] = IF Piece(text, i) = <<>> THEN result[i - 1]
                                  ELSE Append(result[i - 1], ParseOption(Piece(text, i)))
               /\ SplitOptions(text) = result[n]
<1> DEFINE A == Seq(Pair)
           Add(acc, i) == IF Piece(text, i) = <<>> THEN acc
                          ELSE Append(acc, ParseOption(Piece(text, i)))
           Step == [k \in 1 .. n |-> [acc \in A |-> Add(acc, k)]]
           Eqn(f) == f = [i \in 0 .. n |-> IF i = 0 THEN <<>> ELSE Add(f[i - 1], i)]
           result == CHOOSE f : Eqn(f)
<1>1. <<>> \in A /\ (n + 1) - 1 = n
    OBVIOUS
<1>2. \A k \in 1 .. n, acc \in A : Add(acc, k) \in A
    <2>1. \A acc \in A, x \in Pair : Append(acc, x) \in A
        OBVIOUS
    <2> HIDE DEF A
    <2> QED
        BY <2>1
<1>3. Step \in [1 .. n -> [A -> A]]
    <2> HIDE DEF Add, A
    <2> QED
        BY <1>2
<1>4. PICK f \in [0 .. n -> A] : IsRun(f, n, <<>>, Step)
    <2> HIDE DEF A, Step
    <2> QED
        BY <1>1, <1>3, LoopRuns
<1>5. ASSUME NEW k \in 1 .. n PROVE f[k] = Add(f[k - 1], k)
    <2>1. k - 1 \in 0 .. n
        OBVIOUS
    <2> HIDE DEF A, Add
    <2>2. f[k - 1] \in A
        BY <2>1
    <2>3. Step[k][f[k - 1]] = Add(f[k - 1], k)
        BY <2>2
    <2> QED
        BY <1>4, <2>3 DEF IsRun
<1>6. Eqn(f)
    <2> HIDE DEF A, Add
    <2> QED
        BY <1>4, <1>5 DEF IsRun
<1>7. Eqn(result)
    BY <1>6
<1>8. SplitOptions(text) = result[n]
    BY <1>1 DEF SplitOptions, Cuts, Piece
<1> HIDE DEF result
<1>9. result[0] = <<>> /\ \A k \in 1 .. n : result[k] = Add(result[k - 1], k)
    <2> HIDE DEF A, Add
    <2> QED
        BY <1>7
<1>10. \A k \in 0 .. n : result[k] \in A
    <2> DEFINE G == {k \in 0 .. n : result[k] \in A}
    <2> HIDE DEF A, Add
    <2>1. 0 \in G
        BY <1>1, <1>9
    <2>2. ASSUME NEW k \in 1 .. n, k - 1 \in G PROVE k \in G
        BY <1>2, <1>9, <2>2
    <2>3. \A k \in 0 .. n : k \in G
        <3> HIDE DEF G
        <3> QED
            BY <2>1, <2>2, UpTo
    <2> QED
        BY <2>3
<1>11. result \in [0 .. n -> A]
    BY <1>7, <1>10
<1> QED
    BY <1>8, <1>9, <1>11

(* A text without separators is cut at its ends.                            *)
LEMMA NoCuts == 0 + 1 = 1 /\ <<0>> \o <<>> \o <<1>> = <<0, 1>>
<1>1. <<0>> \o <<>> = <<0>>
    BY <<0>> \in Seq(Nat), ConcatEmptySeq
<1>2. <<0>> \o <<1>> = <<0, 1>>
    <2>1. Len(<<0>>) = 1 /\ Len(<<1>>) = 1 /\ <<0>>[1] = 0 /\ <<1>>[1] = 1
        OBVIOUS
    <2>2. <<0>> \in Seq(Nat) /\ <<1>> \in Seq(Nat)
        OBVIOUS
    <2>3. /\ <<0>> \o <<1>> \in Seq(Nat) /\ Len(<<0>> \o <<1>>) = 2
          /\ \A i \in 1 .. 2 : (<<0>> \o <<1>>)[i] = IF i <= 1 THEN 0 ELSE <<1>>[i - 1]
        BY <2>1, <2>2, ConcatProperties
    <2>4. <<0, 1>> \in Seq(Nat) /\ Len(<<0, 1>>) = 2 /\ <<0, 1>>[1] = 0 /\ <<0, 1>>[2] = 1
        OBVIOUS
    <2>5. (<<0>> \o <<1>>)[1] = 0 /\ (<<0>> \o <<1>>)[2] = 1
        BY <2>1, <2>3
    <2> DEFINE u == <<0>> \o <<1>>
               v == <<0, 1>>
    <2>6. /\ u \in Seq(Nat) /\ v \in Seq(Nat) /\ Len(u) = Len(v)
          /\ \A i \in 1 .. Len(u) : u[i] = v[i]
        BY <2>3, <2>4, <2>5
    <2> HIDE DEF u, v
    <2>7. u = v
        BY <2>6, SeqEqual
    <2> QED
        BY <2>7 DEF u, v
<1> QED
    BY <1>1, <1>2

(* The pieces are the texts of the pairs.                                   *)
LEMMA PieceIs ==
    ASSUME NEW pairs \in Seq(Pair), pairs # <<>>,
           NEW at \in [0 .. Len(pairs) -> Nat],
           NEW text \in Seq(Token), Written(pairs, at, text)
    PROVE  /\ Len(Cuts(text)) = Len(pairs) + 1
           /\ \A i \in 1 .. Len(pairs) : Piece(text, i) = PairText(pairs[i])
<1> DEFINE n == Len(pairs)
           s == Cut(at, n)
           cuts == Cuts(text)
<1>0. n \in Nat /\ n >= 1 /\ Len(text) \in Nat
    OBVIOUS
<1>1. s \in Seq(Nat) /\ Len(s) = n - 1 /\ \A j \in 1 .. n - 1 : s[j] = at[j] + 1
    <2>1. \A j \in 1 .. n - 1 : at[j] + 1 \in Nat
        OBVIOUS
    <2> QED
        BY <1>0, <2>1, IsASeq DEF Cut
<1>2. cuts = <<0>> \o s \o <<Len(text) + 1>>
    BY <1>0, SeparatorsAre DEF Cuts
<1>3. at[n] = Len(text)
    BY DEF Written
<1>4. Len(cuts) = n + 1 /\ \A i \in 1 .. n + 1 : cuts[i] = PieceStart(at, i)
    <2> DEFINE z == <<0>> \o s
               e == <<Len(text) + 1>>
    <2>1. <<0>> \in Seq(Nat) /\ Len(<<0>>) = 1 /\ <<0>>[1] = 0
        OBVIOUS
    <2>2. e \in Seq(Nat) /\ Len(e) = 1 /\ e[1] = at[n] + 1
        BY <1>0, <1>3
    <2> HIDE DEF s, n, cuts
    <2>3. /\ z \in Seq(Nat) /\ Len(z) = n
          /\ z[1] = 0 /\ \A j \in 1 .. n - 1 : z[j + 1] = at[j] + 1
        <3>1. /\ z \in Seq(Nat) /\ Len(z) = 1 + Len(s)
              /\ \A i \in 1 .. 1 + Len(s) : z[i] = IF i <= 1 THEN <<0>>[i] ELSE s[i - 1]
            BY <1>1, <2>1, ConcatProperties
        <3>2. 1 + Len(s) = n
            BY <1>0, <1>1
        <3>3. \A j \in 1 .. n - 1 : j + 1 \in 1 .. n /\ ~(j + 1 <= 1) /\ (j + 1) - 1 = j
            BY <1>0
        <3> HIDE DEF z
        <3>4. z \in Seq(Nat) /\ Len(z) = n
            BY <3>1, <3>2
        <3>5. z[1] = 0
            <4>1. 1 \in 1 .. 1 + Len(s) /\ 1 <= 1
                BY <1>0, <3>2
            <4> QED
                BY <2>1, <3>1, <4>1
        <3>6. ASSUME NEW j \in 1 .. n - 1 PROVE z[j + 1] = at[j] + 1
            <4>1. z[j + 1] = s[j]
                BY <3>1, <3>2, <3>3
            <4> QED
                BY <1>1, <4>1
        <3> QED
            BY <3>4, <3>5, <3>6
    <2> HIDE DEF z, e
    <2>4. /\ Len(z \o e) = n + 1
          /\ \A i \in 1 .. n + 1 : (z \o e)[i] = IF i <= n THEN z[i] ELSE e[i - n]
        <3>1. /\ Len(z \o e) = Len(z) + Len(e)
              /\ \A i \in 1 .. Len(z) + Len(e) :
                     (z \o e)[i] = IF i <= Len(z) THEN z[i] ELSE e[i - Len(z)]
            BY <2>2, <2>3, ConcatProperties
        <3>2. Len(z) = n /\ Len(e) = 1
            BY <2>2, <2>3
        <3> QED
            BY <3>1, <3>2
    <2>5. cuts = z \o e
        BY <1>2 DEF z, e
    <2>6. ASSUME NEW i \in 1 .. n + 1 PROVE cuts[i] = PieceStart(at, i)
        <3>1. CASE i = 1
            BY <1>0, <2>3, <2>4, <2>5, <3>1 DEF PieceStart
        <3>2. CASE i # 1 /\ i <= n
            <4>1. i - 1 \in 1 .. n - 1 /\ (i - 1) + 1 = i
                BY <1>0, <3>2
            <4>2. z[i] = at[i - 1] + 1
                BY <2>3, <4>1
            <4> QED
                BY <2>4, <2>5, <3>2, <4>2 DEF PieceStart
        <3>3. CASE i # 1 /\ ~(i <= n)
            <4>1. i - n = 1 /\ i - 1 = n
                BY <1>0, <3>3
            <4>2. cuts[i] = e[i - n]
                BY <2>4, <2>5, <3>3
            <4>3. cuts[i] = at[i - 1] + 1
                BY <2>2, <4>1, <4>2
            <4> QED
                BY <3>3, <4>3 DEF PieceStart
        <3> QED
            BY <3>1, <3>2, <3>3
    <2> QED
        BY <2>4, <2>5, <2>6
<1>5. ASSUME NEW i \in 1 .. n PROVE Piece(text, i) = PairText(pairs[i])
    <2> DEFINE b == PieceStart(at, i)
               P == PairText(pairs[i])
               l == Len(P)
    <2>1. b \in Nat /\ l \in Nat /\ l >= 1 /\ at[i] = b + l /\ at[i] <= Len(text)
        BY <1>0, PieceScanAt
    <2>2. P \in Seq(Token) /\ \A j \in 1 .. l : text[b + j] = P[j]
        <3>1. pairs[i] \in Pair
            OBVIOUS
        <3>2. Located(text, b, P)
            BY Zenon DEF Written
        <3> QED
            BY <3>1, <3>2, PairTextIs DEF Located
    <2>3. cuts[i] = b /\ cuts[i + 1] = at[i] + 1
        <3>1. i \in 1 .. n + 1 /\ i + 1 \in 1 .. n + 1 /\ i + 1 # 1 /\ (i + 1) - 1 = i
            BY <1>0
        <3> QED
            BY <1>4, <3>1 DEF PieceStart
    <2> HIDE DEF cuts, b, l
    <2>4. (at[i] + 1) - 1 = b + l
        BY <2>1
    <2>5. Piece(text, i) = SubSeq(text, b + 1, b + l)
        BY <2>3, <2>4 DEF Piece, cuts
    <2>6. \A j \in b + 1 .. b + l : text[j] \in Token
        BY <1>0, <2>1, ElementOfSeq
    <2> DEFINE t == SubSeq(text, b + 1, b + l)
    <2>7. /\ t \in Seq(Token)
          /\ Len(t) = IF b + 1 <= b + l THEN (b + l) - (b + 1) + 1 ELSE 0
          /\ \A j \in 1 .. (b + l) - (b + 1) + 1 : t[j] = text[(b + 1) + j - 1]
        <3> DEFINE first == b + 1
                   last == b + l
        <3>1. first \in Int /\ last \in Int /\ \A j \in first .. last : text[j] \in Token
            BY <2>1, <2>6
        <3> HIDE DEF first, last
        <3>2. /\ SubSeq(text, first, last) \in Seq(Token)
              /\ Len(SubSeq(text, first, last)) = IF first <= last THEN last - first + 1 ELSE 0
              /\ \A j \in 1 .. last - first + 1 :
                     SubSeq(text, first, last)[j] = text[first + j - 1]
            BY <3>1, SubSeqProperties
        <3> QED
            BY <3>2 DEF first, last
    <2> HIDE DEF t
    <2>8. b + 1 <= b + l /\ (b + l) - (b + 1) + 1 = l /\ \A j \in 1 .. l : (b + 1) + j - 1 = b + j
        BY <2>1
    <2>9. Len(t) = l /\ \A j \in 1 .. l : t[j] = P[j]
        BY <2>2, <2>7, <2>8
    <2> HIDE DEF P
    <2>10. t = P
        BY <2>2, <2>7, <2>9, SeqEqual DEF l
    <2> QED
        BY <2>5, <2>10 DEF t, P
<1> QED
    BY <1>4, <1>5

(* An option line splits into the pairs it was written from: a value may    *)
(* hold commas, backslashes, equals signs and at signs, a key may stand     *)
(* alone, and the escapes the documentation gives are undone, never more    *)
(* and never less (lib/options.go SplitOptions, parseOption).               *)
THEOREM SplitInverts ==
    \A pairs \in Seq(Pair) : SplitOptions(LineText(pairs)) = pairs
<1> SUFFICES ASSUME NEW pairs \in Seq(Pair) PROVE SplitOptions(LineText(pairs)) = pairs
    OBVIOUS
<1> DEFINE n == Len(pairs)
           text == LineText(pairs)
<1>0. n \in Nat /\ \A i \in 1 .. n : pairs[i] \in Pair
    OBVIOUS
<1>1. text \in Seq(Token) /\ \E at \in [0 .. n -> Nat] : Written(pairs, at, text)
    BY LineAt
<1>2. PICK at \in [0 .. n -> Nat] : Written(pairs, at, text)
    BY <1>1
<1>3. CASE pairs = <<>>
    <2>1. Len(text) = 0
        <3>1. Len(pairs) = 0
            BY <1>3
        <3> QED
            BY <1>2, <3>1 DEF Written
    <2> HIDE DEF text
    <2>2. Separators(text) = <<>>
        <3>1. Len(text) \in Nat
            BY <2>1
        <3> QED
            BY <2>1, <3>1, SeparatorsSteps
    <2>3. Cuts(text) = <<0, 1>>
        <3>1. 0 + 1 = 1 /\ <<0>> \o <<>> \o <<1>> = <<0, 1>>
            BY NoCuts
        <3> QED
            BY <2>1, <2>2, <3>1 DEF Cuts
    <2>4. Len(Cuts(text)) = 1 + 1 /\ Piece(text, 1) = <<>>
        <3>1. Cuts(text)[1] = 0 /\ Cuts(text)[1 + 1] = 1 /\ Len(Cuts(text)) = 2
            BY <2>3
        <3>2. Piece(text, 1) = SubSeq(text, 0 + 1, 1 - 1)
            BY <3>1 DEF Piece
        <3>3. 0 + 1 \in Int /\ 1 - 1 \in Int /\ 1 - 1 < 0 + 1
            OBVIOUS
        <3> QED
            BY <3>1, <3>2, <3>3, SubSeqEmpty
    <2>5. \A i \in 1 .. 1 : Piece(text, i) = <<>>
        BY <2>4
    <2>6. PICK result \in [0 .. 1 -> Seq(Pair)] :
              /\ result[0] = <<>>
              /\ \A i \in 1 .. 1 :
                     result[i] = IF Piece(text, i) = <<>> THEN result[i - 1]
                                 ELSE Append(result[i - 1], ParseOption(Piece(text, i)))
              /\ SplitOptions(text) = result[1]
        <3>1. \A i \in 1 .. 1 : Piece(text, i) # <<>> => ParseOption(Piece(text, i)) \in Pair
            BY <2>5
        <3>2. 1 \in Nat /\ Len(Cuts(text)) = 1 + 1
            BY <2>4
        <3> QED
            BY <3>1, <3>2, SplitSteps
    <2>7. 1 \in 1 .. 1 /\ 1 - 1 = 0
        OBVIOUS
    <2>8. result[1] = result[0]
        BY <2>5, <2>6, <2>7
    <2> QED
        BY <1>3, <2>6, <2>8 DEF text
<1>4. CASE pairs # <<>>
    <2> HIDE DEF text
    <2>1. Len(Cuts(text)) = n + 1 /\ \A i \in 1 .. n : Piece(text, i) = PairText(pairs[i])
        BY <1>1, <1>2, <1>4, PieceIs
    <2>2. \A i \in 1 .. n : ParseOption(Piece(text, i)) = pairs[i]
        BY <1>0, <2>1, ParseInverts
    <2>3. ASSUME NEW i \in 1 .. n PROVE Piece(text, i) # <<>>
        <3>1. /\ PairText(pairs[i]) \in Seq(Token)
              /\ Len(PairText(pairs[i])) >= 1
            <4>1. Len(text) \in Nat
                BY <1>1
            <4> QED
                BY <1>0, <1>2, <4>1, PairTextIs, PieceScanAt
        <3>2. Len(<<>>) = 0
            OBVIOUS
        <3> QED
            BY <2>1, <3>1, <3>2
    <2>4. PICK result \in [0 .. n -> Seq(Pair)] :
              /\ result[0] = <<>>
              /\ \A i \in 1 .. n :
                     result[i] = IF Piece(text, i) = <<>> THEN result[i - 1]
                                 ELSE Append(result[i - 1], ParseOption(Piece(text, i)))
              /\ SplitOptions(text) = result[n]
        <3>1. \A i \in 1 .. n : ParseOption(Piece(text, i)) \in Pair
            BY <1>0, <2>2
        <3> HIDE DEF n
        <3> QED
            BY <1>0, <2>1, <3>1, SplitSteps
    <2>5. \A i \in 1 .. n : result[i] = Append(result[i - 1], pairs[i])
        BY <2>2, <2>3, <2>4
    <2>6. result[n] = result[0] \o pairs
        BY <2>5, AppendsAll
    <2>7. <<>> \o pairs = pairs
        OBVIOUS
    <2> QED
        BY <2>4, <2>6, <2>7 DEF text
<1> QED
    BY <1>3, <1>4

-----------------------------------------------------------------------------
(* Types.                                                                   *)

Frame == [preset : Seq(Token), rest : Seq(Pair)]

(* TypeOK, with the domains of the locals.                                  *)
TypeInv ==
    /\ file \in [PresetNames -> Seq(Pair) \cup {Absent, Torn}]
    /\ pc \in [Procs -> SetPCs \cup {"idle", "open", "eval", "done"}]
    /\ arg \in [Procs -> PresetNames \cup {NoName}]
    /\ kvs \in [Procs -> Seq(Pair)]
    /\ toRead \in [Procs -> SUBSET PresetNames]
    /\ seen \in [Procs -> [PresetNames -> Seq(Pair) \cup {Absent}]]
    /\ line \in [Procs -> Seq(Pair)]
    /\ stack \in [Procs -> Seq(Frame)]
    /\ strings \in [Procs -> [Keys -> Seq(Token)]]
    /\ slices \in [Procs -> [Keys -> Seq(Seq(Token))]]
    /\ \A p \in Procs : /\ pc[p] \in SetPCs => arg[p] \in PresetNames
                        /\ pc[p] = "eval" => stack[p] # <<>>

LEMMA Ground ==
    /\ NothingSeen \in [PresetNames -> Seq(Pair) \cup {Absent}]
    /\ NoStrings \in [Keys -> Seq(Token)]
    /\ NoSlices \in [Keys -> Seq(Seq(Token))]
    /\ \A n \in PresetNames : n \in Seq(Token)
    /\ "idle" \notin SetPCs /\ "open" \notin SetPCs /\ "eval" \notin SetPCs /\ "done" \notin SetPCs
<1>1. NothingSeen \in [PresetNames -> Seq(Pair) \cup {Absent}]
    BY DEF NothingSeen
<1>2. NoStrings \in [Keys -> Seq(Token)]
    <2>1. "<no value>" \in Token
        BY DEF Token
    <2>2. NoValue \in Seq(Token)
        <3>1. \A x \in Token : <<x>> \in Seq(Token)
            OBVIOUS
        <3> QED
            BY <2>1, <3>1, Zenon DEF NoValue
    <2> QED
        BY <2>2 DEF NoStrings
<1>3. NoSlices \in [Keys -> Seq(Seq(Token))]
    BY DEF NoSlices
<1>4. \A n \in PresetNames : n \in Seq(Token)
    <2>1. Names \in Seq(Seq(Token))
        BY PresetsAssumption
    <2> QED
        BY <2>1 DEF PresetNames, ToSet
<1>5. "idle" \notin SetPCs /\ "open" \notin SetPCs /\ "eval" \notin SetPCs /\ "done" \notin SetPCs
    BY DEF SetPCs
<1> QED
    BY <1>1, <1>2, <1>3, <1>4, <1>5

(* What a value renders to is a text.                                       *)
LEMMA RenderType ==
    ASSUME NEW val \in Seq(Token), NEW given \in [Keys -> Seq(Token)]
    PROVE  Render(val, given) \in Seq(Token)
<1> DEFINE Read(i) == IF val[i] \in DOMAIN Templates THEN given[Templates[val[i]].key]
                                                    ELSE <<val[i]>>
           reads == [i \in 1 .. Len(val) |-> Read(i)]
<1>1. \A i \in 1 .. Len(val) : Read(i) \in Seq(Token)
    <2> SUFFICES ASSUME NEW i \in 1 .. Len(val) PROVE Read(i) \in Seq(Token)
        OBVIOUS
    <2>1. val[i] \in Token
        OBVIOUS
    <2>2. CASE val[i] \in DOMAIN Templates
        <3>1. Templates[val[i]] \in [key : Keys, strict : BOOLEAN]
            BY <2>2, PresetsAssumption
        <3>2. Templates[val[i]].key \in Keys
            BY <3>1
        <3> QED
            BY <2>2, <3>2
    <2>3. CASE val[i] \notin DOMAIN Templates
        BY <2>1, <2>3
    <2> QED
        BY <2>2, <2>3
<1>2. Len(val) \in Nat /\ DOMAIN val = 1 .. Len(val)
    OBVIOUS
<1>3. reads \in Seq(Seq(Token))
    <2> HIDE DEF Read
    <2> QED
        BY <1>1, <1>2, IsASeq
<1>4. FlattenSeq(reads) \in Seq(Token)
    <2> HIDE DEF reads
    <2> QED
        BY <1>3, FlattenAt
<1>5. Render(val, given) = val \/ Render(val, given) = FlattenSeq(reads)
    BY <1>2 DEF Render
<1> HIDE DEF reads
<1> QED
    BY <1>4, <1>5

LEMMA StackTypes ==
    ASSUME NEW p, stack[p] \in Seq(Frame), stack[p] # <<>>
    PROVE  /\ Top(p) \in Frame
           /\ Front(stack[p]) \in Seq(Frame)
           /\ Len(stack[p]) # 1 => Front(stack[p]) # <<>>
           /\ Top(p).rest # <<>> => Popped(p) \in Seq(Frame) /\ Popped(p) # <<>>
                                   /\ Head(Top(p).rest) \in Pair
<1> DEFINE s == stack[p]
           n == Len(s)
<1>1. s \in Seq(Frame) /\ s # <<>>
    OBVIOUS
<1> HIDE DEF s
<1>2. n \in Nat /\ n >= 1
    BY <1>1, EmptySeq
<1>3. \A i \in 1 .. n : s[i] \in Frame
    BY <1>1, ElementOfSeq
<1>4. Last(s) \in Frame
    <2>1. n \in 1 .. n
        BY <1>2
    <2> QED
        BY <1>3, <2>1 DEF Last
<1>5. Front(s) \in Seq(Frame) /\ (n # 1 => Front(s) # <<>>)
    <2>1. \A i \in 1 .. n - 1 : s[i] \in Frame
        BY <1>2, <1>3
    <2>2. /\ SubSeq(s, 1, n - 1) \in Seq(Frame)
          /\ Len(SubSeq(s, 1, n - 1)) = IF 1 <= n - 1 THEN (n - 1) - 1 + 1 ELSE 0
        <3>1. 1 \in Int /\ n - 1 \in Int
            BY <1>2
        <3> QED
            BY <2>1, <3>1, SubSeqProperties
    <2>3. n # 1 => Len(SubSeq(s, 1, n - 1)) # 0
        <3> HIDE DEF n
        <3>1. n # 1 => 1 <= n - 1 /\ (n - 1) - 1 + 1 # 0
            BY <1>2
        <3> QED
            BY <2>2, <3>1
    <2>4. Len(<<>>) = 0
        OBVIOUS
    <2> QED
        BY <2>2, <2>3, <2>4 DEF Front
<1>6. ASSUME Top(p).rest # <<>>
      PROVE  Popped(p) \in Seq(Frame) /\ Popped(p) # <<>> /\ Head(Top(p).rest) \in Pair
    <2> DEFINE f == Top(p)
               g == [f EXCEPT !.rest = Tail(@)]
    <2>1. f \in Frame
        BY <1>4 DEF Top, s
    <2>2. f.rest \in Seq(Pair) /\ f.rest # <<>>
        BY <1>6, <2>1 DEF Frame
    <2>3. Tail(f.rest) \in Seq(Pair) /\ Head(f.rest) \in Pair
        <3> DEFINE r == f.rest
        <3>1. r \in Seq(Pair) /\ r # <<>>
            BY <2>2
        <3> HIDE DEF r
        <3>2. Tail(r) \in Seq(Pair) /\ Head(r) \in Pair
            BY <3>1
        <3> QED
            BY <3>2 DEF r
    <2>4. g \in Frame
        <3> HIDE DEF f
        <3> QED
            BY <2>1, <2>3 DEF Frame
    <2>5. Popped(p) = Append(Front(s), g)
        BY DEF Popped, s
    <2> HIDE DEF g
    <2>6. Append(Front(s), g) \in Seq(Frame) /\ Append(Front(s), g) # <<>>
        BY <1>5, <2>4, AppendProperties
    <2> QED
        BY <2>3, <2>5, <2>6
<1> QED
    BY <1>4, <1>5, <1>6 DEF s, Top

(* Every local of the process that is gone is as it was at the start.       *)
LEMMA ExitTypes ==
    ASSUME TypeInv, NEW p \in Procs, Exit(p),
           file' \in [PresetNames -> Seq(Pair) \cup {Absent, Torn}]
    PROVE  TypeInv'
<1>1. /\ NoName \in PresetNames \cup {NoName} /\ <<>> \in Seq(Pair) /\ <<>> \in Seq(Frame)
      /\ {} \in SUBSET PresetNames /\ "idle" \notin SetPCs
    BY DEF SetPCs
<1>2. /\ arg' \in [Procs -> PresetNames \cup {NoName}]
      /\ kvs' \in [Procs -> Seq(Pair)]
      /\ toRead' \in [Procs -> SUBSET PresetNames]
      /\ line' \in [Procs -> Seq(Pair)]
      /\ stack' \in [Procs -> Seq(Frame)]
    BY <1>1 DEF TypeInv, Exit
<1>3. /\ seen' \in [Procs -> [PresetNames -> Seq(Pair) \cup {Absent}]]
      /\ strings' \in [Procs -> [Keys -> Seq(Token)]]
      /\ slices' \in [Procs -> [Keys -> Seq(Seq(Token))]]
    BY Ground DEF TypeInv, Exit
<1>4. pc' \in [Procs -> SetPCs \cup {"idle", "open", "eval", "done"}]
    BY DEF TypeInv, Exit, Goto
<1>5. ASSUME NEW q \in Procs
      PROVE  /\ pc'[q] \in SetPCs => arg'[q] \in PresetNames
             /\ pc'[q] = "eval" => stack'[q] # <<>>
    <2>1. CASE q = p
        <3>1. pc'[q] = "idle"
            BY <2>1 DEF TypeInv, Exit, Goto
        <3> QED
            BY <1>1, <3>1
    <2>2. CASE q # p
        <3>1. pc'[q] = pc[q] /\ arg'[q] = arg[q] /\ stack'[q] = stack[q]
            BY <2>2 DEF TypeInv, Exit, Goto
        <3> QED
            BY <3>1 DEF TypeInv
    <2> QED
        BY <2>1, <2>2
<1> QED
    BY <1>2, <1>3, <1>4, <1>5 DEF TypeInv

LEMMA SetOne ==
    ASSUME NEW P, NEW K, NEW S, NEW f \in [P -> [K -> S]],
           NEW p \in P, NEW k \in K, NEW v \in S
    PROVE  [f EXCEPT ![p][k] = v] \in [P -> [K -> S]]
<1>1. [f[p] EXCEPT ![k] = v] \in [K -> S]
    OBVIOUS
<1>2. [f EXCEPT ![p] = [f[p] EXCEPT ![k] = v]] \in [P -> [K -> S]]
    BY <1>1
<1> QED
    BY <1>2

LEMMA EvalTypes ==
    ASSUME TypeInv, NEW p \in Procs, EvalPair(p)
    PROVE  TypeInv'
<1>0. pc[p] = "eval" /\ stack[p] \in Seq(Frame) /\ stack[p] # <<>> /\ Top(p).rest # <<>>
    BY DEF TypeInv, EvalPair
<1>1. Popped(p) \in Seq(Frame) /\ Popped(p) # <<>> /\ Head(Top(p).rest) \in Pair
    BY <1>0, StackTypes
<1> DEFINE pair == Head(Top(p).rest)
           v == Render(pair.val, strings[p])
<1>2. pair.val \in Seq(Token) /\ pair.key \in Keys /\ pair.at \in BOOLEAN
    BY <1>1 DEF Pair
<1>3. v \in Seq(Token)
    <2>1. strings[p] \in [Keys -> Seq(Token)]
        BY DEF TypeInv
    <2> QED
        BY <1>2, <2>1, RenderType
<1>4. /\ UNCHANGED <<file, pc, arg, kvs, toRead, seen, line>>
      /\ \/ /\ slices' = [slices EXCEPT ![p][pair.key] = Append(@, v)]
            /\ stack' = [stack EXCEPT ![p] = Popped(p)]
            /\ UNCHANGED strings
         \/ Expand(p, v) /\ UNCHANGED <<strings, slices>>
         \/ /\ strings' = [strings EXCEPT ![p][pair.key] = v]
            /\ stack' = [stack EXCEPT ![p] = Popped(p)]
            /\ UNCHANGED slices
    BY <1>2 DEF EvalPair
<1> HIDE DEF pair, v
<1>5. strings' \in [Procs -> [Keys -> Seq(Token)]]
    <2>1. strings' = strings \/ strings' = [strings EXCEPT ![p][pair.key] = v]
        BY <1>4
    <2>2. strings \in [Procs -> [Keys -> Seq(Token)]]
        BY DEF TypeInv
    <2>3. pair.key \in Keys
        BY <1>2
    <2>4. [strings EXCEPT ![p][pair.key] = v] \in [Procs -> [Keys -> Seq(Token)]]
        BY <1>3, <2>2, <2>3, SetOne, Zenon
    <2> QED
        BY <2>1, <2>2, <2>4, Zenon
<1>6. slices' \in [Procs -> [Keys -> Seq(Seq(Token))]]
    <2>1. slices[p][pair.key] \in Seq(Seq(Token))
        BY <1>2 DEF TypeInv
    <2>2. Append(slices[p][pair.key], v) \in Seq(Seq(Token))
        BY <1>3, <2>1, AppendProperties
    <2>3. \/ slices' = slices
          \/ slices' = [slices EXCEPT ![p][pair.key] = Append(slices[p][pair.key], v)]
        BY <1>4
    <2>4. slices \in [Procs -> [Keys -> Seq(Seq(Token))]]
        BY DEF TypeInv
    <2> DEFINE a == Append(slices[p][pair.key], v)
    <2>5. pair.key \in Keys
        BY <1>2
    <2>6. [slices EXCEPT ![p][pair.key] = a] \in [Procs -> [Keys -> Seq(Seq(Token))]]
        BY <2>2, <2>4, <2>5, SetOne, Zenon
    <2> QED
        BY <2>3, <2>4, <2>6, Zenon
<1>7. \E s \in Seq(Frame) : s # <<>> /\ stack' = [stack EXCEPT ![p] = s]
    <2>1. CASE stack' = [stack EXCEPT ![p] = Popped(p)]
        BY <1>1, <2>1
    <2>2. CASE Expand(p, v)
        <3>1. CASE FilesOf(p, v) = {}
            BY <1>1, <2>2, <3>1 DEF Expand
        <3>2. CASE FilesOf(p, v) # {}
            <4> DEFINE F == FilesOf(p, v)
                       at == Last0(F)
                       call == Call(Names[at], seen[p][Names[at]])
            <4>1. F \subseteq 1 .. Len(Names) /\ Len(Names) \in Nat
                <5>1. Names \in Seq(Seq(Token))
                    BY PresetsAssumption
                <5>2. Len(Names) \in Nat /\ DOMAIN Names = 1 .. Len(Names)
                    BY <5>1, LenProperties
                <5> QED
                    BY <5>2 DEF FilesOf
            <4>2. F \subseteq Nat /\ IsFiniteSet(F) /\ F # {}
                <5>1. IsFiniteSet(1 .. Len(Names))
                    BY <4>1, FS_Interval
                <5> HIDE DEF F
                <5>2. IsFiniteSet(F)
                    BY <4>1, <5>1, FS_Subset
                <5>3. F \subseteq Nat
                    BY <4>1
                <5> QED
                    BY <3>2, <5>2, <5>3 DEF F
            <4> HIDE DEF F
            <4>3. at \in F
                <5>1. PICK m \in F : \A k \in F : k <= m
                    BY <4>2, GreatestElement
                <5> QED
                    BY <4>2, <5>1, LastIs
            <4>4. at \in DOMAIN Names /\ seen[p][Names[at]] # Absent
                <5> HIDE DEF at
                <5> QED
                    BY <4>3 DEF F, FilesOf
            <4> HIDE DEF at
            <4>5. Names[at] \in PresetNames
                BY <4>4 DEF PresetNames, ToSet
            <4>6. Names[at] \in Seq(Token)
                BY <4>5, Ground
            <4>7. seen[p][Names[at]] \in Seq(Pair)
                BY <4>4, <4>5 DEF TypeInv
            <4>8. [preset |-> Names[at], rest |-> seen[p][Names[at]]] \in Frame
                BY <4>6, <4>7 DEF Frame
            <4>9. call \in Seq(Frame)
                <5>1. \A x \in Frame : <<x>> \in Seq(Frame)
                    OBVIOUS
                <5> QED
                    BY <4>8, <5>1 DEF Call
            <4>10. stack' = [stack EXCEPT ![p] = Popped(p) \o call]
                BY <2>2, <3>2 DEF Expand, F, at
            <4> HIDE DEF call
            <4>11. Popped(p) \o call \in Seq(Frame) /\ Popped(p) \o call # <<>>
                <5> DEFINE s == Popped(p)
                <5>1. s \in Seq(Frame) /\ s # <<>>
                    BY <1>1
                <5> HIDE DEF s
                <5>2. s \o call \in Seq(Frame) /\ s \o call # <<>>
                    BY <4>9, <5>1, ConcatProperties, ConcatEqualIffEmpty
                <5> QED
                    BY <5>2 DEF s
            <4> QED
                BY <4>10, <4>11
        <3> QED
            BY <3>1, <3>2
    <2> QED
        BY <1>4, <2>1, <2>2
<1>8. stack' \in [Procs -> Seq(Frame)] /\ \A q \in Procs : pc'[q] = "eval" => stack'[q] # <<>>
    <2>1. PICK s \in Seq(Frame) : s # <<>> /\ stack' = [stack EXCEPT ![p] = s]
        BY <1>7
    <2>2. stack' \in [Procs -> Seq(Frame)]
        BY <2>1 DEF TypeInv
    <2>3. ASSUME NEW q \in Procs, pc'[q] = "eval" PROVE stack'[q] # <<>>
        <3>1. pc[q] = "eval"
            BY <1>4, <2>3
        <3>2. stack[q] # <<>>
            BY <3>1 DEF TypeInv
        <3>3. stack'[q] = IF q = p THEN s ELSE stack[q]
            BY <2>1 DEF TypeInv
        <3> QED
            BY <2>1, <3>2, <3>3
    <2> QED
        BY <2>2, <2>3
<1> QED
    BY <1>4, <1>5, <1>6, <1>8 DEF TypeInv

LEMMA StartSetTypes ==
    ASSUME TypeInv, NEW p \in Procs, StartSet(p)
    PROVE  TypeInv'
<1>1. PICK n \in PresetNames, pairs \in Lines, clear \in BOOLEAN :
          /\ ~clear => file[n] # Torn
          /\ arg' = [arg EXCEPT ![p] = n]
          /\ kvs' = [kvs EXCEPT ![p] = KeptPairs(n, clear) \o SplitOptions(LineText(pairs))]
    BY DEF StartSet
<1>2. KeptPairs(n, clear) \in Seq(Pair)
    BY <1>1 DEF KeptPairs, TypeInv
<1>3. SplitOptions(LineText(pairs)) \in Seq(Pair)
    <2>1. pairs \in Seq(Pair)
        BY PresetsAssumption
    <2> QED
        BY <2>1, SplitInverts
<1>4. KeptPairs(n, clear) \o SplitOptions(LineText(pairs)) \in Seq(Pair)
    BY <1>2, <1>3, ConcatProperties
<1>5. /\ kvs' \in [Procs -> Seq(Pair)] /\ arg' \in [Procs -> PresetNames \cup {NoName}]
      /\ arg'[p] \in PresetNames /\ \A q \in Procs : q # p => arg'[q] = arg[q]
    BY <1>1, <1>4 DEF TypeInv
<1>6. /\ pc' = [pc EXCEPT ![p] = "truncate"]
      /\ UNCHANGED <<file, toRead, seen, line, stack, strings, slices>>
    BY DEF StartSet, Goto
<1>7. ASSUME NEW q \in Procs
      PROVE  /\ pc'[q] \in SetPCs => arg'[q] \in PresetNames
             /\ pc'[q] = "eval" => stack'[q] # <<>>
    <2>1. CASE q = p
        BY <1>5, <1>6, <2>1 DEF TypeInv
    <2>2. CASE q # p
        BY <1>5, <1>6, <2>2 DEF TypeInv
    <2> QED
        BY <2>1, <2>2
<1>8. pc' \in [Procs -> SetPCs \cup {"idle", "open", "eval", "done"}]
    BY <1>6 DEF TypeInv, SetPCs
<1> QED
    BY <1>5, <1>6, <1>7, <1>8 DEF TypeInv

LEMMA TypeStep == TypeInv /\ [Next]_vars => TypeInv'
<1> SUFFICES ASSUME TypeInv, [Next]_vars PROVE TypeInv'
    OBVIOUS
<1>p. Setters \subseteq Procs /\ Readers \subseteq Procs
    BY DEF Procs
<1>1. ASSUME NEW p \in Procs, StartSet(p) PROVE TypeInv'
    BY <1>1, StartSetTypes
<1>2. ASSUME NEW p \in Procs, TruncateFile(p) PROVE TypeInv'
    <2>1. arg[p] \in PresetNames
        BY <1>2 DEF TruncateFile, TypeInv, SetPCs
    <2>2. file' \in [PresetNames -> Seq(Pair) \cup {Absent, Torn}]
        BY <1>2, <2>1 DEF TruncateFile, TypeInv
    <2>3. pc' \in [Procs -> SetPCs \cup {"idle", "open", "eval", "done"}]
        BY <1>2 DEF TruncateFile, Goto, TypeInv, SetPCs
    <2>4. ASSUME NEW q \in Procs
          PROVE  /\ pc'[q] \in SetPCs => arg'[q] \in PresetNames
                 /\ pc'[q] = "eval" => stack'[q] # <<>>
        BY <1>2, <2>1 DEF TruncateFile, Goto, TypeInv, locals
    <2> QED
        BY <1>2, <2>2, <2>3, <2>4 DEF TruncateFile, TypeInv, locals
<1>3. ASSUME NEW p \in Procs, WriteFile(p) PROVE TypeInv'
    <2>1. arg[p] \in PresetNames /\ kvs[p] \in Seq(Pair)
        BY <1>3 DEF WriteFile, TypeInv, SetPCs
    <2>2. file' \in [PresetNames -> Seq(Pair) \cup {Absent, Torn}]
        BY <1>3, <2>1 DEF WriteFile, TypeInv
    <2> QED
        BY <1>3, <2>2, ExitTypes DEF WriteFile
<1>4. ASSUME NEW p \in Procs, RemovePreset(p) PROVE TypeInv'
    <2>1. file' \in [PresetNames -> Seq(Pair) \cup {Absent, Torn}]
        BY <1>4 DEF RemovePreset, TypeInv
    <2> QED
        BY <1>4, <2>1 DEF RemovePreset, TypeInv, locals
<1>5. ASSUME NEW p \in Procs, ListDirectory(p) PROVE TypeInv'
    <2>1. PICK pairs \in OptionLines : line' = [line EXCEPT ![p] = pairs]
        BY <1>5 DEF ListDirectory
    <2>2. pairs \in Seq(Pair)
        BY PresetsAssumption
    <2>3. line' \in [Procs -> Seq(Pair)]
        BY <2>1, <2>2 DEF TypeInv
    <2>4. toRead' \in [Procs -> SUBSET PresetNames]
        BY <1>5 DEF ListDirectory, TypeInv
    <2>5. pc' \in [Procs -> SetPCs \cup {"idle", "open", "eval", "done"}]
        BY <1>5 DEF ListDirectory, Goto, TypeInv
    <2>6. ASSUME NEW q \in Procs
          PROVE  /\ pc'[q] \in SetPCs => arg'[q] \in PresetNames
                 /\ pc'[q] = "eval" => stack'[q] # <<>>
        BY <1>5 DEF ListDirectory, Goto, TypeInv, SetPCs
    <2> QED
        BY <1>5, <2>3, <2>4, <2>5, <2>6 DEF ListDirectory, TypeInv
<1>6. ASSUME NEW p \in Procs, OpenPreset(p) PROVE TypeInv'
    <2>1. PICK n \in toRead[p] :
              /\ seen' = [seen EXCEPT ![p][n] = IF file[n] = Torn THEN <<>> ELSE file[n]]
              /\ toRead' = [toRead EXCEPT ![p] = @ \ {n}]
        BY <1>6 DEF OpenPreset
    <2>2. n \in PresetNames
        BY DEF TypeInv
    <2>3. (IF file[n] = Torn THEN <<>> ELSE file[n]) \in Seq(Pair) \cup {Absent}
        BY <2>2 DEF TypeInv
    <2>4. seen' \in [Procs -> [PresetNames -> Seq(Pair) \cup {Absent}]]
        BY <2>1, <2>2, <2>3 DEF TypeInv
    <2>5. toRead' \in [Procs -> SUBSET PresetNames]
        BY <2>1 DEF TypeInv
    <2> QED
        BY <1>6, <2>4, <2>5 DEF OpenPreset, TypeInv
<1>7. ASSUME NEW p \in Procs, StartEval(p) PROVE TypeInv'
    <2>1. SplitOptions(LineText(line[p])) \in Seq(Pair)
        BY SplitInverts DEF TypeInv
    <2> DEFINE f == [preset |-> NoName, rest |-> SplitOptions(LineText(line[p]))]
    <2>2. f \in Frame
        BY <2>1 DEF Frame, NoName
    <2>3. stack' = [stack EXCEPT ![p] = <<f>>]
        BY <1>7 DEF StartEval, Call
    <2> HIDE DEF f
    <2>4. <<f>> \in Seq(Frame) /\ <<f>> # <<>>
        BY <2>2
    <2>5. stack' \in [Procs -> Seq(Frame)] /\ stack'[p] # <<>>
          /\ \A q \in Procs : q # p => stack'[q] = stack[q]
        BY <2>3, <2>4 DEF TypeInv
    <2>6. pc' \in [Procs -> SetPCs \cup {"idle", "open", "eval", "done"}]
        BY <1>7 DEF StartEval, Goto, TypeInv
    <2>7. ASSUME NEW q \in Procs
          PROVE  /\ pc'[q] \in SetPCs => arg'[q] \in PresetNames
                 /\ pc'[q] = "eval" => stack'[q] # <<>>
        BY <1>7, <2>5 DEF StartEval, Goto, TypeInv, SetPCs
    <2> QED
        BY <1>7, <2>5, <2>6, <2>7 DEF StartEval, TypeInv
<1>8. ASSUME NEW p \in Procs, EvalPair(p) PROVE TypeInv'
    BY <1>8, EvalTypes
<1>9. ASSUME NEW p \in Procs, EvalReturns(p) PROVE TypeInv'
    <2>1. stack[p] \in Seq(Frame) /\ stack[p] # <<>>
        BY <1>9 DEF EvalReturns, TypeInv
    <2>2. Front(stack[p]) \in Seq(Frame) /\ (Len(stack[p]) # 1 => Front(stack[p]) # <<>>)
        BY <2>1, StackTypes
    <2>3. stack' = [stack EXCEPT ![p] = Front(stack[p])]
        BY <1>9 DEF EvalReturns
    <2>4. stack' \in [Procs -> Seq(Frame)] /\ stack'[p] = Front(stack[p])
          /\ \A q \in Procs : q # p => stack'[q] = stack[q]
        BY <2>2, <2>3 DEF TypeInv
    <2>5. pc' \in [Procs -> SetPCs \cup {"idle", "open", "eval", "done"}]
          /\ pc'[p] = (IF Len(stack[p]) = 1 THEN "done" ELSE "eval")
          /\ \A q \in Procs : q # p => pc'[q] = pc[q]
        BY <1>9 DEF EvalReturns, Goto, TypeInv
    <2>6. ASSUME NEW q \in Procs
          PROVE  /\ pc'[q] \in SetPCs => arg'[q] \in PresetNames
                 /\ pc'[q] = "eval" => stack'[q] # <<>>
        <3>1. CASE q = p
            BY <2>2, <2>4, <2>5, <3>1 DEF SetPCs
        <3>2. CASE q # p
            BY <1>9, <2>4, <2>5, <3>2 DEF EvalReturns, TypeInv
        <3> QED
            BY <3>1, <3>2
    <2> QED
        BY <1>9, <2>4, <2>5, <2>6 DEF EvalReturns, TypeInv
<1>10. ASSUME NEW p \in Procs, Finish(p) \/ Die(p) PROVE TypeInv'
    <2>1. Exit(p) /\ file' = file
        BY <1>10 DEF Finish, Die
    <2>2. file' \in [PresetNames -> Seq(Pair) \cup {Absent, Torn}]
        BY <2>1 DEF TypeInv
    <2> QED
        BY <2>1, <2>2, ExitTypes
<1>11. CASE UNCHANGED vars
    BY <1>11 DEF TypeInv, vars, locals
<1> QED
    BY <1>p, <1>1, <1>2, <1>3, <1>4, <1>5, <1>6, <1>7, <1>8, <1>9, <1>10, <1>11
       DEF Next, PresetCommand, OtherCommand, Evaluate

LEMMA TypeInvariant == Spec => []TypeInv
<1>1. Init => TypeInv
    BY Ground DEF Init, TypeInv
<1> QED
    BY <1>1, TypeStep, PTL DEF Spec

(* Whatever processes set, remove and read, in every order of their steps   *)
(* and wherever one is killed: presets hold pairs, an evaluation has a call *)
(* to return to, and what it stores are texts (lib/options.go, cmd/preset.go). *)
THEOREM PresetsTypeCorrect == Spec => []TypeOK
<1>1. TypeInv => TypeOK
    BY DEF TypeInv, TypeOK, Frame
<1> QED
    BY <1>1, TypeInvariant, PTL

-----------------------------------------------------------------------------
(* The preset files are the store.                                          *)

(* What a set command is about to write is what it may: the pairs its user  *)
(* meant, after those that the preset has, or alone.                        *)
Intended(p) ==
    \E pairs \in Lines :
        \/ kvs[p] = pairs
        \/ file[arg[p]] # Torn /\ kvs[p] = KeptPairs(arg[p], FALSE) \o pairs

SetOK(p) ==
    /\ pc[p] = "write" => file[arg[p]] = Torn
    /\ pc[p] = "truncate" => Intended(p)

StoreInv ==
    /\ TypeInv
    /\ \A p, q \in Procs : p # q /\ pc[p] \in SetPCs /\ pc[q] \in SetPCs => arg[p] # arg[q]
    /\ \A p \in Procs : SetOK(p)

(* A step of p leaves the other processes alone.                            *)
OnlyOf(p) ==
    \A q \in Procs \ {p} : pc'[q] = pc[q] /\ arg'[q] = arg[q] /\ kvs'[q] = kvs[q]

LEMMA StoreKept ==
    ASSUME StoreInv, TypeInv', NEW p \in Procs, OnlyOf(p),
           \A q \in Procs \ {p} : pc[q] \in SetPCs => file'[arg[q]] = file[arg[q]],
           pc'[p] \in SetPCs =>
               SetOK(p)' /\ \A q \in Procs \ {p} : pc[q] \in SetPCs => arg[q] # arg'[p]
    PROVE  StoreInv'
<1>1. ASSUME NEW q \in Procs PROVE SetOK(q)'
    <2>1. CASE q = p
        BY <2>1 DEF SetOK, SetPCs
    <2>2. CASE q # p
        <3>1. pc'[q] = pc[q] /\ arg'[q] = arg[q] /\ kvs'[q] = kvs[q]
            BY <2>2 DEF OnlyOf
        <3>2. pc[q] \in SetPCs => file'[arg[q]] = file[arg[q]]
            BY <2>2
        <3>3. pc[q] = "write" => file'[arg'[q]] = Torn
            BY <3>1, <3>2 DEF StoreInv, SetOK, SetPCs
        <3>4. pc[q] = "truncate" => Intended(q)'
            <4> SUFFICES ASSUME pc[q] = "truncate" PROVE Intended(q)'
                OBVIOUS
            <4>1. Intended(q)
                BY DEF StoreInv, SetOK
            <4>2. arg'[q] = arg[q] /\ kvs'[q] = kvs[q] /\ file'[arg[q]] = file[arg[q]]
                BY <3>1, <3>2 DEF SetPCs
            <4> QED
                BY <4>1, <4>2 DEF Intended, KeptPairs
        <3> QED
            BY <3>1, <3>3, <3>4 DEF SetOK
    <2> QED
        BY <2>1, <2>2
<1>2. ASSUME NEW q \in Procs, NEW r \in Procs, q # r, pc'[q] \in SetPCs, pc'[r] \in SetPCs
      PROVE  arg'[q] # arg'[r]
    <2>1. CASE q = p
        BY <1>2, <2>1 DEF OnlyOf
    <2>2. CASE r = p
        BY <1>2, <2>2 DEF OnlyOf
    <2>3. CASE q # p /\ r # p
        BY <1>2, <2>3 DEF OnlyOf, StoreInv
    <2> QED
        BY <2>1, <2>2, <2>3
<1> QED
    BY <1>1, <1>2 DEF StoreInv

(* What a process that is not a set command, or no longer one, does.        *)
LEMMA LeavesStore ==
    ASSUME StoreInv, NEW p \in Procs,
           \/ ListDirectory(p) \/ OpenPreset(p) \/ StartEval(p) \/ Evaluate(p)
           \/ Finish(p) \/ Die(p)
    PROVE  OnlyOf(p) /\ file' = file /\ pc'[p] \notin SetPCs
<1>1. CASE ListDirectory(p)
    BY <1>1 DEF ListDirectory, Goto, OnlyOf, StoreInv, TypeInv, SetPCs
<1>2. CASE OpenPreset(p)
    BY <1>2 DEF OpenPreset, OnlyOf, StoreInv, TypeInv, SetPCs
<1>3. CASE StartEval(p)
    BY <1>3 DEF StartEval, Goto, OnlyOf, StoreInv, TypeInv, SetPCs
<1>4. CASE EvalPair(p)
    <2>1. pc[p] = "eval" /\ UNCHANGED <<file, pc, arg, kvs>>
        BY <1>4 DEF EvalPair
    <2> QED
        BY <2>1 DEF OnlyOf, SetPCs
<1>5. CASE EvalReturns(p)
    BY <1>5 DEF EvalReturns, Goto, OnlyOf, StoreInv, TypeInv, SetPCs
<1>6. CASE Finish(p) \/ Die(p)
    <2>1. Exit(p) /\ file' = file
        BY <1>6 DEF Finish, Die
    <2> QED
        BY <2>1 DEF Exit, Goto, OnlyOf, StoreInv, TypeInv, SetPCs
<1> QED
    BY <1>1, <1>2, <1>3, <1>4, <1>5, <1>6 DEF Evaluate

LEMMA StartSetIs ==
    ASSUME StoreInv, NEW p \in Procs, StartSet(p)
    PROVE  /\ OnlyOf(p) /\ file' = file /\ pc'[p] = "truncate" /\ pc[p] = "idle"
           /\ arg'[p] \in PresetNames
           /\ \A q \in Procs \ {p} : pc[q] \in SetPCs => arg[q] # arg'[p]
           /\ Intended(p)'
<1>1. PICK n \in PresetNames, pairs \in Lines, clear \in BOOLEAN :
          /\ Untouched(n)
          /\ ~clear => file[n] # Torn
          /\ arg' = [arg EXCEPT ![p] = n]
          /\ kvs' = [kvs EXCEPT ![p] = KeptPairs(n, clear) \o SplitOptions(LineText(pairs))]
    BY DEF StartSet
<1>2. pc' = [pc EXCEPT ![p] = "truncate"] /\ file' = file /\ pc[p] = "idle"
    BY DEF StartSet, Goto
<1>3. arg'[p] = n /\ OnlyOf(p) /\ pc'[p] = "truncate"
    BY <1>1, <1>2 DEF OnlyOf, StoreInv, TypeInv
<1>4. pairs \in Seq(Pair) /\ SplitOptions(LineText(pairs)) = pairs
    BY SplitInverts, PresetsAssumption
<1>5. kvs'[p] = KeptPairs(n, clear) \o pairs
    BY <1>1, <1>4 DEF StoreInv, TypeInv
<1>6. CASE clear
    <2>1. KeptPairs(n, clear) = <<>>
        BY <1>6 DEF KeptPairs
    <2>2. <<>> \o pairs = pairs
        BY <1>4
    <2>3. kvs'[p] = pairs
        BY <1>5, <2>1, <2>2
    <2> QED
        BY <1>1, <1>2, <1>3, <2>3 DEF Intended, Untouched
<1>7. CASE ~clear
    <2>1. KeptPairs(n, clear) = (IF file'[n] = Absent THEN <<>> ELSE file'[n])
        BY <1>2, <1>7 DEF KeptPairs
    <2>2. file'[n] # Torn
        BY <1>1, <1>2, <1>7
    <2>3. Intended(p)'
        BY <1>3, <1>5, <2>1, <2>2 DEF Intended, KeptPairs
    <2> QED
        BY <1>1, <1>2, <1>3, <2>3 DEF Untouched
<1> QED
    BY <1>6, <1>7

LEMMA StoreInvStep == StoreInv /\ TypeInv' /\ [Next]_vars => StoreInv'
<1> SUFFICES ASSUME StoreInv, TypeInv', [Next]_vars PROVE StoreInv'
    OBVIOUS
<1>p. Setters \subseteq Procs /\ Readers \subseteq Procs
    BY DEF Procs
<1>1. ASSUME NEW p \in Procs, StartSet(p) PROVE StoreInv'
    <2>1. SetOK(p)'
        BY <1>1, StartSetIs DEF SetOK
    <2> QED
        BY <1>1, <2>1, StartSetIs, StoreKept
<1>2. ASSUME NEW p \in Procs, TruncateFile(p) PROVE StoreInv'
    <2>1. /\ pc[p] = "truncate" /\ pc'[p] = "write" /\ arg' = arg /\ OnlyOf(p)
          /\ file' = [file EXCEPT ![arg[p]] = Torn]
        BY <1>2 DEF TruncateFile, Goto, OnlyOf, locals, StoreInv, TypeInv
    <2>2. arg[p] \in PresetNames /\ pc[p] \in SetPCs
        BY <2>1 DEF StoreInv, TypeInv, SetPCs
    <2>3. \A q \in Procs \ {p} : pc[q] \in SetPCs => arg[q] # arg[p]
        BY <2>2 DEF StoreInv
    <2>4. \A q \in Procs \ {p} : pc[q] \in SetPCs => file'[arg[q]] = file[arg[q]]
        BY <2>1, <2>3 DEF StoreInv, TypeInv
    <2>5. SetOK(p)'
        <3>1. file'[arg'[p]] = Torn
            BY <2>1, <2>2 DEF StoreInv, TypeInv
        <3> QED
            BY <2>1, <3>1 DEF SetOK
    <2> QED
        BY <2>1, <2>3, <2>4, <2>5, StoreKept
<1>3. ASSUME NEW p \in Procs, WriteFile(p) PROVE StoreInv'
    <2>1. /\ pc[p] = "write" /\ pc'[p] = "idle" /\ OnlyOf(p)
          /\ file' = [file EXCEPT ![arg[p]] = kvs[p]]
        BY <1>3 DEF WriteFile, Exit, Goto, OnlyOf, StoreInv, TypeInv
    <2>2. \A q \in Procs \ {p} : pc[q] \in SetPCs => arg[q] # arg[p]
        BY <2>1 DEF StoreInv, SetPCs
    <2>3. \A q \in Procs \ {p} : pc[q] \in SetPCs => file'[arg[q]] = file[arg[q]]
        BY <2>1, <2>2 DEF StoreInv, TypeInv
    <2>4. pc'[p] \notin SetPCs
        BY <2>1 DEF SetPCs
    <2> QED
        BY <2>1, <2>3, <2>4, StoreKept
<1>4. ASSUME NEW p \in Procs, RemovePreset(p) PROVE StoreInv'
    <2>1. PICK n \in PresetNames : Untouched(n) /\ file' = [file EXCEPT ![n] = Absent]
        BY <1>4 DEF RemovePreset
    <2>2. pc[p] = "idle" /\ UNCHANGED <<pc, arg, kvs>>
        BY <1>4 DEF RemovePreset, locals
    <2>3. \A q \in Procs \ {p} : pc[q] \in SetPCs => file'[arg[q]] = file[arg[q]]
        BY <2>1 DEF Untouched, StoreInv, TypeInv
    <2>4. OnlyOf(p) /\ pc'[p] \notin SetPCs
        BY <2>2 DEF OnlyOf, SetPCs
    <2> QED
        BY <2>3, <2>4, StoreKept
<1>5. ASSUME NEW p \in Procs, OtherCommand(p) \/ Finish(p) \/ Die(p) PROVE StoreInv'
    <2>1. OnlyOf(p) /\ file' = file /\ pc'[p] \notin SetPCs
        BY <1>5, LeavesStore DEF OtherCommand
    <2> QED
        BY <2>1, StoreKept
<1>6. CASE UNCHANGED vars
    <2>1. UNCHANGED <<file, pc, arg, kvs>>
        BY <1>6 DEF vars, locals
    <2>2. \A p \in Procs : SetOK(p)'
        BY <2>1 DEF StoreInv, SetOK, Intended, KeptPairs
    <2> QED
        BY <2>1, <2>2 DEF StoreInv
<1> QED
    BY <1>p, <1>1, <1>2, <1>3, <1>4, <1>5, <1>6 DEF Next, PresetCommand

LEMMA StoreInvariant == Spec => []StoreInv
<1>1. Init => StoreInv
    <2>1. Init => TypeInv
        BY Ground DEF Init, TypeInv
    <2>2. Init => \A p \in Procs : pc[p] = "idle"
        BY DEF Init
    <2> QED
        BY <2>1, <2>2 DEF StoreInv, SetOK, SetPCs
<1> QED
    BY <1>1, TypeInvariant, StoreInvStep, PTL DEF Spec

(* The content of a preset: what is being written to it, else its file.     *)
Writing(p, n) == pc[p] = "write" /\ arg[p] = n

ContentOK ==
    /\ PresetContent = [n \in PresetNames |-> PresetContent[n]]
    /\ \A n \in PresetNames :
           /\ \A p \in Procs : Writing(p, n) => PresetContent[n] = kvs[p]
           /\ (\A p \in Procs : ~Writing(p, n)) => PresetContent[n] = file[n]

LEMMA ContentIs == StoreInv => ContentOK
<1> SUFFICES ASSUME StoreInv PROVE ContentOK
    OBVIOUS
<1>1. PresetContent = [n \in PresetNames |-> PresetContent[n]]
    BY DEF PresetContent
<1>2. ASSUME NEW n \in PresetNames, NEW p \in Procs, Writing(p, n)
      PROVE  PresetContent[n] = kvs[p]
    <2> DEFINE c == CHOOSE q \in Procs : pc[q] = "write" /\ arg[q] = n
    <2>1. c \in Procs /\ pc[c] = "write" /\ arg[c] = n
        BY <1>2 DEF Writing
    <2>2. PresetContent[n] = kvs[c]
        BY <1>2 DEF PresetContent, Writing
    <2> HIDE DEF c
    <2>3. c = p
        BY <1>2, <2>1 DEF StoreInv, SetPCs, Writing
    <2> QED
        BY <2>2, <2>3
<1>3. ASSUME NEW n \in PresetNames, \A p \in Procs : ~Writing(p, n)
      PROVE  PresetContent[n] = file[n]
    BY <1>3 DEF PresetContent, Writing
<1> QED
    BY <1>1, <1>2, <1>3 DEF ContentOK

(* A preset that a step has nothing to do with keeps its content.           *)
LEMMA ContentKept ==
    ASSUME StoreInv, StoreInv', ContentOK, ContentOK', NEW p \in Procs, OnlyOf(p),
           NEW n \in PresetNames, file'[n] = file[n],
           ~Writing(p, n), ~Writing(p, n)'
    PROVE  PresetContent'[n] = PresetContent[n]
<1>1. \A q \in Procs : Writing(q, n)' <=> Writing(q, n)
    BY DEF OnlyOf, Writing
<1>2. ASSUME NEW q \in Procs, Writing(q, n) PROVE PresetContent'[n] = PresetContent[n]
    <2>1. kvs'[q] = kvs[q]
        BY <1>2 DEF OnlyOf
    <2>2. PresetContent[n] = kvs[q]
        BY <1>2 DEF ContentOK
    <2>3. PresetContent'[n] = kvs'[q]
        BY <1>1, <1>2 DEF ContentOK
    <2> QED
        BY <2>1, <2>2, <2>3
<1>3. ASSUME \A q \in Procs : ~Writing(q, n) PROVE PresetContent'[n] = PresetContent[n]
    <2>1. PresetContent[n] = file[n]
        BY <1>3 DEF ContentOK
    <2>2. PresetContent'[n] = file'[n]
        BY <1>1, <1>3 DEF ContentOK
    <2> QED
        BY <2>1, <2>2
<1> QED
    BY <1>2, <1>3

LEMMA StoreStutters ==
    ASSUME ContentOK, ContentOK', \A n \in PresetNames : PresetContent'[n] = PresetContent[n]
    PROVE  UNCHANGED PresetContent
<1>1. PresetContent' = [n \in PresetNames |-> PresetContent'[n]]
    BY DEF ContentOK
<1>2. PresetContent = [n \in PresetNames |-> PresetContent[n]]
    BY DEF ContentOK
<1> DEFINE c == PresetContent
           d == PresetContent'
<1>3. \A n \in PresetNames : d[n] = c[n]
    OBVIOUS
<1> HIDE DEF c, d
<1>4. [n \in PresetNames |-> d[n]] = [n \in PresetNames |-> c[n]]
    BY <1>3
<1> QED
    BY <1>1, <1>2, <1>4 DEF c, d

LEMMA StorePuts ==
    ASSUME ContentOK, ContentOK', NEW m \in PresetNames, NEW x,
           PresetContent'[m] = x,
           \A n \in PresetNames \ {m} : PresetContent'[n] = PresetContent[n]
    PROVE  Store!Put(m, x)
<1> DEFINE c == PresetContent
           d == PresetContent'
<1>1. d = [n \in PresetNames |-> d[n]] /\ c = [n \in PresetNames |-> c[n]]
    BY DEF ContentOK
<1>2. d[m] = x /\ \A n \in PresetNames \ {m} : d[n] = c[n]
    OBVIOUS
<1> HIDE DEF c, d
<1>3. d = [c EXCEPT ![m] = x]
    <2> DEFINE e == [c EXCEPT ![m] = x]
    <2>1. e = [n \in PresetNames |-> e[n]]
        BY <1>1
    <2>2. \A n \in PresetNames : e[n] = d[n]
        BY <1>1, <1>2
    <2> HIDE DEF e
    <2>3. e = d
        BY <1>1, <2>1, <2>2
    <2> QED
        BY <2>3 DEF e
<1> QED
    BY <1>3 DEF Store!Put, c, d

(* Nobody else writes a preset that a process stops writing.                *)
LEMMA OneWriter ==
    ASSUME StoreInv, NEW p \in Procs, pc[p] = "write", OnlyOf(p), pc'[p] # "write",
           NEW m, arg[p] = m
    PROVE  \A q \in Procs : ~Writing(q, m)'
<1> SUFFICES ASSUME NEW q \in Procs, pc'[q] = "write", arg'[q] = m PROVE FALSE
    BY DEF Writing
<1>1. q # p
    OBVIOUS
<1>2. pc[q] = "write" /\ arg[q] = m
    BY <1>1 DEF OnlyOf
<1> QED
    BY <1>1, <1>2 DEF StoreInv, SetPCs

LEMMA StoreStep ==
    StoreInv /\ StoreInv' /\ ContentOK /\ ContentOK' /\ [Next]_vars
        => [Store!Next]_PresetContent
<1> SUFFICES ASSUME StoreInv, StoreInv', ContentOK, ContentOK', [Next]_vars
             PROVE  Store!Next \/ UNCHANGED PresetContent
    OBVIOUS
<1>p. Setters \subseteq Procs /\ Readers \subseteq Procs
    BY DEF Procs
<1>q. "write" \in SetPCs
    BY DEF SetPCs
<1>1. ASSUME NEW p \in Procs, StartSet(p) PROVE UNCHANGED PresetContent
    <2>1. OnlyOf(p) /\ file' = file /\ pc[p] = "idle" /\ pc'[p] = "truncate"
        BY <1>1, StartSetIs
    <2>2. \A n \in PresetNames : ~Writing(p, n) /\ ~Writing(p, n)'
        BY <2>1 DEF Writing
    <2>3. \A n \in PresetNames : PresetContent'[n] = PresetContent[n]
        BY <2>1, <2>2, ContentKept
    <2> QED
        BY <2>3, StoreStutters
<1>2. ASSUME NEW p \in Procs, TruncateFile(p) PROVE Store!Next
    <2> DEFINE m == arg[p]
    <2>1. /\ pc[p] = "truncate" /\ pc'[p] = "write" /\ OnlyOf(p)
          /\ arg' = arg /\ kvs' = kvs /\ file' = [file EXCEPT ![m] = Torn]
        BY <1>2 DEF TruncateFile, Goto, OnlyOf, locals, StoreInv, TypeInv
    <2>2. m \in PresetNames /\ pc[p] \in SetPCs
        BY <2>1 DEF StoreInv, TypeInv, SetPCs
    <2>3. PresetContent'[m] = kvs[p]
        BY <2>1, <2>2 DEF ContentOK, Writing
    <2>4. ASSUME NEW n \in PresetNames \ {m} PROVE PresetContent'[n] = PresetContent[n]
        <3>1. file'[n] = file[n] /\ ~Writing(p, n) /\ ~Writing(p, n)'
            BY <2>1 DEF Writing, StoreInv, TypeInv
        <3> QED
            BY <2>1, <3>1, ContentKept
    <2>5. PresetContent[m] = file[m]
        <3>1. \A q \in Procs : ~Writing(q, m)
            BY <1>q, <2>1, <2>2 DEF Writing, StoreInv
        <3> QED
            BY <2>2, <3>1 DEF ContentOK
    <2>6. Store!Put(m, kvs[p])
        BY <2>2, <2>3, <2>4, StorePuts
    <2>7. Intended(p)
        BY <2>1 DEF StoreInv, SetOK
    <2>8. PICK pairs \in Lines :
              \/ kvs[p] = pairs
              \/ file[m] # Torn /\ kvs[p] = KeptPairs(m, FALSE) \o pairs
        BY <2>7 DEF Intended
    <2> HIDE DEF m
    <2>9. CASE kvs[p] = pairs
        <3>1. Store!Replace(m)
            BY <2>6, <2>9 DEF Store!Replace
        <3> QED
            BY <2>2, <3>1 DEF Store!Next
    <2>10. CASE file[m] # Torn /\ kvs[p] = KeptPairs(m, FALSE) \o pairs
        <3>1. KeptPairs(m, FALSE) =
                  (IF PresetContent[m] = Absent THEN <<>> ELSE PresetContent[m])
            BY <2>5 DEF KeptPairs
        <3>2. Store!Extend(m)
            BY <2>5, <2>6, <2>10, <3>1 DEF Store!Extend
        <3> QED
            BY <2>2, <3>2 DEF Store!Next
    <2> QED
        BY <2>8, <2>9, <2>10
<1>3. ASSUME NEW p \in Procs, WriteFile(p) PROVE UNCHANGED PresetContent
    <2>0. pc[p] = "write" /\ arg[p] \in PresetNames
        BY <1>3, <1>q DEF WriteFile, StoreInv, TypeInv
    <2>2. PICK m \in PresetNames : arg[p] = m
        BY <2>0
    <2>1. /\ pc[p] = "write" /\ pc'[p] = "idle" /\ OnlyOf(p)
          /\ file' = [file EXCEPT ![m] = kvs[p]]
        BY <1>3, <2>2 DEF WriteFile, Exit, Goto, OnlyOf, StoreInv, TypeInv
    <2>3. \A n : ~Writing(p, n)'
        BY <2>1 DEF Writing
    <2>4. PresetContent[m] = kvs[p]
        <3>1. Writing(p, m)
            BY <2>1, <2>2 DEF Writing
        <3> QED
            BY <3>1 DEF ContentOK
    <2>5. PresetContent'[m] = kvs[p]
        <3>1. \A q \in Procs : ~Writing(q, m)'
            BY <2>1, <2>2, OneWriter
        <3>2. file'[m] = kvs[p]
            BY <2>1, <2>2 DEF StoreInv, TypeInv
        <3> QED
            BY <2>2, <3>1, <3>2 DEF ContentOK
    <2>6. ASSUME NEW n \in PresetNames \ {m} PROVE PresetContent'[n] = PresetContent[n]
        <3>1. file'[n] = file[n] /\ ~Writing(p, n)
            BY <2>1, <2>2 DEF Writing, StoreInv, TypeInv
        <3> QED
            BY <2>1, <2>3, <3>1, ContentKept
    <2> QED
        BY <2>4, <2>5, <2>6, StoreStutters
<1>4. ASSUME NEW p \in Procs, RemovePreset(p) PROVE Store!Next
    <2>1. PICK m \in PresetNames : Untouched(m) /\ file' = [file EXCEPT ![m] = Absent]
        BY <1>4 DEF RemovePreset
    <2>2. pc[p] = "idle" /\ UNCHANGED <<pc, arg, kvs>>
        BY <1>4 DEF RemovePreset, locals
    <2>3. OnlyOf(p) /\ \A n : ~Writing(p, n) /\ ~Writing(p, n)'
        BY <2>2 DEF OnlyOf, Writing
    <2>4. PresetContent'[m] = Absent
        <3>1. \A q \in Procs : ~Writing(q, m)'
            BY <1>q, <2>1, <2>2 DEF Untouched, Writing
        <3>2. file'[m] = Absent
            BY <2>1 DEF StoreInv, TypeInv
        <3> QED
            BY <3>1, <3>2 DEF ContentOK
    <2>5. ASSUME NEW n \in PresetNames \ {m} PROVE PresetContent'[n] = PresetContent[n]
        <3>1. file'[n] = file[n]
            BY <2>1 DEF StoreInv, TypeInv
        <3> QED
            BY <2>3, <3>1, ContentKept
    <2>6. Store!Put(m, Absent)
        BY <2>4, <2>5, StorePuts
    <2> QED
        BY <2>6 DEF Store!Next, Store!Remove
<1>5. ASSUME NEW p \in Procs, OtherCommand(p) \/ Finish(p) \/ Die(p)
      PROVE  Store!Next \/ UNCHANGED PresetContent
    <2>1. OnlyOf(p) /\ file' = file /\ pc'[p] \notin SetPCs
        BY <1>5, LeavesStore DEF OtherCommand
    <2>2. \A n : ~Writing(p, n)'
        BY <1>q, <2>1 DEF Writing
    <2>3. CASE pc[p] # "write"
        <3>1. \A n \in PresetNames : PresetContent'[n] = PresetContent[n]
            BY <2>1, <2>2, <2>3, ContentKept DEF Writing
        <3> QED
            BY <3>1, StoreStutters
    <2>4. CASE pc[p] = "write"
        <3>0. arg[p] \in PresetNames
            BY <1>q, <2>4 DEF StoreInv, TypeInv
        <3>m. PICK m \in PresetNames : arg[p] = m
            BY <3>0
        <3>1. file[m] = Torn
            BY <2>4, <3>m DEF StoreInv, SetOK
        <3>2. PresetContent'[m] = Torn
            <4>1. \A q \in Procs : ~Writing(q, m)'
                <5>1. pc'[p] # "write"
                    BY <1>q, <2>1
                <5> QED
                    BY <2>1, <2>4, <3>m, <5>1, OneWriter
            <4> QED
                BY <2>1, <3>1, <4>1 DEF ContentOK
        <3>3. ASSUME NEW n \in PresetNames \ {m} PROVE PresetContent'[n] = PresetContent[n]
            <4>1. ~Writing(p, n)
                BY <3>m DEF Writing
            <4> QED
                BY <2>1, <2>2, <4>1, ContentKept
        <3>4. Store!Put(m, Torn)
            BY <3>1, <3>2, <3>3, StorePuts
        <3> QED
            BY <3>1, <3>4 DEF Store!Next, Store!Tear
    <2> QED
        BY <2>3, <2>4
<1>6. CASE UNCHANGED vars
    <2>1. UNCHANGED <<file, pc, arg, kvs>>
        BY <1>6 DEF vars, locals
    <2> QED
        BY <2>1 DEF PresetContent
<1> QED
    BY <1>p, <1>1, <1>2, <1>3, <1>4, <1>5, <1>6 DEF Next, PresetCommand

(* `uback preset' is a store of the lists of pairs users mean: through      *)
(* escaping, splitting, parsing, files that are read, truncated and written *)
(* in steps, and kills, a set command adds the pairs it was given or spoils *)
(* the preset visibly (cmd/preset.go, lib/options.go SplitOptions).         *)
THEOREM PresetsAreAStore == Spec => StoreSpec
<1>1. Init => Store!Init
    <2> SUFFICES ASSUME Init PROVE Store!Init
        OBVIOUS
    <2>1. file = [n \in PresetNames |-> Absent] /\ \A p \in Procs : pc[p] = "idle"
        BY DEF Init
    <2>2. PresetContent = [n \in PresetNames |-> file[n]]
        BY <2>1 DEF PresetContent
    <2>3. PresetContent = [n \in PresetNames |-> Absent]
        BY <2>1, <2>2
    <2> QED
        BY <2>3 DEF Store!Init
<1> QED
    BY <1>1, StoreInvariant, ContentIs, StoreStep, PTL DEF Spec, StoreSpec, Store!Spec

-----------------------------------------------------------------------------
(* Evaluation.                                                              *)

(* A concatenation of sequences begins with the first of them.              *)
LEMMA FlattenCons ==
    ASSUME NEW S, NEW a \in Seq(S), NEW ss \in Seq(Seq(S))
    PROVE  FlattenSeq(<<a>> \o ss) = a \o FlattenSeq(ss)
<1> DEFINE tt == <<a>> \o ss
           n == Len(ss)
<1>1. /\ tt \in Seq(Seq(S)) /\ Len(tt) = n + 1 /\ tt[1] = a
      /\ \A k \in 1 .. n : tt[k + 1] = ss[k] /\ ss[k] \in Seq(S)
      /\ n \in Nat
    <2>1. <<a>> \in Seq(Seq(S)) /\ Len(<<a>>) = 1 /\ <<a>>[1] = a
        OBVIOUS
    <2> QED
        BY <2>1, ConcatProperties
<1> HIDE DEF tt, n
<1>2. PICK pt \in [0 .. n + 1 -> Seq(S)] :
          /\ pt[0] = <<>>
          /\ \A k \in 1 .. n + 1 : pt[k] = pt[k - 1] \o tt[k]
          /\ FlattenSeq(tt) = pt[n + 1]
    <2>1. \E pt \in [0 .. Len(tt) -> Seq(S)] :
              /\ pt[0] = <<>>
              /\ \A k \in 1 .. Len(tt) : pt[k] = pt[k - 1] \o tt[k]
              /\ FlattenSeq(tt) = pt[Len(tt)]
        BY <1>1, FlattenSteps
    <2>2. Len(tt) = n + 1
        BY <1>1
    <2> QED
        BY <2>1, <2>2
<1>3. PICK ps \in [0 .. n -> Seq(S)] :
          /\ ps[0] = <<>>
          /\ \A k \in 1 .. n : ps[k] = ps[k - 1] \o ss[k]
          /\ FlattenSeq(ss) = ps[n]
    BY FlattenSteps DEF n
<1> DEFINE G == {k \in 0 .. n : pt[k + 1] = a \o ps[k]}
<1>4. 0 \in G
    <2>1. pt[0 + 1] = <<>> \o a
        <3>1. 1 \in 1 .. n + 1 /\ 1 - 1 = 0 /\ 0 + 1 = 1
            BY <1>1
        <3> QED
            BY <1>1, <1>2, <3>1
    <2>2. <<>> \o a = a \o <<>>
        BY ConcatEmptySeq
    <2>3. pt[0 + 1] = a \o ps[0]
        BY <1>3, <2>1, <2>2, Zenon
    <2>4. 0 \in 0 .. n
        BY <1>1
    <2> QED
        BY <2>3, <2>4, Zenon
<1>5. ASSUME NEW k \in 1 .. n, k - 1 \in G PROVE k \in G
    <2>1. k + 1 \in 1 .. n + 1 /\ (k + 1) - 1 = k /\ k - 1 \in 0 .. n /\ (k - 1) + 1 = k
        BY <1>1
    <2>2. pt[k + 1] = pt[k] \o ss[k]
        BY <1>1, <1>2, <2>1
    <2>3. pt[k] = a \o ps[k - 1]
        BY <1>5, <2>1
    <2>4. ps[k - 1] \in Seq(S) /\ ss[k] \in Seq(S)
        BY <1>1, <1>3, <2>1
    <2>5. (a \o ps[k - 1]) \o ss[k] = a \o (ps[k - 1] \o ss[k])
        <3> DEFINE x == ps[k - 1]
                   y == ss[k]
        <3>1. x \in Seq(S) /\ y \in Seq(S)
            BY <2>4
        <3> HIDE DEF x, y
        <3>2. (a \o x) \o y = a \o (x \o y)
            BY <3>1, ConcatAssociative, SMTT(30)
        <3> QED
            BY <3>2 DEF x, y
    <2>6. pt[k + 1] = a \o ps[k]
        BY <1>3, <2>2, <2>3, <2>5
    <2> QED
        BY <2>6
<1>6. n \in G
    <2>1. n \in 0 .. n
        BY <1>1
    <2> HIDE DEF G
    <2> QED
        BY <1>1, <1>4, <1>5, <2>1, UpTo
<1> QED
    BY <1>2, <1>3, <1>6 DEF tt

(* Sequences of one element each make up the sequence of them.              *)
LEMMA FlattenSingles ==
    ASSUME NEW S, NEW s \in Seq(S)
    PROVE  FlattenSeq([i \in 1 .. Len(s) |-> <<s[i]>>]) = s
<1> DEFINE ss == [i \in 1 .. Len(s) |-> <<s[i]>>]
<1>1. Len(s) \in Nat /\ \A i \in 1 .. Len(s) : s[i] \in S /\ <<s[i]>> \in Seq(S)
    OBVIOUS
<1>2. ss \in Seq(Seq(S)) /\ Len(ss) = Len(s)
    BY <1>1, IsASeq
<1> DEFINE n == Len(s)
<1>3. \A i \in 1 .. n : ss[i] = <<s[i]>>
    OBVIOUS
<1> HIDE DEF ss, n
<1>4. PICK part \in [0 .. n -> Seq(S)] :
          /\ part[0] = <<>>
          /\ \A k \in 1 .. n : part[k] = part[k - 1] \o ss[k]
          /\ FlattenSeq(ss) = part[n]
    <2>1. \E part \in [0 .. Len(ss) -> Seq(S)] :
              /\ part[0] = <<>>
              /\ \A k \in 1 .. Len(ss) : part[k] = part[k - 1] \o ss[k]
              /\ FlattenSeq(ss) = part[Len(ss)]
        BY <1>2, FlattenSteps
    <2> QED
        BY <1>2, <2>1 DEF n
<1>5. \A k \in 1 .. n : part[k] = Append(part[k - 1], s[k])
    <2> SUFFICES ASSUME NEW k \in 1 .. n PROVE part[k] = Append(part[k - 1], s[k])
        OBVIOUS
    <2>1. k - 1 \in 0 .. n
        BY <1>1 DEF n
    <2>2. part[k - 1] \in Seq(S) /\ s[k] \in S
        BY <1>1, <2>1 DEF n
    <2>3. part[k - 1] \o <<s[k]>> = Append(part[k - 1], s[k])
        BY <2>2, AppendIsConcat
    <2> QED
        BY <1>3, <1>4, <2>3
<1>6. part[n] = part[0] \o s
    BY <1>5, AppendsAll DEF n
<1>7. <<>> \o s = s
    BY ConcatEmptySeq
<1> QED
    BY <1>4, <1>6, <1>7 DEF ss, n

(* A text without templates renders to itself.                              *)
LEMMA RenderLiteral ==
    ASSUME NEW val \in Seq(Token), NEW given, ToSet(val) \cap DOMAIN Templates = {}
    PROVE  Render(val, given) = val
<1>1. \A i \in 1 .. Len(val) : val[i] \notin DOMAIN Templates
    BY DEF ToSet
<1>2. DOMAIN val = 1 .. Len(val)
    OBVIOUS
<1>3. Render(val, given) = FlattenSeq([i \in 1 .. Len(val) |-> <<val[i]>>])
    BY <1>1, <1>2 DEF Render
<1> QED
    BY <1>3, FlattenSingles

-----------------------------------------------------------------------------
(* What presets are replaced by.                                            *)

Found == [PresetNames -> Seq(Pair) \cup {Absent}]

LEMMA ExpansionType ==
    ASSUME NEW found \in Found, NEW pair \in Pair, NEW inner \in [Seq(Pair) -> Seq(Pair)]
    PROVE  Expansion(found, pair, inner) \in Seq(Pair)
<1>1. <<pair>> \in Seq(Pair) /\ <<>> \in Seq(Pair)
    OBVIOUS
<1>2. CASE pair.val \in PresetNames /\ found[pair.val] # Absent
    <2>1. found[pair.val] \in Seq(Pair)
        BY <1>2 DEF Found
    <2> QED
        BY <1>1, <2>1 DEF Expansion
<1> QED
    BY <1>1, <1>2 DEF Expansion

LEMMA SpliceType ==
    ASSUME NEW found \in Found, NEW pairs \in Seq(Pair), NEW inner \in [Seq(Pair) -> Seq(Pair)]
    PROVE  /\ [i \in 1 .. Len(pairs) |-> Expansion(found, pairs[i], inner)] \in Seq(Seq(Pair))
           /\ Splice(found, pairs, inner) \in Seq(Pair)
<1> DEFINE ss == [i \in 1 .. Len(pairs) |-> Expansion(found, pairs[i], inner)]
<1>1. Len(pairs) \in Nat /\ \A i \in 1 .. Len(pairs) : pairs[i] \in Pair
    OBVIOUS
<1>2. \A i \in 1 .. Len(pairs) : Expansion(found, pairs[i], inner) \in Seq(Pair)
    BY <1>1, ExpansionType
<1>3. ss \in Seq(Seq(Pair))
    BY <1>1, <1>2, IsASeq
<1>4. Splice(found, pairs, inner) = FlattenSeq(ss)
    BY DEF Splice
<1> HIDE DEF ss
<1>5. FlattenSeq(ss) \in Seq(Pair)
    BY <1>3, FlattenAt
<1> QED
    BY <1>3, <1>4, <1>5 DEF ss

(* The first pair's expansion comes first.                                  *)
LEMMA SpliceSteps ==
    ASSUME NEW found \in Found, NEW pairs \in Seq(Pair), NEW inner \in [Seq(Pair) -> Seq(Pair)]
    PROVE  /\ pairs = <<>> => Splice(found, pairs, inner) = <<>>
           /\ pairs # <<>> =>
                  Splice(found, pairs, inner) =
                      Expansion(found, Head(pairs), inner) \o Splice(found, Tail(pairs), inner)
<1>1. ASSUME pairs = <<>> PROVE Splice(found, pairs, inner) = <<>>
    <2> DEFINE ss == [i \in 1 .. Len(pairs) |-> Expansion(found, pairs[i], inner)]
    <2>1. ss = <<>>
        <3>1. Len(pairs) = 0 /\ 1 .. 0 = {}
            BY <1>1
        <3>2. ss \in Seq(Seq(Pair)) /\ Len(ss) = 0
            <4>1. ss \in Seq(Seq(Pair))
                BY SpliceType
            <4>2. DOMAIN ss = 1 .. 0
                BY <3>1
            <4> QED
                BY <3>1, <4>1, <4>2
        <3> HIDE DEF ss
        <3> QED
            BY <3>2, EmptySeq
    <2>2. Splice(found, pairs, inner) = FlattenSeq(ss)
        BY DEF Splice
    <2> HIDE DEF ss
    <2> QED
        BY <2>1, <2>2 DEF FlattenSeq
<1>2. ASSUME pairs # <<>>
      PROVE  Splice(found, pairs, inner) =
                 Expansion(found, Head(pairs), inner) \o Splice(found, Tail(pairs), inner)
    <2> DEFINE n == Len(pairs)
               E(i) == Expansion(found, pairs[i], inner)
               ss == [i \in 1 .. n |-> E(i)]
               tail == Tail(pairs)
               F(i) == Expansion(found, tail[i], inner)
               ts == [i \in 1 .. Len(tail) |-> F(i)]
               a == Expansion(found, Head(pairs), inner)
    <2>1. /\ n \in Nat /\ n >= 1 /\ tail \in Seq(Pair) /\ Len(tail) = n - 1
          /\ Head(pairs) = pairs[1] /\ Head(pairs) \in Pair
          /\ \A i \in 1 .. n - 1 : tail[i] = pairs[i + 1]
        BY <1>2, HeadTailProperties, EmptySeq
    <2>2. a \in Seq(Pair) /\ ss \in Seq(Seq(Pair)) /\ ts \in Seq(Seq(Pair)) /\ a = E(1)
          /\ Len(ss) = n /\ Len(ts) = n - 1
        <3>1. a \in Seq(Pair) /\ a = E(1)
            BY <2>1, ExpansionType
        <3>2. ss \in Seq(Seq(Pair))
            BY SpliceType
        <3>3. ts \in Seq(Seq(Pair))
            <4> HIDE DEF tail
            <4> QED
                BY <2>1, SpliceType
        <3>4. Len(ss) = n /\ Len(ts) = n - 1
            <4> HIDE DEF E, F, tail, n
            <4> QED
                BY <2>1
        <3> QED
            BY <3>1, <3>2, <3>3, <3>4
    <2>3. \A i \in 1 .. n - 1 : ts[i] = ss[i + 1]
        <3> SUFFICES ASSUME NEW i \in 1 .. n - 1 PROVE ts[i] = ss[i + 1]
            OBVIOUS
        <3>1. ts[i] = F(i) /\ ss[i + 1] = E(i + 1)
            <4>1. i \in 1 .. Len(tail) /\ i + 1 \in 1 .. n
                BY <2>1
            <4> HIDE DEF E, F, tail, n
            <4> QED
                BY <4>1
        <3>2. F(i) = E(i + 1)
            BY <2>1
        <3> QED
            BY <3>1, <3>2
    <2>4. ss[1] = a
        <3>1. 1 \in 1 .. n
            BY <2>1
        <3> HIDE DEF E, n
        <3> QED
            BY <2>2, <3>1
    <2>5. Splice(found, pairs, inner) = FlattenSeq(ss)
          /\ Splice(found, tail, inner) = FlattenSeq(ts)
        BY DEF Splice
    <2> HIDE DEF ss, ts, a, n, tail
    <2>6. ss = <<a>> \o ts
        <3>1. <<a>> \in Seq(Seq(Pair)) /\ Len(<<a>>) = 1 /\ <<a>>[1] = a
            BY <2>2
        <3> DEFINE us == <<a>> \o ts
        <3>2. us \in Seq(Seq(Pair)) /\ Len(us) = n
              /\ \A i \in 1 .. n : us[i] = IF i <= 1 THEN a ELSE ts[i - 1]
            <4>0. 1 + (n - 1) = n
                BY <2>1
            <4>1. /\ us \in Seq(Seq(Pair)) /\ Len(us) = 1 + (n - 1)
                  /\ \A i \in 1 .. 1 + (n - 1) : us[i] = IF i <= 1 THEN <<a>>[i] ELSE ts[i - 1]
                <5> DEFINE one == <<a>>
                <5>1. one \in Seq(Seq(Pair)) /\ Len(one) = 1
                    BY <3>1
                <5> HIDE DEF one
                <5> QED
                    BY <2>2, <5>1, ConcatProperties DEF one
            <4> QED
                BY <2>1, <3>1, <4>0, <4>1
        <3>3. \A i \in 1 .. n : ss[i] = us[i]
            <4> SUFFICES ASSUME NEW i \in 1 .. n PROVE ss[i] = us[i]
                OBVIOUS
            <4>1. CASE i = 1
                BY <2>4, <3>2, <4>1
            <4>2. CASE i # 1
                <5>1. i - 1 \in 1 .. n - 1 /\ (i - 1) + 1 = i /\ ~(i <= 1)
                    BY <2>1, <4>2
                <5> QED
                    BY <2>3, <3>2, <5>1
            <4> QED
                BY <4>1, <4>2
        <3> HIDE DEF us
        <3> QED
            BY <2>2, <3>2, <3>3, SeqEqual DEF us
    <2>7. FlattenSeq(ss) = a \o FlattenSeq(ts)
        BY <2>2, <2>6, FlattenCons
    <2> QED
        BY <2>5, <2>7 DEF a, tail
<1> QED
    BY <1>1, <1>2

(* Presets that include each other down to a depth are replaced.            *)
LEMMA SplicedIs ==
    ASSUME NEW found \in Found
    PROVE  /\ Spliced(found) \in [0 .. MaxDepth + 1 -> [Seq(Pair) -> Seq(Pair)]]
           /\ \A d \in 1 .. MaxDepth + 1 : \A pairs \in Seq(Pair) :
                  Spliced(found)[d][pairs] = Splice(found, pairs, Spliced(found)[d - 1])
<1> DEFINE n == MaxDepth + 1
           A == [Seq(Pair) -> Seq(Pair)]
           start == [pairs \in Seq(Pair) |-> <<>>]
           Next1(inner) == [pairs \in Seq(Pair) |-> Splice(found, pairs, inner)]
           Step == [d \in 1 .. n |-> [inner \in A |-> Next1(inner)]]
           Eqn(f) == f = [d \in 0 .. n |-> [pairs \in Seq(Pair) |->
                              IF d = 0 THEN <<>> ELSE Splice(found, pairs, f[d - 1])]]
           sub == CHOOSE f : Eqn(f)
<1>1. n \in Nat /\ start \in A
    <2>1. MaxDepth \in Nat
        BY PresetsAssumption
    <2>2. start \in A
        OBVIOUS
    <2> HIDE DEF start, A
    <2> QED
        BY <2>1, <2>2
<1>2. \A inner \in A : Next1(inner) \in A
    BY SpliceType
<1>3. Step \in [1 .. n -> [A -> A]]
    <2> HIDE DEF Next1, A, n
    <2> QED
        BY <1>2
<1>4. PICK f \in [0 .. n -> A] : IsRun(f, n, start, Step)
    <2> HIDE DEF n, A, Step, start
    <2> QED
        BY <1>1, <1>3, LoopRuns
<1>5. \A d \in 1 .. n : d - 1 \in 0 .. n /\ f[d - 1] \in A /\ f[d] = Next1(f[d - 1])
    <2> SUFFICES ASSUME NEW d \in 1 .. n
                 PROVE  d - 1 \in 0 .. n /\ f[d - 1] \in A /\ f[d] = Next1(f[d - 1])
        OBVIOUS
    <2>1. d - 1 \in 0 .. n
        BY <1>1
    <2> HIDE DEF A, Next1, n
    <2>2. f[d - 1] \in A
        BY <2>1
    <2> QED
        BY <1>4, <2>1, <2>2 DEF IsRun
<1>6. f[0] = start
    BY <1>4 DEF IsRun
<1>7. Eqn(f)
    <2> DEFINE R(d) == [pairs \in Seq(Pair) |->
                              IF d = 0 THEN <<>> ELSE Splice(found, pairs, f[d - 1])]
    <2>1. ASSUME NEW d \in 0 .. n PROVE f[d] = R(d)
        <3>1. CASE d = 0
            <4>1. R(0) = start
                OBVIOUS
            <4> QED
                BY <1>6, <3>1, <4>1
        <3>2. CASE d # 0
            <4>1. d \in 1 .. n
                BY <1>1, <3>2
            <4>2. f[d] = Next1(f[d - 1])
                BY <1>5, <4>1
            <4>3. R(d) = Next1(f[d - 1])
                BY <3>2
            <4> QED
                BY <4>2, <4>3
        <3> QED
            BY <3>1, <3>2
    <2> HIDE DEF R, n, A
    <2>2. f = [d \in 0 .. n |-> R(d)]
        BY <2>1
    <2> QED
        BY <2>2 DEF R
<1>8. Spliced(found) = sub
    BY DEF Spliced
<1>9. Eqn(sub)
    BY <1>7
<1> HIDE DEF sub, n
<1> DEFINE R(d) == [pairs \in Seq(Pair) |->
                              IF d = 0 THEN <<>> ELSE Splice(found, pairs, sub[d - 1])]
<1>10. \A d \in 0 .. n : sub[d] = R(d)
    <2>1. sub = [d \in 0 .. n |-> R(d)]
        BY <1>9
    <2> HIDE DEF R
    <2> QED
        BY <2>1
<1>11. \A d \in 1 .. n : sub[d] = Next1(sub[d - 1])
    <2> SUFFICES ASSUME NEW d \in 1 .. n PROVE sub[d] = Next1(sub[d - 1])
        OBVIOUS
    <2>1. d \in 0 .. n /\ d # 0
        BY <1>1
    <2>2. R(d) = Next1(sub[d - 1])
        BY <2>1
    <2> HIDE DEF R, Next1
    <2> QED
        BY <1>10, <2>1, <2>2
<1> DEFINE G == {d \in 0 .. n : sub[d] \in A}
<1>12. 0 \in G
    <2>1. R(0) = start
        OBVIOUS
    <2>2. 0 \in 0 .. n
        BY <1>1
    <2> HIDE DEF R, start, A
    <2> QED
        BY <1>1, <1>10, <2>1, <2>2
<1>13. \A d \in 1 .. n : d - 1 \in G => d \in G
    <2> HIDE DEF Next1, A
    <2> QED
        BY <1>1, <1>2, <1>11
<1>14. \A d \in 0 .. n : d \in G
    <2> HIDE DEF G
    <2> QED
        BY <1>1, <1>12, <1>13, UpTo
<1>15. sub \in [0 .. n -> A]
    <2>1. sub = [d \in 0 .. n |-> R(d)]
        BY <1>9
    <2> HIDE DEF R, A
    <2>2. \A d \in 0 .. n : R(d) \in A
        BY <1>10, <1>14
    <2> QED
        BY <2>1, <2>2
<1> QED
    BY <1>8, <1>11, <1>15 DEF n

-----------------------------------------------------------------------------
(* What a list of pairs without presets means.                              *)

Strings == [Keys -> Seq(Token)]

Slices == [Keys -> Seq(Seq(Token))]

(* What evaluating a pair makes of the values so far.                       *)
NextStrings(str, pair) ==
    IF pair.at THEN str ELSE [str EXCEPT ![pair.key] = Render(pair.val, str)]

NextSlices(sl, pair, str) ==
    IF pair.at THEN [sl EXCEPT ![pair.key] = Append(@, Render(pair.val, str))] ELSE sl

Evaluation(flat, env, sls) ==
    /\ env[0] = NoStrings /\ sls[0] = NoSlices
    /\ \A i \in 1 .. Len(flat) :
           /\ env[i] = NextStrings(env[i - 1], flat[i])
           /\ sls[i] = NextSlices(sls[i - 1], flat[i], env[i - 1])

(* Evaluated pair by pair, the list gives these values.                     *)
Evaluated(flat, str, sl) ==
    \E env \in [0 .. Len(flat) -> Strings], sls \in [0 .. Len(flat) -> Slices] :
        /\ Evaluation(flat, env, sls)
        /\ env[Len(flat)] = str
        /\ sls[Len(flat)] = sl

LEMMA NextTypes ==
    ASSUME NEW str \in Strings, NEW sl \in Slices, NEW pair \in Pair
    PROVE  /\ Render(pair.val, str) \in Seq(Token)
           /\ NextStrings(str, pair) \in Strings
           /\ NextSlices(sl, pair, str) \in Slices
<1>1. pair.key \in Keys /\ pair.val \in Seq(Token) /\ pair.at \in BOOLEAN
    BY DEF Pair
<1> DEFINE v == Render(pair.val, str)
<1>2. v \in Seq(Token)
    BY <1>1, RenderType DEF Strings
<1> HIDE DEF v
<1>3. Append(sl[pair.key], v) \in Seq(Seq(Token))
    <2>1. sl[pair.key] \in Seq(Seq(Token))
        BY <1>1 DEF Slices
    <2> QED
        BY <1>2, <2>1, AppendProperties
<1>4. [str EXCEPT ![pair.key] = v] \in Strings
    BY <1>1, <1>2 DEF Strings
<1>5. [sl EXCEPT ![pair.key] = Append(sl[pair.key], v)] \in Slices
    BY <1>1, <1>3 DEF Slices
<1>6. NextStrings(str, pair) \in Strings
    BY <1>4 DEF NextStrings, v
<1>7. NextSlices(sl, pair, str) \in Slices
    BY <1>5 DEF NextSlices, v
<1> QED
    BY <1>2, <1>6, <1>7 DEF v

(* The places of the plain values of a key among the first n pairs.         *)
Places(flat, k, n) == {j \in 1 .. n : flat[j].key = k /\ ~flat[j].at}

LEMMA GivenAt ==
    ASSUME NEW flat, NEW value, NEW n \in Nat, NEW k \in Keys
    PROVE  /\ Places(flat, k, n) = {} => Given(flat, value, n)[k] = NoValue
           /\ Places(flat, k, n) # {} =>
                  /\ Last0(Places(flat, k, n)) \in 1 .. n
                  /\ Given(flat, value, n)[k] = value[Last0(Places(flat, k, n))]
<1> DEFINE S == Places(flat, k, n)
<1>1. Given(flat, value, n)[k] = IF S = {} THEN NoValue ELSE value[Last0(S)]
    BY DEF Given, Places
<1>2. S \in SUBSET Nat /\ S \subseteq 1 .. n /\ IsFiniteSet(S)
    <2>1. S \subseteq 1 .. n
        BY DEF Places
    <2>2. IsFiniteSet(1 .. n)
        BY FS_Interval
    <2> HIDE DEF S
    <2>3. IsFiniteSet(S)
        BY <2>1, <2>2, FS_Subset
    <2> QED
        BY <2>1, <2>3
<1> HIDE DEF S
<1>3. ASSUME S # {} PROVE Last0(S) \in 1 .. n
    <2>1. PICK m \in S : \A j \in S : j <= m
        BY <1>2, <1>3, GreatestElement
    <2> QED
        BY <1>2, <2>1, LastIs
<1> QED
    BY <1>1, <1>3 DEF S

LEMMA GivenIs ==
    ASSUME NEW flat, NEW value, NEW n
    PROVE  Given(flat, value, n) = [k \in Keys |-> Given(flat, value, n)[k]]
BY DEF Given

(* The values given are those the loop has.                                 *)
LEMMA GivenSteps ==
    ASSUME NEW flat \in Seq(Pair), NEW env \in [0 .. Len(flat) -> Strings],
           env[0] = NoStrings,
           \A i \in 1 .. Len(flat) : env[i] = NextStrings(env[i - 1], flat[i]),
           NEW value, \A i \in 1 .. Len(flat) : value[i] = Render(flat[i].val, env[i - 1])
    PROVE  \A m \in 0 .. Len(flat) : Given(flat, value, m) = env[m]
<1> DEFINE n == Len(flat)
           G == {m \in 0 .. n : Given(flat, value, m) = env[m]}
<1>1. n \in Nat /\ \A i \in 1 .. n : flat[i] \in Pair
    OBVIOUS
<1>2. 0 \in G
    <2>1. \A k \in Keys : Places(flat, k, 0) = {}
        BY DEF Places
    <2>2. \A k \in Keys : Given(flat, value, 0)[k] = NoValue
        BY <2>1, GivenAt
    <2>3. Given(flat, value, 0) = NoStrings
        BY <2>2, GivenIs DEF NoStrings
    <2>4. 0 \in 0 .. n
        BY <1>1
    <2> HIDE DEF n
    <2> QED
        BY <2>3, <2>4
<1>3. ASSUME NEW m \in 1 .. n, m - 1 \in G PROVE m \in G
    <2> DEFINE pair == flat[m]
               old == env[m - 1]
    <2>1. /\ m - 1 \in 0 .. n /\ m \in 0 .. n /\ m - 1 \in Nat /\ m \in Nat /\ m >= 1
          /\ pair \in Pair /\ Given(flat, value, m - 1) = old
          /\ env[m] = NextStrings(old, pair) /\ value[m] = Render(pair.val, old)
        BY <1>1, <1>3
    <2>2. old \in Strings /\ pair.key \in Keys /\ pair.at \in BOOLEAN
        <3>1. old \in Strings
            BY <2>1
        <3> HIDE DEF pair, old
        <3> QED
            BY <2>1, <3>1 DEF Pair
    <2> HIDE DEF n, old
    <2>3. ASSUME NEW k \in Keys, pair.at \/ k # pair.key
          PROVE  Given(flat, value, m)[k] = old[k]
        <3>1. Places(flat, k, m) = Places(flat, k, m - 1)
            <4>1. \A j : j \in 1 .. m <=> j \in 1 .. m - 1 \/ j = m
                BY <2>1
            <4>2. ~(flat[m].key = k /\ ~flat[m].at)
                BY <2>3
            <4> QED
                BY <4>1, <4>2 DEF Places
        <3>2. Given(flat, value, m)[k] = Given(flat, value, m - 1)[k]
            BY <2>1, <3>1, GivenAt
        <3> QED
            BY <2>1, <3>2
    <2>4. ASSUME ~pair.at PROVE Given(flat, value, m)[pair.key] = value[m]
        <3> DEFINE S == Places(flat, pair.key, m)
        <3>1. S \in SUBSET Nat /\ m \in S /\ \A j \in S : j <= m
            BY <2>1, <2>4 DEF Places
        <3> HIDE DEF S
        <3>2. Last0(S) = m /\ S # {}
            BY <3>1, LastIs
        <3> QED
            BY <2>1, <2>2, <3>2, GivenAt DEF S
    <2>5. \A k \in Keys : Given(flat, value, m)[k] = env[m][k]
        <3>1. CASE pair.at
            BY <2>1, <2>3, <3>1 DEF NextStrings
        <3>2. CASE ~pair.at
            <4>1. env[m] = [old EXCEPT ![pair.key] = value[m]]
                BY <2>1, <3>2 DEF NextStrings
            <4>2. \A k \in Keys : env[m][k] = IF k = pair.key THEN value[m] ELSE old[k]
                BY <2>2, <4>1 DEF Strings
            <4> HIDE DEF pair
            <4> QED
                BY <2>3, <2>4, <3>2, <4>2
        <3> QED
            BY <3>1, <3>2
    <2>6. env[m] \in Strings
        BY <2>1 DEF n
    <2>7. env[m] = [k \in Keys |-> env[m][k]]
        BY <2>6 DEF Strings
    <2>8. Given(flat, value, m) = env[m]
        <3> DEFINE g == Given(flat, value, m)
                   e == env[m]
        <3>1. g = [k \in Keys |-> g[k]] /\ e = [k \in Keys |-> e[k]]
              /\ \A k \in Keys : g[k] = e[k]
            BY <2>5, <2>7, GivenIs
        <3> HIDE DEF g, e
        <3>2. g = e
            BY <3>1
        <3> QED
            BY <3>2 DEF g, e
    <2> QED
        BY <2>1, <2>8
<1>4. \A m \in 0 .. n : m \in G
    <2> HIDE DEF G, n
    <2> QED
        BY <1>1, <1>2, <1>3, UpTo
<1> QED
    BY <1>4

(* What values are given depends on the values before only.                 *)
LEMMA GivenBefore ==
    ASSUME NEW flat, NEW n \in Nat, NEW v, NEW w, \A i \in 1 .. n : v[i] = w[i]
    PROVE  Given(flat, v, n) = Given(flat, w, n)
<1>1. ASSUME NEW k \in Keys PROVE Given(flat, v, n)[k] = Given(flat, w, n)[k]
    <2>1. CASE Places(flat, k, n) = {}
        BY <2>1, GivenAt
    <2>2. CASE Places(flat, k, n) # {}
        <3> DEFINE i == Last0(Places(flat, k, n))
        <3>1. i \in 1 .. n /\ Given(flat, v, n)[k] = v[i] /\ Given(flat, w, n)[k] = w[i]
            BY <2>2, GivenAt
        <3> HIDE DEF i
        <3> QED
            BY <3>1
    <2> QED
        BY <2>1, <2>2
<1> DEFINE g == Given(flat, v, n)
           h == Given(flat, w, n)
<1>2. g = [k \in Keys |-> g[k]] /\ h = [k \in Keys |-> h[k]]
    BY GivenIs
<1>3. \A k \in Keys : g[k] = h[k]
    BY <1>1
<1> HIDE DEF g, h
<1>4. g = h
    BY <1>2, <1>3
<1> QED
    BY <1>4 DEF g, h

(* The strings that the loop gathers under a key are all the values of it.  *)
LEMMA SlicesAre ==
    ASSUME NEW flat \in Seq(Pair), NEW env \in [0 .. Len(flat) -> Strings],
           NEW sls \in [0 .. Len(flat) -> Slices], Evaluation(flat, env, sls),
           NEW value, \A i \in 1 .. Len(flat) : value[i] = Render(flat[i].val, env[i - 1]),
           NEW k \in Keys
    PROVE  FlattenSeq([i \in 1 .. Len(flat) |->
               IF flat[i].at /\ flat[i].key = k THEN <<value[i]>> ELSE <<>>])
           = sls[Len(flat)][k]
<1> DEFINE n == Len(flat)
           T == Seq(Token)
           E(i) == IF flat[i].at /\ flat[i].key = k THEN <<value[i]>> ELSE <<>>
           ss == [i \in 1 .. n |-> E(i)]
<1>1. /\ n \in Nat
      /\ \A i \in 1 .. n : /\ flat[i] \in Pair /\ i - 1 \in 0 .. n /\ i \in 0 .. n
                            /\ env[i - 1] \in Strings /\ sls[i - 1] \in Slices
    <2>1. n \in Nat /\ \A i \in 1 .. n : flat[i] \in Pair /\ i - 1 \in 0 .. n /\ i \in 0 .. n
        OBVIOUS
    <2> QED
        BY <2>1
<1>2. \A i \in 1 .. n : value[i] \in T
    <2> SUFFICES ASSUME NEW i \in 1 .. n PROVE value[i] \in T
        OBVIOUS
    <2>1. flat[i] \in Pair /\ env[i - 1] \in Strings /\ sls[i - 1] \in Slices
        BY <1>1
    <2>2. Render(flat[i].val, env[i - 1]) \in Seq(Token)
        BY <2>1, NextTypes, Zenon
    <2> QED
        BY <2>2
<1>3. \A i \in 1 .. n : E(i) \in Seq(T)
    <2>1. \A x \in T : <<x>> \in Seq(T)
        <3> HIDE DEF T
        <3> QED
            OBVIOUS
    <2> QED
        BY <1>2, <2>1
<1>4. ss \in Seq(Seq(T)) /\ Len(ss) = n
    <2> HIDE DEF E, T, n
    <2> QED
        BY <1>1, <1>3, IsASeq
<1>5. \A i \in 1 .. n : ss[i] = E(i)
    OBVIOUS
<1> HIDE DEF ss, T
<1>6. PICK part \in [0 .. n -> Seq(T)] :
          /\ part[0] = <<>>
          /\ \A i \in 1 .. n : part[i] = part[i - 1] \o ss[i]
          /\ FlattenSeq(ss) = part[n]
    <2>1. \E part \in [0 .. Len(ss) -> Seq(T)] :
              /\ part[0] = <<>>
              /\ \A i \in 1 .. Len(ss) : part[i] = part[i - 1] \o ss[i]
              /\ FlattenSeq(ss) = part[Len(ss)]
        BY <1>4, FlattenSteps
    <2> QED
        BY <1>4, <2>1
<1> DEFINE G == {i \in 0 .. n : part[i] = sls[i][k]}
<1>7. 0 \in G
    <2>1. sls[0][k] = <<>>
        BY DEF Evaluation, NoSlices
    <2>2. 0 \in 0 .. n
        BY <1>1
    <2> HIDE DEF n
    <2> QED
        BY <1>6, <2>1, <2>2
<1>8. ASSUME NEW i \in 1 .. n, i - 1 \in G PROVE i \in G
    <2> DEFINE pair == flat[i]
               old == sls[i - 1]
    <2>1. /\ pair \in Pair /\ old \in Slices /\ part[i - 1] = old[k]
          /\ sls[i] = NextSlices(old, pair, env[i - 1])
          /\ value[i] = Render(pair.val, env[i - 1])
          /\ part[i] = old[k] \o E(i) /\ value[i] \in T /\ i \in 0 .. n
        BY <1>1, <1>2, <1>5, <1>6, <1>8 DEF Evaluation
    <2>2. old[k] \in Seq(T) /\ pair.key \in Keys
        <3> HIDE DEF old, pair
        <3> QED
            BY <2>1 DEF Slices, Pair, T
    <2> HIDE DEF old
    <2>3. CASE pair.at /\ pair.key = k
        <3>1. sls[i] = [old EXCEPT ![k] = Append(old[k], value[i])]
            BY <2>1, <2>3 DEF NextSlices
        <3>2. sls[i][k] = Append(old[k], value[i])
            BY <2>1, <3>1 DEF Slices
        <3>3. Append(old[k], value[i]) = old[k] \o <<value[i]>>
            BY <2>1, <2>2, AppendIsConcat
        <3> QED
            BY <2>1, <2>3, <3>2, <3>3
    <2>4. CASE ~(pair.at /\ pair.key = k)
        <3>1. sls[i][k] = old[k]
            <4>1. CASE pair.at
                <5>1. sls[i] = [old EXCEPT ![pair.key] = Append(@, value[i])]
                    BY <2>1, <4>1 DEF NextSlices
                <5>2. pair.key # k
                    BY <2>4, <4>1
                <5> HIDE DEF pair
                <5> QED
                    BY <2>1, <5>1, <5>2 DEF Slices
            <4>2. CASE ~pair.at
                BY <2>1, <4>2 DEF NextSlices
            <4> QED
                BY <4>1, <4>2
        <3>2. E(i) = <<>>
            BY <2>4
        <3>3. old[k] \o <<>> = old[k]
            BY <2>2, ConcatEmptySeq
        <3> QED
            BY <2>1, <3>1, <3>2, <3>3
    <2> QED
        BY <2>3, <2>4
<1>9. n \in G
    <2>1. n \in 0 .. n
        BY <1>1
    <2> HIDE DEF G, n
    <2> QED
        BY <1>1, <1>7, <1>8, <2>1, UpTo
<1> QED
    BY <1>6, <1>9 DEF ss

(* Evaluating pair by pair gives what the list means.                       *)
LEMMA MeaningIs ==
    ASSUME NEW flat \in Seq(Pair), NEW str, NEW sl, Evaluated(flat, str, sl)
    PROVE  [strings |-> str, slices |-> sl] = Meaning(flat)
<1> DEFINE n == Len(flat)
<1>1. PICK env \in [0 .. n -> Strings], sls \in [0 .. n -> Slices] :
          Evaluation(flat, env, sls) /\ env[n] = str /\ sls[n] = sl
    BY DEF Evaluated
<1>2. n \in Nat
    OBVIOUS
<1> DEFINE val == [i \in 1 .. n |-> Render(flat[i].val, env[i - 1])]
           Eqn(f) == f = [i \in 1 .. n |-> Render(flat[i].val, Given(flat, f, i - 1))]
           value == CHOOSE f : Eqn(f)
<1>3. \A m \in 0 .. n : Given(flat, val, m) = env[m]
    <2>1. \A i \in 1 .. n : val[i] = Render(flat[i].val, env[i - 1])
        OBVIOUS
    <2> HIDE DEF val
    <2> QED
        BY <1>1, <2>1, GivenSteps DEF Evaluation
<1>4. Eqn(val)
    <2>1. \A i \in 1 .. n : i - 1 \in 0 .. n
        BY <1>2
    <2>2. \A i \in 1 .. n : val[i] = Render(flat[i].val, Given(flat, val, i - 1))
        BY <1>3, <2>1
    <2>3. val = [i \in 1 .. n |-> val[i]]
        OBVIOUS
    <2> HIDE DEF val
    <2> QED
        BY <2>2, <2>3
<1>5. Eqn(value)
    BY <1>4
<1> HIDE DEF val, value, n
<1> DEFINE G == {m \in 0 .. n : \A i \in 1 .. m : value[i] = val[i]}
<1>6. 0 \in G
    BY <1>2
<1>7. ASSUME NEW m \in 1 .. n, m - 1 \in G PROVE m \in G
    <2>1. m - 1 \in Nat /\ m \in 0 .. n /\ \A i \in 1 .. m : i \in 1 .. m - 1 \/ i = m
        BY <1>2
    <2>2. Given(flat, value, m - 1) = Given(flat, val, m - 1)
        BY <1>7, <2>1, GivenBefore
    <2>3. /\ value[m] = Render(flat[m].val, Given(flat, value, m - 1))
          /\ val[m] = Render(flat[m].val, Given(flat, val, m - 1))
        BY <1>4, <1>5
    <2> QED
        BY <1>7, <2>1, <2>2, <2>3
<1>8. n \in G
    <2>1. n \in 0 .. n
        BY <1>2
    <2> HIDE DEF G
    <2> QED
        BY <1>2, <1>6, <1>7, <2>1, UpTo
<1>9. value = val
    <2>1. value = [i \in 1 .. n |-> value[i]] /\ val = [i \in 1 .. n |-> val[i]]
        BY <1>4, <1>5
    <2>2. \A i \in 1 .. n : value[i] = val[i]
        BY <1>8
    <2> QED
        BY <2>1, <2>2
<1>10. Meaning(flat) =
           [strings |-> Given(flat, val, n),
            slices |-> [k \in Keys |->
                FlattenSeq([i \in 1 .. n |->
                    IF flat[i].at /\ flat[i].key = k THEN <<val[i]>> ELSE <<>>])]]
    <2>1. Meaning(flat) =
           [strings |-> Given(flat, value, n),
            slices |-> [k \in Keys |->
                FlattenSeq([i \in 1 .. n |->
                    IF flat[i].at /\ flat[i].key = k THEN <<value[i]>> ELSE <<>>])]]
        BY DEF Meaning, value, n
    <2> QED
        BY <1>9, <2>1
<1>11. Given(flat, val, n) = str
    <2>1. n \in 0 .. n
        BY <1>2
    <2> QED
        BY <1>1, <1>3, <2>1
<1>12. \A i \in 1 .. n : val[i] = Render(flat[i].val, env[i - 1])
    BY DEF val
<1> DEFINE Q(k) == FlattenSeq([i \in 1 .. n |->
                       IF flat[i].at /\ flat[i].key = k THEN <<val[i]>> ELSE <<>>])
<1>13. \A k \in Keys : Q(k) = sl[k]
    BY <1>1, <1>12, SlicesAre DEF n
<1>14. sl = [k \in Keys |-> sl[k]]
    <2>1. n \in 0 .. n
        BY <1>2
    <2>2. sl \in Slices
        BY <1>1, <2>1
    <2> QED
        BY <2>2 DEF Slices
<1>15. Meaning(flat) = [strings |-> Given(flat, val, n), slices |-> [k \in Keys |-> Q(k)]]
    BY <1>10
<1> HIDE DEF Q
<1> QED
    BY <1>11, <1>13, <1>14, <1>15

LEMMA EvaluatedNothing == Evaluated(<<>>, NoStrings, NoSlices)
<1> DEFINE env == [i \in 0 .. 0 |-> NoStrings]
           sls == [i \in 0 .. 0 |-> NoSlices]
<1>1. env \in [0 .. 0 -> Strings] /\ sls \in [0 .. 0 -> Slices]
    BY Ground DEF Strings, Slices
<1>2. env[0] = NoStrings /\ sls[0] = NoSlices /\ Len(<<>>) = 0 /\ 1 .. 0 = {}
    OBVIOUS
<1> HIDE DEF env, sls
<1>3. Evaluation(<<>>, env, sls)
    BY <1>2 DEF Evaluation
<1> QED
    BY <1>1, <1>2, <1>3 DEF Evaluated

LEMMA EvaluatedNext ==
    ASSUME NEW flat \in Seq(Pair), NEW str, NEW sl, Evaluated(flat, str, sl), NEW pair \in Pair
    PROVE  Evaluated(Append(flat, pair), NextStrings(str, pair), NextSlices(sl, pair, str))
<1> DEFINE n == Len(flat)
           new == Append(flat, pair)
           str1 == NextStrings(str, pair)
           sl1 == NextSlices(sl, pair, str)
<1>1. PICK env \in [0 .. n -> Strings], sls \in [0 .. n -> Slices] :
          Evaluation(flat, env, sls) /\ env[n] = str /\ sls[n] = sl
    BY DEF Evaluated
<1>2. /\ n \in Nat /\ Len(new) = n + 1 /\ new[n + 1] = pair
      /\ \A i \in 1 .. n : new[i] = flat[i]
    BY AppendProperties
<1> DEFINE env1 == [i \in 0 .. n + 1 |-> IF i = n + 1 THEN str1 ELSE env[i]]
           sls1 == [i \in 0 .. n + 1 |-> IF i = n + 1 THEN sl1 ELSE sls[i]]
<1> HIDE DEF new, n
<1>3. str1 \in Strings /\ sl1 \in Slices
    <2>1. n \in 0 .. n
        BY <1>2
    <2>2. str \in Strings /\ sl \in Slices
        BY <1>1, <2>1
    <2> QED
        BY <2>2, NextTypes
<1>4. \A i \in 0 .. n : i \in 0 .. n + 1 /\ i # n + 1
    BY <1>2
<1>5. /\ 0 \in 0 .. n /\ n \in 0 .. n /\ n + 1 \in 0 .. n + 1 /\ (n + 1) - 1 = n
      /\ \A i \in 1 .. n : i \in 0 .. n /\ i - 1 \in 0 .. n
      /\ \A i \in 1 .. n + 1 : i \in 1 .. n \/ i = n + 1
      /\ \A i \in 0 .. n + 1 : i \in 0 .. n \/ i = n + 1
    BY <1>2
<1> HIDE DEF str1, sl1
<1>6. /\ env1 \in [0 .. n + 1 -> Strings] /\ sls1 \in [0 .. n + 1 -> Slices]
      /\ env1[n + 1] = str1 /\ sls1[n + 1] = sl1
      /\ \A i \in 0 .. n : env1[i] = env[i] /\ sls1[i] = sls[i]
    BY <1>3, <1>4, <1>5
<1> HIDE DEF env1, sls1
<1>7. Evaluation(new, env1, sls1)
    <2>1. env1[0] = NoStrings /\ sls1[0] = NoSlices
        BY <1>1, <1>5, <1>6 DEF Evaluation
    <2>2. ASSUME NEW i \in 1 .. n + 1
          PROVE  /\ env1[i] = NextStrings(env1[i - 1], new[i])
                 /\ sls1[i] = NextSlices(sls1[i - 1], new[i], env1[i - 1])
        <3>1. CASE i = n + 1
            <4>1. env1[i - 1] = str /\ sls1[i - 1] = sl
                BY <1>1, <1>5, <1>6, <3>1
            <4> QED
                BY <1>2, <1>6, <3>1, <4>1 DEF str1, sl1
        <3>2. CASE i \in 1 .. n
            <4>1. env1[i - 1] = env[i - 1] /\ sls1[i - 1] = sls[i - 1]
                  /\ env1[i] = env[i] /\ sls1[i] = sls[i] /\ new[i] = flat[i]
                BY <1>2, <1>5, <1>6, <3>2
            <4>2. /\ env[i] = NextStrings(env[i - 1], flat[i])
                  /\ sls[i] = NextSlices(sls[i - 1], flat[i], env[i - 1])
                BY <1>1, <3>2 DEF Evaluation, n
            <4> QED
                BY <4>1, <4>2
        <3> QED
            BY <1>5, <3>1, <3>2
    <2> QED
        BY <1>2, <2>1, <2>2 DEF Evaluation
<1> QED
    BY <1>2, <1>6, <1>7 DEF Evaluated, new, str1, sl1

-----------------------------------------------------------------------------
(* The calls of evalOptions on the stack.                                   *)

(* What call j has left to evaluate, then what its callers have.            *)
Pending(found, st, rem) ==
    /\ rem[0] = <<>>
    /\ \A j \in 1 .. Len(st) :
           rem[j] = Spliced(found)[MaxDepth + 2 - j][st[j].rest] \o rem[j - 1]

Left(found, st, r) ==
    \E rem \in [0 .. Len(st) -> Seq(Pair)] : Pending(found, st, rem) /\ r = rem[Len(st)]

LEMMA LeftNothing ==
    ASSUME NEW found
    PROVE  /\ Left(found, <<>>, <<>>)
           /\ \A r : Left(found, <<>>, r) => r = <<>>
<1>1. Len(<<>>) = 0 /\ 1 .. 0 = {} /\ 0 \in 0 .. 0
    OBVIOUS
<1>2. Left(found, <<>>, <<>>)
    <2> DEFINE rem == [j \in 0 .. 0 |-> <<>>]
    <2>1. rem \in [0 .. 0 -> Seq(Pair)] /\ rem[0] = <<>>
        OBVIOUS
    <2> HIDE DEF rem
    <2> QED
        BY <1>1, <2>1 DEF Left, Pending
<1>3. \A r : Left(found, <<>>, r) => r = <<>>
    BY <1>1 DEF Left, Pending
<1> QED
    BY <1>2, <1>3

(* The level of a call's presets, and what it still expands to.             *)
LEMMA LevelType ==
    ASSUME NEW found \in Found, NEW n \in Nat, n <= MaxDepth, NEW pairs \in Seq(Pair)
    PROVE  Spliced(found)[MaxDepth + 1 - n][pairs] \in Seq(Pair)
<1>1. MaxDepth \in Nat
    BY PresetsAssumption
<1>2. MaxDepth + 1 - n \in 0 .. MaxDepth + 1
    BY <1>1
<1>3. Spliced(found)[MaxDepth + 1 - n] \in [Seq(Pair) -> Seq(Pair)]
    BY <1>2, SplicedIs
<1> QED
    BY <1>3

LEMMA LeftPush ==
    ASSUME NEW found \in Found, NEW st \in Seq(Frame), Len(st) <= MaxDepth, NEW f \in Frame,
           NEW r, Left(found, st, r)
    PROVE  Left(found, Append(st, f), Spliced(found)[MaxDepth + 1 - Len(st)][f.rest] \o r)
<1> DEFINE n == Len(st)
           new == Append(st, f)
           x == Spliced(found)[MaxDepth + 1 - n][f.rest]
<1>1. PICK rem \in [0 .. n -> Seq(Pair)] : Pending(found, st, rem) /\ r = rem[n]
    BY DEF Left
<1>2. /\ n \in Nat /\ Len(new) = n + 1 /\ new[n + 1] = f
      /\ \A j \in 1 .. n : new[j] = st[j]
    BY AppendProperties
<1>3. x \in Seq(Pair) /\ MaxDepth \in Nat
    <2>1. f.rest \in Seq(Pair)
        BY DEF Frame
    <2> HIDE DEF x
    <2>2. x \in Seq(Pair)
        BY <1>2, <2>1, LevelType DEF x
    <2> QED
        BY <2>2, PresetsAssumption
<1> HIDE DEF new, n
<1>4. /\ 0 \in 0 .. n /\ n \in 0 .. n /\ n + 1 \in 0 .. n + 1 /\ (n + 1) - 1 = n
      /\ \A j \in 0 .. n : j \in 0 .. n + 1 /\ j # n + 1
      /\ \A j \in 1 .. n : j \in 0 .. n /\ j - 1 \in 0 .. n
      /\ \A j \in 1 .. n + 1 : j \in 1 .. n \/ j = n + 1
      /\ \A j \in 0 .. n + 1 : j \in 0 .. n \/ j = n + 1
      /\ MaxDepth + 2 - (n + 1) = MaxDepth + 1 - n
    BY <1>2, <1>3
<1>5. x \o r \in Seq(Pair)
    <2>1. r \in Seq(Pair)
        BY <1>1, <1>4
    <2> HIDE DEF x
    <2> QED
        BY <1>3, <2>1, ConcatProperties
<1> DEFINE y == x \o r
           rem1 == [j \in 0 .. n + 1 |-> IF j = n + 1 THEN y ELSE rem[j]]
<1> HIDE DEF y
<1>6. /\ rem1 \in [0 .. n + 1 -> Seq(Pair)] /\ rem1[n + 1] = y
      /\ \A j \in 0 .. n : rem1[j] = rem[j]
    BY <1>4, <1>5 DEF y
<1> HIDE DEF rem1
<1>7. Pending(found, new, rem1)
    <2>1. rem1[0] = <<>>
        BY <1>1, <1>4, <1>6 DEF Pending
    <2>2. ASSUME NEW j \in 1 .. n + 1
          PROVE  rem1[j] = Spliced(found)[MaxDepth + 2 - j][new[j].rest] \o rem1[j - 1]
        <3>1. CASE j = n + 1
            <4>1. rem1[j - 1] = r /\ new[j] = f /\ rem1[j] = y
                BY <1>1, <1>2, <1>4, <1>6, <3>1
            <4>2. Spliced(found)[MaxDepth + 2 - j][new[j].rest] = x
                BY <1>4, <3>1, <4>1 DEF n
            <4> QED
                BY <4>1, <4>2 DEF y
        <3>2. CASE j \in 1 .. n
            <4>1. rem1[j - 1] = rem[j - 1] /\ rem1[j] = rem[j] /\ new[j] = st[j]
                BY <1>2, <1>4, <1>6, <3>2
            <4>2. rem[j] = Spliced(found)[MaxDepth + 2 - j][st[j].rest] \o rem[j - 1]
                BY <1>1, <3>2 DEF Pending, n
            <4> QED
                BY <4>1, <4>2
        <3> QED
            BY <1>4, <3>1, <3>2
    <2> QED
        BY <1>2, <2>1, <2>2 DEF Pending
<1>8. Left(found, new, y)
    BY <1>2, <1>6, <1>7 DEF Left
<1> QED
    BY <1>8 DEF y, new, n

LEMMA FrontIs ==
    ASSUME NEW S, NEW s \in Seq(S), s # <<>>
    PROVE  /\ Front(s) \in Seq(S) /\ Len(Front(s)) = Len(s) - 1 /\ Len(s) >= 1
           /\ \A j \in 1 .. Len(s) - 1 : Front(s)[j] = s[j]
           /\ Last(s) = s[Len(s)]
<1> DEFINE n == Len(s)
<1>1. n \in Nat /\ n >= 1
    BY EmptySeq
<1>2. \A j \in 1 .. n - 1 : s[j] \in S
    BY <1>1, ElementOfSeq
<1> HIDE DEF n
<1>3. /\ SubSeq(s, 1, n - 1) \in Seq(S)
      /\ Len(SubSeq(s, 1, n - 1)) = IF 1 <= n - 1 THEN (n - 1) - 1 + 1 ELSE 0
      /\ \A j \in 1 .. (n - 1) - 1 + 1 : SubSeq(s, 1, n - 1)[j] = s[1 + j - 1]
    BY <1>1, <1>2, SubSeqProperties
<1>4. (IF 1 <= n - 1 THEN (n - 1) - 1 + 1 ELSE 0) = n - 1 /\ (n - 1) - 1 + 1 = n - 1
      /\ \A j \in 1 .. n - 1 : 1 + j - 1 = j
    BY <1>1
<1>5. Front(s) = SubSeq(s, 1, n - 1) /\ Last(s) = s[n]
    BY DEF Front, Last, n
<1>6. \A j \in 1 .. n - 1 : Front(s)[j] = s[j]
    BY <1>3, <1>4, <1>5
<1>7. Front(s) \in Seq(S) /\ Len(Front(s)) = n - 1
    BY <1>3, <1>4, <1>5
<1> QED
    BY <1>1, <1>5, <1>6, <1>7 DEF n

(* What the last call has left to evaluate.                                 *)
Todo(found, st) == Spliced(found)[MaxDepth + 2 - Len(st)][Last(st).rest]

(* r is that, then what its callers have.                                   *)
Pops(found, st, r, r0) == Left(found, Front(st), r0) /\ r = Todo(found, st) \o r0

LEMMA LeftPop ==
    ASSUME NEW found, NEW st \in Seq(Frame), Len(st) # 0, NEW r, Left(found, st, r)
    PROVE  \E r0 \in Seq(Pair) : Pops(found, st, r, r0)
<1> DEFINE n == Len(st)
           old == Front(st)
<1>1. PICK rem \in [0 .. n -> Seq(Pair)] : Pending(found, st, rem) /\ r = rem[n]
    BY DEF Left
<1>2. /\ n \in Nat /\ n >= 1 /\ Len(old) = n - 1 /\ Last(st) = st[n]
      /\ \A j \in 1 .. n - 1 : old[j] = st[j]
    <2>1. st # <<>>
        OBVIOUS
    <2> QED
        BY <2>1, FrontIs
<1> HIDE DEF old
<1>3. /\ n - 1 \in 0 .. n /\ n \in 1 .. n /\ n - 1 \in 0 .. n - 1
      /\ \A j \in 0 .. n - 1 : j \in 0 .. n
      /\ 0 \in 0 .. n - 1
      /\ \A j \in 1 .. n - 1 : j \in 1 .. n /\ j \in 0 .. n - 1 /\ j - 1 \in 0 .. n - 1
    BY <1>2
<1> DEFINE rem1 == [j \in 0 .. n - 1 |-> rem[j]]
<1>4. rem1 \in [0 .. n - 1 -> Seq(Pair)] /\ \A j \in 0 .. n - 1 : rem1[j] = rem[j]
    BY <1>3
<1> HIDE DEF rem1
<1>5. Pending(found, old, rem1)
    <2>1. rem1[0] = <<>>
        BY <1>1, <1>3, <1>4 DEF Pending
    <2>2. ASSUME NEW j \in 1 .. n - 1
          PROVE  rem1[j] = Spliced(found)[MaxDepth + 2 - j][old[j].rest] \o rem1[j - 1]
        <3>1. rem1[j] = rem[j] /\ rem1[j - 1] = rem[j - 1] /\ old[j] = st[j]
            BY <1>2, <1>3, <1>4
        <3>2. rem[j] = Spliced(found)[MaxDepth + 2 - j][st[j].rest] \o rem[j - 1]
            BY <1>1, <1>3 DEF Pending
        <3> QED
            BY <3>1, <3>2
    <2> QED
        BY <1>2, <2>1, <2>2 DEF Pending
<1>6. Left(found, old, rem1[n - 1])
    BY <1>2, <1>4, <1>5 DEF Left
<1>7. r = Spliced(found)[MaxDepth + 2 - n][Last(st).rest] \o rem1[n - 1]
    <2>1. rem[n] = Spliced(found)[MaxDepth + 2 - n][st[n].rest] \o rem[n - 1]
        BY <1>1, <1>3 DEF Pending
    <2>2. rem1[n - 1] = rem[n - 1]
        BY <1>3, <1>4
    <2> QED
        BY <1>1, <1>2, <2>1, <2>2
<1>8. rem1[n - 1] \in Seq(Pair)
    BY <1>3, <1>4
<1> QED
    BY <1>6, <1>7, <1>8 DEF old, Todo, Pops

-----------------------------------------------------------------------------
(* Presets are named by literal texts, wherever pairs go.                   *)

LEMMA LiteralConcat ==
    ASSUME NEW a \in Seq(Pair), NEW b \in Seq(Pair), LiteralPresets(a), LiteralPresets(b)
    PROVE  LiteralPresets(a \o b)
<1> DEFINE c == a \o b
           Lit(x) == ~x.at /\ x.key = "Preset" => ToSet(x.val) \cap DOMAIN Templates = {}
<1>1. /\ DOMAIN a = 1 .. Len(a) /\ DOMAIN b = 1 .. Len(b) /\ DOMAIN c = 1 .. Len(a) + Len(b)
      /\ Len(a) \in Nat /\ Len(b) \in Nat
      /\ \A i \in 1 .. Len(a) + Len(b) : c[i] = IF i <= Len(a) THEN a[i] ELSE b[i - Len(a)]
    <2>1. c \in Seq(Pair) /\ Len(c) = Len(a) + Len(b)
          /\ \A i \in 1 .. Len(a) + Len(b) : c[i] = IF i <= Len(a) THEN a[i] ELSE b[i - Len(a)]
        BY ConcatProperties
    <2> HIDE DEF c
    <2> QED
        BY <2>1
<1>2. (\A i \in 1 .. Len(a) : Lit(a[i])) /\ (\A i \in 1 .. Len(b) : Lit(b[i]))
    BY <1>1 DEF LiteralPresets
<1> HIDE DEF c, Lit
<1>3. ASSUME NEW i \in 1 .. Len(a) + Len(b) PROVE Lit(c[i])
    <2>1. CASE i <= Len(a)
        <3>1. i \in 1 .. Len(a)
            BY <1>1, <2>1
        <3> QED
            BY <1>1, <1>2, <2>1, <3>1
    <2>2. CASE ~(i <= Len(a))
        <3>1. i - Len(a) \in 1 .. Len(b)
            BY <1>1, <2>2
        <3> QED
            BY <1>1, <1>2, <2>2, <3>1
    <2> QED
        BY <2>1, <2>2
<1> QED
    BY <1>1, <1>3 DEF LiteralPresets, Lit, c

LEMMA LiteralTail ==
    ASSUME NEW a \in Seq(Pair), LiteralPresets(a), a # <<>>
    PROVE  /\ LiteralPresets(Tail(a))
           /\ ~Head(a).at /\ Head(a).key = "Preset" =>
                  ToSet(Head(a).val) \cap DOMAIN Templates = {}
<1>1. /\ Tail(a) \in Seq(Pair) /\ Len(Tail(a)) = Len(a) - 1 /\ Head(a) = a[1]
      /\ \A i \in 1 .. Len(a) - 1 : Tail(a)[i] = a[i + 1]
      /\ Len(a) \in Nat /\ Len(a) >= 1
    BY HeadTailProperties, EmptySeq
<1> DEFINE b == Tail(a)
<1>2. DOMAIN a = 1 .. Len(a) /\ DOMAIN b = 1 .. Len(a) - 1
    BY <1>1
<1>3. \A i \in 1 .. Len(a) - 1 : i + 1 \in 1 .. Len(a)
    BY <1>1
<1>4. 1 \in 1 .. Len(a)
    BY <1>1
<1> HIDE DEF b
<1> QED
    BY <1>1, <1>2, <1>3, <1>4 DEF LiteralPresets, b

-----------------------------------------------------------------------------
(* An evaluation on its way: what it has evaluated and what its calls have  *)
(* left to evaluate make up what the line expands to.                       *)

Midway(found, pairs, st, str, sl) ==
    /\ Len(st) <= MaxDepth + 1
    /\ \E done, r \in Seq(Pair) :
           /\ Flat(found, pairs) = done \o r
           /\ Left(found, st, r)
           /\ Evaluated(done, str, sl)

EvalState(at, ps, found, pairs, st, str, sl) ==
    /\ LiteralPresets(ps) /\ LiteralPresets(pairs)
    /\ \A n \in PresetNames : found[n] # Absent => LiteralPresets(found[n])
    /\ \A j \in 1 .. Len(st) : LiteralPresets(st[j].rest)
    /\ at \notin {"eval", "done"} => str = NoStrings /\ sl = NoSlices
    /\ at = "eval" => Midway(found, pairs, st, str, sl)
    /\ at = "done" => Evaluated(Flat(found, pairs), str, sl)

EvalOK(p) ==
    EvalState(pc[p], kvs[p], seen[p], line[p], stack[p], strings[p], slices[p])

LiteralFiles ==
    \A n \in PresetNames : file[n] \notin {Absent, Torn} => LiteralPresets(file[n])

EvalInv == TypeInv /\ LiteralFiles /\ \A p \in Procs : EvalOK(p)

LEMMA FlatType ==
    ASSUME NEW found \in Found, NEW pairs \in Seq(Pair)
    PROVE  Flat(found, pairs) \in Seq(Pair)
<1>1. MaxDepth \in Nat
    BY PresetsAssumption
<1>2. MaxDepth + 1 \in 0 .. MaxDepth + 1
    BY <1>1
<1>3. Spliced(found)[MaxDepth + 1] \in [Seq(Pair) -> Seq(Pair)]
    BY <1>2, SplicedIs
<1> QED
    BY <1>3 DEF Flat

(* A call with the whole line to evaluate.                                  *)
LEMMA MidwayStarts ==
    ASSUME NEW found \in Found, NEW pairs \in Seq(Pair), NEW name \in Seq(Token)
    PROVE  Midway(found, pairs, <<[preset |-> name, rest |-> pairs]>>, NoStrings, NoSlices)
<1> DEFINE f == [preset |-> name, rest |-> pairs]
           st == <<f>>
           r == Flat(found, pairs)
<1>1. f \in Frame /\ f.rest = pairs /\ r \in Seq(Pair)
    BY FlatType DEF Frame
<1>2. MaxDepth \in Nat
    BY PresetsAssumption
<1> HIDE DEF f
<1>3. Append(<<>>, f) = st /\ Len(<<>>) = 0 /\ <<>> \in Seq(Frame) /\ Len(st) = 1
    BY <1>1
<1>4. Left(found, st, r \o <<>>)
    <2>1. Left(found, Append(<<>>, f), Spliced(found)[MaxDepth + 1 - 0][f.rest] \o <<>>)
        <3>1. 0 <= MaxDepth
            BY <1>2
        <3> QED
            BY <1>1, <1>3, <3>1, LeftNothing, LeftPush
    <2>2. MaxDepth + 1 - 0 = MaxDepth + 1
        BY <1>2
    <2> QED
        BY <1>1, <1>3, <2>1, <2>2 DEF Flat
<1>5. r \o <<>> = r /\ r = <<>> \o r /\ <<>> \in Seq(Pair)
    BY <1>1, ConcatEmptySeq
<1>6. Len(st) <= MaxDepth + 1
    BY <1>2, <1>3
<1> HIDE DEF r
<1>7. \E done, x \in Seq(Pair) : r = done \o x /\ Left(found, st, x)
                               /\ Evaluated(done, NoStrings, NoSlices)
    BY <1>1, <1>4, <1>5, EvaluatedNothing
<1> QED
    BY <1>6, <1>7 DEF Midway, f, r

(* A pair of the last call's, and the stack without it.                     *)
LEMMA LeftStep ==
    ASSUME NEW found \in Found, NEW st \in Seq(Frame), st # <<>>, Len(st) <= MaxDepth,
           Last(st).rest # <<>>, NEW r, Left(found, st, r)
    PROVE  LET rest == Last(st).rest
               inner == Spliced(found)[MaxDepth + 1 - Len(st)]
               popped == Append(Front(st), [Last(st) EXCEPT !.rest = Tail(@)])
           IN  \E r1 \in Seq(Pair) :
                   /\ Left(found, popped, r1)
                   /\ r = Expansion(found, Head(rest), inner) \o r1
                   /\ popped \in Seq(Frame) /\ Len(popped) = Len(st)
<1>0. \E r0 \in Seq(Pair) : Pops(found, st, r, r0)
    <2>1. Len(st) # 0
        BY EmptySeq
    <2> QED
        BY <2>1, LeftPop
<1> DEFINE n == Len(st)
           rest == Last(st).rest
           inner == Spliced(found)[MaxDepth + 1 - n]
           level == Spliced(found)[MaxDepth + 2 - n]
           f == [Last(st) EXCEPT !.rest = Tail(@)]
           old == Front(st)
           popped == Append(old, f)
           e == Expansion(found, Head(rest), inner)
<1>1. PICK r0 \in Seq(Pair) : Left(found, old, r0) /\ r = level[rest] \o r0
    BY <1>0 DEF Todo, Pops
<1>2. /\ n \in Nat /\ n >= 1 /\ old \in Seq(Frame) /\ Len(old) = n - 1
      /\ Last(st) \in Frame /\ MaxDepth \in Nat
    <2>1. n \in Nat /\ n >= 1 /\ old \in Seq(Frame) /\ Len(old) = n - 1 /\ Last(st) = st[n]
        BY FrontIs
    <2>2. st[n] \in Frame
        <3>1. n \in 1 .. n
            BY <2>1
        <3> QED
            BY <3>1, ElementOfSeq
    <2>3. MaxDepth \in Nat
        BY PresetsAssumption
    <2> QED
        BY <2>1, <2>2, <2>3
<1>3. rest \in Seq(Pair) /\ rest # <<>> /\ Tail(rest) \in Seq(Pair) /\ Head(rest) \in Pair
    <2>1. rest \in Seq(Pair) /\ rest # <<>>
        BY <1>2 DEF Frame
    <2> HIDE DEF rest
    <2> QED
        BY <2>1, HeadTailProperties
<1>4. f \in Frame /\ f.rest = Tail(rest)
    <2> DEFINE l == Last(st)
    <2>1. l \in Frame /\ Tail(l.rest) \in Seq(Pair)
        BY <1>2, <1>3
    <2> HIDE DEF l
    <2>2. [l EXCEPT !.rest = Tail(@)] \in Frame /\ [l EXCEPT !.rest = Tail(@)].rest = Tail(l.rest)
        BY <2>1 DEF Frame
    <2> QED
        BY <2>2 DEF l
<1>5. /\ MaxDepth + 2 - n \in 1 .. MaxDepth + 1 /\ (MaxDepth + 2 - n) - 1 = MaxDepth + 1 - n
      /\ MaxDepth + 1 - n \in 0 .. MaxDepth + 1 /\ MaxDepth + 2 - n \in 0 .. MaxDepth + 1
      /\ MaxDepth + 1 - (n - 1) = MaxDepth + 2 - n /\ n - 1 <= MaxDepth
    BY <1>2
<1>6. /\ inner \in [Seq(Pair) -> Seq(Pair)] /\ level \in [Seq(Pair) -> Seq(Pair)]
      /\ \A ps \in Seq(Pair) : level[ps] = Splice(found, ps, inner)
    <2>1. Spliced(found) \in [0 .. MaxDepth + 1 -> [Seq(Pair) -> Seq(Pair)]]
          /\ \A d \in 1 .. MaxDepth + 1 : \A ps \in Seq(Pair) :
                  Spliced(found)[d][ps] = Splice(found, ps, Spliced(found)[d - 1])
        BY SplicedIs
    <2>2. \A ps \in Seq(Pair) : Spliced(found)[MaxDepth + 2 - n][ps] =
              Splice(found, ps, Spliced(found)[(MaxDepth + 2 - n) - 1])
        BY <1>5, <2>1
    <2> QED
        BY <1>5, <2>1, <2>2
<1> HIDE DEF inner, rest
<1>7. level[rest] = e \o level[Tail(rest)] /\ e \in Seq(Pair) /\ level[Tail(rest)] \in Seq(Pair)
    <2>1. level[rest] = Splice(found, rest, inner)
          /\ level[Tail(rest)] = Splice(found, Tail(rest), inner)
        BY <1>3, <1>6
    <2>2. Splice(found, rest, inner) = e \o Splice(found, Tail(rest), inner)
        BY <1>3, <1>6, SpliceSteps
    <2>3. e \in Seq(Pair)
        BY <1>3, <1>6, ExpansionType
    <2> QED
        BY <1>3, <1>6, <2>1, <2>2, <2>3
<1> DEFINE l1 == level[Tail(rest)]
           r1 == l1 \o r0
<1> HIDE DEF e, f, old
<1>8. Left(found, popped, r1)
    <2>1. Left(found, Append(old, f), Spliced(found)[MaxDepth + 1 - Len(old)][f.rest] \o r0)
        <3>1. Len(old) <= MaxDepth
            BY <1>2, <1>5
        <3> QED
            BY <1>1, <1>2, <1>4, <3>1, LeftPush
    <2>2. Spliced(found)[MaxDepth + 1 - Len(old)][f.rest] = l1
        BY <1>2, <1>4, <1>5
    <2> QED
        BY <2>1, <2>2
<1>9. r1 \in Seq(Pair) /\ r = e \o r1
    <2>1. l1 \in Seq(Pair) /\ r = (e \o l1) \o r0 /\ e \in Seq(Pair)
        BY <1>1, <1>7
    <2> HIDE DEF l1, level
    <2>2. (e \o l1) \o r0 = e \o (l1 \o r0)
        BY <2>1, ConcatAssociative, SMTT(30)
    <2>3. l1 \o r0 \in Seq(Pair)
        BY <2>1, ConcatProperties
    <2> QED
        BY <2>1, <2>2, <2>3
<1>10. popped \in Seq(Frame) /\ Len(popped) = n
    <2>1. popped \in Seq(Frame) /\ Len(popped) = (n - 1) + 1
        BY <1>2, <1>4, AppendProperties
    <2> QED
        BY <1>2, <2>1
<1> HIDE DEF r1
<1>11. \E x \in Seq(Pair) : /\ Left(found, popped, x)
                            /\ r = e \o x
                            /\ popped \in Seq(Frame) /\ Len(popped) = n
    BY <1>8, <1>9, <1>10
<1> QED
    BY <1>11 DEF e, inner, rest, f, old

(* The stack when the first pair of the last call is off its list.          *)
PoppedOf(st) == Append(Front(st), [Last(st) EXCEPT !.rest = Tail(@)])

LEMMA MidwayStep ==
    ASSUME NEW found \in Found, NEW pairs \in Seq(Pair),
           NEW st \in Seq(Frame), st # <<>>, Len(st) <= MaxDepth, Last(st).rest # <<>>,
           NEW str, NEW sl, Midway(found, pairs, st, str, sl),
           NEW pair \in Pair, pair = Head(Last(st).rest)
    PROVE  /\ pair.at \/ pair.key # "Preset" =>
                  Midway(found, pairs, PoppedOf(st),
                         NextStrings(str, pair), NextSlices(sl, pair, str))
           /\ ~pair.at /\ pair.key = "Preset" =>
                  IF pair.val \in PresetNames /\ found[pair.val] # Absent
                  THEN Midway(found, pairs,
                              Append(PoppedOf(st),
                                     [preset |-> pair.val, rest |-> found[pair.val]]),
                              str, sl)
                  ELSE Midway(found, pairs, PoppedOf(st), str, sl)
<1> DEFINE n == Len(st)
           inner == Spliced(found)[MaxDepth + 1 - n]
           popped == PoppedOf(st)
           e == Expansion(found, pair, inner)
<1>1. PICK done, r \in Seq(Pair) :
          Flat(found, pairs) = done \o r /\ Left(found, st, r) /\ Evaluated(done, str, sl)
    BY DEF Midway
<1>2. PICK r1 \in Seq(Pair) :
          /\ Left(found, popped, r1) /\ r = e \o r1
          /\ popped \in Seq(Frame) /\ Len(popped) = n
    <2>1. \E r1 \in Seq(Pair) :
              /\ Left(found, Append(Front(st), [Last(st) EXCEPT !.rest = Tail(@)]), r1)
              /\ r = Expansion(found, Head(Last(st).rest), inner) \o r1
              /\ Append(Front(st), [Last(st) EXCEPT !.rest = Tail(@)]) \in Seq(Frame)
              /\ Len(Append(Front(st), [Last(st) EXCEPT !.rest = Tail(@)])) = Len(st)
        BY <1>1, LeftStep
    <2> QED
        BY <2>1 DEF PoppedOf
<1>3. n \in Nat /\ MaxDepth \in Nat
    <2>1. MaxDepth \in Nat
        BY PresetsAssumption
    <2> QED
        BY <2>1
<1>4. Len(popped) <= MaxDepth /\ Len(popped) <= MaxDepth + 1
    BY <1>2, <1>3
<1> HIDE DEF popped, inner
<1>5. ASSUME pair.at \/ pair.key # "Preset"
      PROVE  Midway(found, pairs, popped, NextStrings(str, pair), NextSlices(sl, pair, str))
    <2>1. r = <<pair>> \o r1
        BY <1>2, <1>5 DEF Expansion
    <2> DEFINE d1 == Append(done, pair)
    <2>2. d1 \in Seq(Pair) /\ d1 = done \o <<pair>> /\ <<pair>> \in Seq(Pair)
        BY AppendProperties, AppendIsConcat
    <2>3. (done \o <<pair>>) \o r1 = done \o (<<pair>> \o r1)
        <3> DEFINE one == <<pair>>
        <3>1. one \in Seq(Pair)
            BY <2>2
        <3> HIDE DEF one
        <3>2. (done \o one) \o r1 = done \o (one \o r1)
            BY <3>1, ConcatAssociative, SMTT(30)
        <3> QED
            BY <3>2 DEF one
    <2> HIDE DEF d1
    <2>4. Flat(found, pairs) = d1 \o r1
        BY <1>1, <2>1, <2>2, <2>3
    <2>5. Evaluated(d1, NextStrings(str, pair), NextSlices(sl, pair, str))
        BY <1>1, EvaluatedNext DEF d1
    <2> QED
        BY <1>2, <1>4, <2>2, <2>4, <2>5 DEF Midway
<1>6. ASSUME ~pair.at, pair.key = "Preset",
             ~(pair.val \in PresetNames /\ found[pair.val] # Absent)
      PROVE  Midway(found, pairs, popped, str, sl)
    <2>1. r = r1
        <3>1. e = <<>>
            BY <1>6 DEF Expansion
        <3>2. <<>> \o r1 = r1
            BY ConcatEmptySeq
        <3> QED
            BY <1>2, <3>1, <3>2
    <2> QED
        BY <1>1, <1>2, <1>4, <2>1 DEF Midway
<1>7. ASSUME ~pair.at, pair.key = "Preset",
             pair.val \in PresetNames, found[pair.val] # Absent
      PROVE  Midway(found, pairs,
                    Append(popped, [preset |-> pair.val, rest |-> found[pair.val]]), str, sl)
    <2> DEFINE f == [preset |-> pair.val, rest |-> found[pair.val]]
    <2>1. f \in Frame /\ f.rest = found[pair.val]
        <3>1. found[pair.val] \in Seq(Pair)
            BY <1>7 DEF Found
        <3>2. pair.val \in Seq(Token)
            BY DEF Pair
        <3> QED
            BY <3>1, <3>2 DEF Frame
    <2> HIDE DEF f
    <2>2. Left(found, Append(popped, f),
               Spliced(found)[MaxDepth + 1 - Len(popped)][f.rest] \o r1)
        BY <1>2, <1>4, <2>1, LeftPush
    <2>3. Spliced(found)[MaxDepth + 1 - Len(popped)][f.rest] = e
        BY <1>2, <1>7, <2>1 DEF Expansion, inner
    <2>4. Left(found, Append(popped, f), r)
        BY <1>2, <2>2, <2>3
    <2>5. Len(Append(popped, f)) <= MaxDepth + 1
        <3>1. Len(Append(popped, f)) = n + 1
            BY <1>2, <2>1, AppendProperties
        <3>2. n + 1 <= MaxDepth + 1
            BY <1>3
        <3> QED
            BY <3>1, <3>2
    <2>6. Midway(found, pairs, Append(popped, f), str, sl)
        BY <1>1, <2>4, <2>5 DEF Midway
    <2> QED
        BY <2>6 DEF f
<1> QED
    BY <1>5, <1>6, <1>7 DEF popped

(* A call that has nothing left to evaluate returns; the first one is done. *)
LEMMA MidwayReturns ==
    ASSUME NEW found \in Found, NEW pairs \in Seq(Pair),
           NEW st \in Seq(Frame), st # <<>>, Last(st).rest = <<>>,
           NEW str, NEW sl, Midway(found, pairs, st, str, sl)
    PROVE  /\ Midway(found, pairs, Front(st), str, sl)
           /\ Len(st) = 1 => Evaluated(Flat(found, pairs), str, sl)
<1> DEFINE n == Len(st)
           old == Front(st)
<1>1. PICK done, r \in Seq(Pair) :
          Flat(found, pairs) = done \o r /\ Left(found, st, r) /\ Evaluated(done, str, sl)
    BY DEF Midway
<1>2. PICK r0 \in Seq(Pair) : Left(found, old, r0) /\ r = Todo(found, st) \o r0
    <2>1. Left(found, st, r) /\ Len(st) # 0
        BY <1>1, EmptySeq
    <2> HIDE DEF old
    <2>2. \E r0 \in Seq(Pair) : Pops(found, st, r, r0)
        BY <2>1, LeftPop
    <2> QED
        BY <2>2 DEF old, Pops
<1>3. /\ n \in Nat /\ n >= 1 /\ MaxDepth \in Nat /\ n <= MaxDepth + 1
      /\ old \in Seq(Frame) /\ Len(old) = n - 1
    <2>1. n \in Nat /\ n >= 1 /\ old \in Seq(Frame) /\ Len(old) = n - 1
        BY FrontIs
    <2>2. MaxDepth \in Nat /\ n <= MaxDepth + 1
        <3>1. MaxDepth \in Nat
            BY PresetsAssumption
        <3> QED
            BY <3>1 DEF Midway
    <2> QED
        BY <2>1, <2>2
<1>4. Todo(found, st) = <<>>
    <2> DEFINE d == MaxDepth + 2 - n
    <2>1. d \in 1 .. MaxDepth + 1 /\ d - 1 \in 0 .. MaxDepth + 1
        BY <1>3
    <2>2. <<>> \in Seq(Pair)
        OBVIOUS
    <2>3. Todo(found, st) = Spliced(found)[d][<<>>]
        BY DEF Todo
    <2> HIDE DEF d
    <2>4. Spliced(found)[d - 1] \in [Seq(Pair) -> Seq(Pair)]
        BY <2>1, SplicedIs
    <2>5. Spliced(found)[d][<<>>] = Splice(found, <<>>, Spliced(found)[d - 1])
        BY <2>1, <2>2, SplicedIs
    <2>6. Splice(found, <<>>, Spliced(found)[d - 1]) = <<>>
        BY <2>2, <2>4, SpliceSteps
    <2> QED
        BY <2>3, <2>5, <2>6
<1>5. r = r0
    <2>1. <<>> \o r0 = r0
        BY ConcatEmptySeq
    <2> QED
        BY <1>2, <1>4, <2>1
<1>6. Len(old) <= MaxDepth + 1
    BY <1>3
<1> HIDE DEF old
<1>7. Midway(found, pairs, old, str, sl)
    BY <1>1, <1>2, <1>5, <1>6 DEF Midway
<1>8. ASSUME n = 1 PROVE Evaluated(Flat(found, pairs), str, sl)
    <2>1. old = <<>>
        <3>1. old \in Seq(Frame) /\ Len(old) = 0
            BY <1>3, <1>8
        <3> QED
            BY <3>1, EmptySeq
    <2>2. r = <<>>
        BY <1>2, <1>5, <2>1, LeftNothing
    <2>3. done \o <<>> = done
        BY ConcatEmptySeq
    <2>4. Flat(found, pairs) = done
        BY <1>1, <2>2, <2>3
    <2> QED
        BY <1>1, <2>4
<1> QED
    BY <1>7, <1>8 DEF old

-----------------------------------------------------------------------------
(* Every step keeps every evaluation on its way.                            *)

(* A step of p leaves the locals of the others alone.                       *)
LocalsKept(p) ==
    \A q \in Procs \ {p} :
        /\ pc'[q] = pc[q] /\ kvs'[q] = kvs[q] /\ seen'[q] = seen[q] /\ line'[q] = line[q]
        /\ stack'[q] = stack[q] /\ strings'[q] = strings[q] /\ slices'[q] = slices[q]

LEMMA EvalKept ==
    ASSUME EvalInv, TypeInv', NEW p \in Procs, LocalsKept(p), LiteralFiles', EvalOK(p)'
    PROVE  EvalInv'
<1>1. ASSUME NEW q \in Procs, q # p PROVE EvalOK(q)'
    <2>1. EvalOK(q)
        BY DEF EvalInv
    <2>2. /\ pc'[q] = pc[q] /\ kvs'[q] = kvs[q] /\ seen'[q] = seen[q] /\ line'[q] = line[q]
          /\ stack'[q] = stack[q] /\ strings'[q] = strings[q] /\ slices'[q] = slices[q]
        BY <1>1 DEF LocalsKept
    <2>3. EvalState(pc'[q], kvs'[q], seen'[q], line'[q], stack'[q], strings'[q], slices'[q])
        BY <2>1, <2>2 DEF EvalOK
    <2> QED
        BY <2>3 DEF EvalOK
<1> QED
    BY <1>1 DEF EvalInv

LEMMA NotPreset == Absent \notin Seq(Pair) /\ Torn \notin Seq(Pair) /\ Absent # Torn
<1>1. {Absent, Torn} \cap Seq(Pair) = {} /\ Absent # Torn
    BY PresetsAssumption
<1> QED
    BY <1>1

LEMMA LiteralNothing == LiteralPresets(<<>>)
<1>1. DOMAIN <<>> = {}
    OBVIOUS
<1> QED
    BY <1>1 DEF LiteralPresets

(* A process that has read nothing and evaluates nothing.                   *)
LEMMA IdleState ==
    ASSUME NEW at, at \notin {"eval", "done"}, NEW ps, LiteralPresets(ps)
    PROVE  EvalState(at, ps, NothingSeen, <<>>, <<>>, NoStrings, NoSlices)
<1>1. \A n \in PresetNames : NothingSeen[n] = Absent
    BY DEF NothingSeen
<1>2. Len(<<>>) = 0 /\ 1 .. 0 = {}
    OBVIOUS
<1> QED
    BY <1>1, <1>2, LiteralNothing DEF EvalState

LEMMA ExitKeeps ==
    ASSUME EvalInv, NEW p \in Procs, Exit(p)
    PROVE  LocalsKept(p) /\ EvalOK(p)'
<1>1. /\ pc'[p] = "idle" /\ kvs'[p] = <<>> /\ seen'[p] = NothingSeen /\ line'[p] = <<>>
      /\ stack'[p] = <<>> /\ strings'[p] = NoStrings /\ slices'[p] = NoSlices
    BY DEF EvalInv, TypeInv, Exit, Goto
<1>2. EvalState("idle", <<>>, NothingSeen, <<>>, <<>>, NoStrings, NoSlices)
    BY LiteralNothing, IdleState
<1>3. EvalOK(p)'
    BY <1>1, <1>2 DEF EvalOK
<1>4. LocalsKept(p)
    BY DEF EvalInv, TypeInv, Exit, Goto, LocalsKept
<1> QED
    BY <1>3, <1>4

LEMMA StartSetLiteral ==
    ASSUME PlainPresets, EvalInv, NEW p \in Procs, StartSet(p)
    PROVE  LocalsKept(p) /\ EvalOK(p)'
<1>1. PICK n \in PresetNames, pairs \in Lines, clear \in BOOLEAN :
          /\ ~clear => file[n] # Torn
          /\ kvs' = [kvs EXCEPT ![p] = KeptPairs(n, clear) \o SplitOptions(LineText(pairs))]
    BY DEF StartSet
<1>2. pairs \in Seq(Pair) /\ SplitOptions(LineText(pairs)) = pairs /\ LiteralPresets(pairs)
    BY SplitInverts, PresetsAssumption DEF PlainPresets
<1>3. KeptPairs(n, clear) \in Seq(Pair) /\ LiteralPresets(KeptPairs(n, clear))
    <2>1. CASE clear \/ file[n] = Absent
        BY <2>1, LiteralNothing DEF KeptPairs
    <2>2. CASE ~(clear \/ file[n] = Absent)
        <3>1. file[n] \in Seq(Pair) \cup {Absent, Torn}
            BY DEF EvalInv, TypeInv
        <3>2. file[n] \in Seq(Pair) /\ file[n] \notin {Absent, Torn}
            BY <1>1, <2>2, <3>1
        <3>3. LiteralPresets(file[n])
            BY <3>2 DEF EvalInv, LiteralFiles
        <3> QED
            BY <2>2, <3>2, <3>3 DEF KeptPairs
    <2> QED
        BY <2>1, <2>2
<1>4. LiteralPresets(KeptPairs(n, clear) \o pairs)
    BY <1>2, <1>3, LiteralConcat
<1>5. kvs'[p] = KeptPairs(n, clear) \o pairs
    BY <1>1, <1>2 DEF EvalInv, TypeInv
<1>6. /\ pc' = [pc EXCEPT ![p] = "truncate"] /\ pc[p] = "idle"
      /\ UNCHANGED <<seen, line, stack, strings, slices>>
    BY DEF StartSet, Goto
<1>7. pc'[p] = "truncate" /\ LocalsKept(p)
    BY <1>1, <1>6 DEF EvalInv, TypeInv, LocalsKept
<1>8. EvalOK(p)
    BY DEF EvalInv
<1>9. EvalState("truncate", kvs'[p], seen[p], line[p], stack[p], strings[p], slices[p])
    BY <1>4, <1>5, <1>6, <1>8 DEF EvalOK, EvalState
<1> QED
    BY <1>6, <1>7, <1>9 DEF EvalOK

LEMMA StartEvalMidway ==
    ASSUME EvalInv, NEW p \in Procs, StartEval(p)
    PROVE  LocalsKept(p) /\ EvalOK(p)'
<1> DEFINE f == [preset |-> NoName, rest |-> line[p]]
<1>1. line[p] \in Seq(Pair) /\ SplitOptions(LineText(line[p])) = line[p]
      /\ seen[p] \in Found /\ NoName \in Seq(Token)
    BY SplitInverts DEF EvalInv, TypeInv, Found, NoName
<1>2. /\ pc' = [pc EXCEPT ![p] = "eval"] /\ pc[p] = "open"
      /\ stack' = [stack EXCEPT ![p] = <<f>>]
      /\ UNCHANGED <<kvs, seen, line, strings, slices>>
    BY <1>1 DEF StartEval, Goto, Call
<1>3. pc'[p] = "eval" /\ stack'[p] = <<f>> /\ LocalsKept(p)
    BY <1>2 DEF EvalInv, TypeInv, LocalsKept
<1>4. EvalState(pc[p], kvs[p], seen[p], line[p], stack[p], strings[p], slices[p])
    BY DEF EvalInv, EvalOK
<1>5. strings[p] = NoStrings /\ slices[p] = NoSlices
    BY <1>2, <1>4 DEF EvalState
<1>6. Midway(seen[p], line[p], <<f>>, NoStrings, NoSlices)
    BY <1>1, MidwayStarts
<1>7. \A j \in 1 .. Len(<<f>>) : LiteralPresets(<<f>>[j].rest)
    <2>1. f.rest = line[p] /\ LiteralPresets(line[p])
        BY <1>4 DEF EvalState
    <2> HIDE DEF f
    <2>2. Len(<<f>>) = 1 /\ <<f>>[1] = f /\ \A j \in 1 .. 1 : j = 1
        OBVIOUS
    <2> QED
        BY <2>1, <2>2
<1> HIDE DEF f
<1>8. EvalState("eval", kvs[p], seen[p], line[p], <<f>>, strings[p], slices[p])
    BY <1>4, <1>5, <1>6, <1>7 DEF EvalState
<1> QED
    BY <1>2, <1>3, <1>8 DEF EvalOK

LEMMA OpenLiteral ==
    ASSUME EvalInv, NEW p \in Procs, OpenPreset(p)
    PROVE  LocalsKept(p) /\ EvalOK(p)'
<1>1. PICK n \in toRead[p] :
          seen' = [seen EXCEPT ![p][n] = IF file[n] = Torn THEN <<>> ELSE file[n]]
    BY DEF OpenPreset
<1>2. pc[p] = "open" /\ UNCHANGED <<pc, kvs, line, stack, strings, slices>>
    BY DEF OpenPreset
<1>3. n \in PresetNames
    BY DEF EvalInv, TypeInv
<1>4. LocalsKept(p)
    BY <1>1, <1>2 DEF EvalInv, TypeInv, LocalsKept
<1> DEFINE x == IF file[n] = Torn THEN <<>> ELSE file[n]
<1>5. \A m \in PresetNames : seen'[p][m] = IF m = n THEN x ELSE seen[p][m]
    BY <1>1, <1>3 DEF EvalInv, TypeInv
<1>6. x # Absent => LiteralPresets(x)
    BY <1>3, LiteralNothing DEF EvalInv, LiteralFiles
<1> HIDE DEF x
<1>7. EvalState(pc[p], kvs[p], seen[p], line[p], stack[p], strings[p], slices[p])
    BY DEF EvalInv, EvalOK
<1>8. EvalState("open", kvs[p], seen'[p], line[p], stack[p], strings[p], slices[p])
    BY <1>2, <1>5, <1>6, <1>7 DEF EvalState
<1> QED
    BY <1>2, <1>4, <1>8 DEF EvalOK

(* The files that hold a preset are found under its name.                   *)
LEMMA FilesAre ==
    ASSUME PlainPresets, NEW p, NEW name
    PROVE  /\ FilesOf(p, name) = {} <=> ~(name \in PresetNames /\ seen[p][name] # Absent)
           /\ FilesOf(p, name) # {} => Names[Last0(FilesOf(p, name))] = name
<1> DEFINE F == FilesOf(p, name)
<1>1. \A i \in DOMAIN Names : Names[i] \in PresetNames
    BY DEF PresetNames, ToSet
<1>2. \A i : i \in F <=> i \in DOMAIN Names /\ seen[p][name] # Absent /\ Names[i] = name
    BY <1>1 DEF FilesOf, PlainPresets
<1>3. name \in PresetNames <=> \E i \in DOMAIN Names : Names[i] = name
    BY DEF PresetNames, ToSet
<1>4. F = {} <=> ~(name \in PresetNames /\ seen[p][name] # Absent)
    <2> HIDE DEF F
    <2> QED
        BY <1>2, <1>3
<1>5. ASSUME F # {} PROVE Names[Last0(F)] = name
    <2>1. DOMAIN Names = 1 .. Len(Names) /\ Len(Names) \in Nat
        <3>1. Names \in Seq(Seq(Token))
            BY PresetsAssumption
        <3> QED
            BY <3>1, LenProperties
    <2> HIDE DEF F
    <2>2. F \subseteq 1 .. Len(Names) /\ F \subseteq Nat /\ IsFiniteSet(F)
        <3>1. F \subseteq 1 .. Len(Names)
            BY <1>2, <2>1
        <3>2. IsFiniteSet(1 .. Len(Names))
            BY <2>1, FS_Interval
        <3>3. IsFiniteSet(F)
            BY <3>1, <3>2, FS_Subset
        <3> QED
            BY <3>1, <3>3
    <2>3. PICK m \in F : \A k \in F : k <= m
        BY <1>5, <2>2, GreatestElement
    <2>4. Last0(F) = m
        BY <2>2, <2>3, LastIs
    <2> QED
        BY <1>2, <2>4
<1> QED
    BY <1>4, <1>5

LEMMA PoppedLiteral ==
    ASSUME NEW st \in Seq(Frame), st # <<>>, Last(st).rest # <<>>,
           \A j \in 1 .. Len(st) : LiteralPresets(st[j].rest)
    PROVE  /\ PoppedOf(st) \in Seq(Frame)
           /\ \A j \in 1 .. Len(PoppedOf(st)) : LiteralPresets(PoppedOf(st)[j].rest)
           /\ Head(Last(st).rest) \in Pair
           /\ LET pair == Head(Last(st).rest)
              IN  ~pair.at /\ pair.key = "Preset" => ToSet(pair.val) \cap DOMAIN Templates = {}
<1> DEFINE n == Len(st)
           l == Last(st)
           f == [l EXCEPT !.rest = Tail(@)]
           old == Front(st)
<1>1. /\ n \in Nat /\ n >= 1 /\ old \in Seq(Frame) /\ Len(old) = n - 1 /\ l = st[n]
      /\ \A j \in 1 .. n - 1 : old[j] = st[j]
    BY FrontIs
<1>2. n \in 1 .. n /\ \A j \in 1 .. n - 1 : j \in 1 .. n
    BY <1>1
<1>3. l \in Frame /\ LiteralPresets(l.rest)
    <2>1. st[n] \in Frame
        BY <1>2, ElementOfSeq
    <2> QED
        BY <1>1, <1>2, <2>1
<1>4. l.rest \in Seq(Pair) /\ l.rest # <<>>
    <2> HIDE DEF l
    <2> QED
        BY <1>3 DEF Frame, l
<1> DEFINE rest == l.rest
<1>5. /\ Tail(rest) \in Seq(Pair) /\ Head(rest) \in Pair /\ LiteralPresets(Tail(rest))
      /\ ~Head(rest).at /\ Head(rest).key = "Preset" =>
             ToSet(Head(rest).val) \cap DOMAIN Templates = {}
    <2>1. rest \in Seq(Pair) /\ rest # <<>> /\ LiteralPresets(rest)
        BY <1>3, <1>4
    <2> HIDE DEF rest
    <2> QED
        BY <2>1, HeadTailProperties, LiteralTail
<1>6. f \in Frame /\ f.rest = Tail(rest)
    <2> HIDE DEF l
    <2> QED
        BY <1>3, <1>5 DEF Frame
<1> HIDE DEF f, old
<1> DEFINE new == Append(old, f)
<1>7. /\ new \in Seq(Frame) /\ Len(new) = (n - 1) + 1 /\ new[(n - 1) + 1] = f
      /\ \A j \in 1 .. n - 1 : new[j] = old[j]
    BY <1>1, <1>6, AppendProperties
<1> HIDE DEF new
<1>8. ASSUME NEW j \in 1 .. (n - 1) + 1 PROVE LiteralPresets(new[j].rest)
    <2>1. CASE j = (n - 1) + 1
        BY <1>5, <1>6, <1>7, <2>1
    <2>2. CASE j # (n - 1) + 1
        <3>1. j \in 1 .. n - 1
            BY <1>1, <2>2
        <3>2. new[j] = st[j]
            BY <1>1, <1>7, <3>1
        <3> QED
            BY <1>2, <3>1, <3>2
    <2> QED
        BY <2>1, <2>2
<1>9. new = PoppedOf(st)
    BY DEF new, old, f, PoppedOf
<1> QED
    BY <1>5, <1>7, <1>8, <1>9

(* What evaluating a pair does to the process.                              *)
LEMMA EvalPairIs ==
    ASSUME PlainPresets, EvalInv, NEW p \in Procs, EvalPair(p),
           NEW pair \in Pair, pair = Head(Last(stack[p]).rest),
           ~pair.at /\ pair.key = "Preset" => ToSet(pair.val) \cap DOMAIN Templates = {}
    PROVE  /\ LocalsKept(p) /\ UNCHANGED <<file, pc, kvs, seen, line>>
           /\ pair.at \/ pair.key # "Preset" =>
                  /\ stack'[p] = PoppedOf(stack[p])
                  /\ strings'[p] = NextStrings(strings[p], pair)
                  /\ slices'[p] = NextSlices(slices[p], pair, strings[p])
           /\ ~pair.at /\ pair.key = "Preset" =>
                  /\ strings'[p] = strings[p] /\ slices'[p] = slices[p]
                  /\ stack'[p] =
                         IF pair.val \in PresetNames /\ seen[p][pair.val] # Absent
                         THEN Append(PoppedOf(stack[p]),
                                     [preset |-> pair.val, rest |-> seen[p][pair.val]])
                         ELSE PoppedOf(stack[p])
<1> DEFINE v == Render(pair.val, strings[p])
<1>1. pair.key \in Keys /\ pair.val \in Seq(Token) /\ pair.at \in BOOLEAN
    BY DEF Pair
<1>2. /\ pc[p] = "eval" /\ Last(stack[p]).rest # <<>>
      /\ UNCHANGED <<file, pc, kvs, seen, line>>
    BY DEF EvalPair, Top
<1>3. stack[p] \in Seq(Frame) /\ stack[p] # <<>>
    BY <1>2 DEF EvalInv, TypeInv
<1>4. PoppedOf(stack[p]) = Popped(p)
    BY DEF PoppedOf, Popped, Top
<1>5. \/ /\ pair.at
         /\ slices' = [slices EXCEPT ![p][pair.key] = Append(@, v)]
         /\ stack' = [stack EXCEPT ![p] = Popped(p)]
         /\ UNCHANGED strings
      \/ ~pair.at /\ pair.key = "Preset" /\ Expand(p, v) /\ UNCHANGED <<strings, slices>>
      \/ /\ ~pair.at /\ pair.key # "Preset"
         /\ strings' = [strings EXCEPT ![p][pair.key] = v]
         /\ stack' = [stack EXCEPT ![p] = Popped(p)]
         /\ UNCHANGED slices
    BY <1>1 DEF EvalPair, Top
<1> HIDE DEF v
<1>6. CASE pair.at
    <2>1. slices' = [slices EXCEPT ![p][pair.key] = Append(@, v)] /\ strings' = strings
          /\ stack' = [stack EXCEPT ![p] = Popped(p)]
        BY <1>5, <1>6
    <2>2. slices'[p] = [slices[p] EXCEPT ![pair.key] = Append(@, v)]
          /\ stack'[p] = Popped(p) /\ LocalsKept(p)
        BY <1>2, <2>1 DEF EvalInv, TypeInv, LocalsKept
    <2>3. slices'[p] = NextSlices(slices[p], pair, strings[p])
          /\ strings'[p] = NextStrings(strings[p], pair)
        BY <1>6, <2>1, <2>2 DEF NextSlices, NextStrings, v
    <2> QED
        BY <1>2, <1>4, <1>6, <2>2, <2>3
<1>7. CASE ~pair.at /\ pair.key # "Preset"
    <2>1. strings' = [strings EXCEPT ![p][pair.key] = v] /\ slices' = slices
          /\ stack' = [stack EXCEPT ![p] = Popped(p)]
        BY <1>5, <1>7
    <2>2. strings'[p] = [strings[p] EXCEPT ![pair.key] = v]
          /\ stack'[p] = Popped(p) /\ LocalsKept(p)
        BY <1>2, <2>1 DEF EvalInv, TypeInv, LocalsKept
    <2>3. slices'[p] = NextSlices(slices[p], pair, strings[p])
          /\ strings'[p] = NextStrings(strings[p], pair)
        BY <1>7, <2>1, <2>2 DEF NextSlices, NextStrings, v
    <2> QED
        BY <1>2, <1>4, <1>7, <2>2, <2>3
<1>8. CASE ~pair.at /\ pair.key = "Preset"
    <2>1. v = pair.val
        BY <1>1, <1>8, RenderLiteral DEF v
    <2>2. Expand(p, pair.val) /\ UNCHANGED <<strings, slices>>
        BY <1>5, <1>8, <2>1
    <2>3. CASE pair.val \in PresetNames /\ seen[p][pair.val] # Absent
        <3>1. FilesOf(p, pair.val) # {} /\ Names[Last0(FilesOf(p, pair.val))] = pair.val
            BY <2>3, FilesAre
        <3> DEFINE f == [preset |-> pair.val, rest |-> seen[p][pair.val]]
        <3>2. stack' = [stack EXCEPT ![p] = Popped(p) \o <<f>>]
            BY <2>2, <3>1 DEF Expand, Call
        <3>3. f \in Frame
            <4>1. seen[p][pair.val] \in Seq(Pair)
                BY <2>3 DEF EvalInv, TypeInv
            <4> QED
                BY <1>1, <4>1 DEF Frame
        <3> HIDE DEF f
        <3>4. Popped(p) \o <<f>> = Append(Popped(p), f)
            <4>1. Popped(p) \in Seq(Frame)
                BY <1>2, <1>3, StackTypes DEF Top
            <4> QED
                BY <3>3, <4>1, AppendIsConcat
        <3>5. stack'[p] = Append(Popped(p), f) /\ LocalsKept(p)
            BY <1>2, <2>2, <3>2, <3>4 DEF EvalInv, TypeInv, LocalsKept
        <3> QED
            BY <1>2, <1>4, <1>8, <2>2, <2>3, <3>5 DEF f
    <2>4. CASE ~(pair.val \in PresetNames /\ seen[p][pair.val] # Absent)
        <3>1. FilesOf(p, pair.val) = {}
            BY <2>4, FilesAre
        <3>2. stack' = [stack EXCEPT ![p] = Popped(p)]
            BY <2>2, <3>1 DEF Expand
        <3>3. stack'[p] = Popped(p) /\ LocalsKept(p)
            BY <1>2, <2>2, <3>2 DEF EvalInv, TypeInv, LocalsKept
        <3> QED
            BY <1>2, <1>4, <1>8, <2>2, <2>4, <3>3
    <2> QED
        BY <2>3, <2>4
<1> QED
    BY <1>1, <1>6, <1>7, <1>8

LEMMA AppendLiteral ==
    ASSUME NEW st \in Seq(Frame), \A j \in 1 .. Len(st) : LiteralPresets(st[j].rest),
           NEW f \in Frame, LiteralPresets(f.rest)
    PROVE  \A j \in 1 .. Len(Append(st, f)) : LiteralPresets(Append(st, f)[j].rest)
<1> DEFINE n == Len(st)
           new == Append(st, f)
<1>1. /\ n \in Nat /\ Len(new) = n + 1 /\ new[n + 1] = f
      /\ \A j \in 1 .. n : new[j] = st[j]
    BY AppendProperties
<1> HIDE DEF new
<1>2. ASSUME NEW j \in 1 .. n + 1 PROVE LiteralPresets(new[j].rest)
    <2>1. CASE j = n + 1
        BY <1>1, <2>1
    <2>2. CASE j # n + 1
        <3>1. j \in 1 .. n
            BY <1>1, <2>2
        <3> QED
            BY <1>1, <3>1
    <2> QED
        BY <2>1, <2>2
<1> QED
    BY <1>1, <1>2 DEF new

LEMMA EvalPairKeeps ==
    ASSUME PlainPresets, EvalInv, NEW p \in Procs, EvalPair(p)
    PROVE  LocalsKept(p) /\ EvalOK(p)'
<1> DEFINE st == stack[p]
           pair == Head(Last(st).rest)
<1>1. /\ pc[p] = "eval" /\ Last(st).rest # <<>> /\ Len(st) <= MaxDepth
      /\ st \in Seq(Frame) /\ st # <<>>
    BY DEF EvalPair, Top, EvalInv, TypeInv
<1>2. EvalState(pc[p], kvs[p], seen[p], line[p], st, strings[p], slices[p])
    BY DEF EvalInv, EvalOK
<1>3. /\ \A j \in 1 .. Len(st) : LiteralPresets(st[j].rest)
      /\ Midway(seen[p], line[p], st, strings[p], slices[p])
    BY <1>1, <1>2 DEF EvalState
<1>4. seen[p] \in Found /\ line[p] \in Seq(Pair)
    BY DEF EvalInv, TypeInv, Found
<1>5. /\ PoppedOf(st) \in Seq(Frame) /\ pair \in Pair
      /\ \A j \in 1 .. Len(PoppedOf(st)) : LiteralPresets(PoppedOf(st)[j].rest)
      /\ ~pair.at /\ pair.key = "Preset" => ToSet(pair.val) \cap DOMAIN Templates = {}
    <2> HIDE DEF st
    <2> QED
        BY <1>1, <1>3, PoppedLiteral
<1> DEFINE x == PoppedOf(st)
           f == [preset |-> pair.val, rest |-> seen[p][pair.val]]
           known == pair.val \in PresetNames /\ seen[p][pair.val] # Absent
<1>6. PICK y : y = pair
    OBVIOUS
<1>7. /\ y \in Pair /\ y = Head(Last(st).rest)
      /\ ~y.at /\ y.key = "Preset" => ToSet(y.val) \cap DOMAIN Templates = {}
    BY <1>5, <1>6
<1>8. /\ LocalsKept(p) /\ UNCHANGED <<file, pc, kvs, seen, line>>
      /\ y.at \/ y.key # "Preset" =>
             /\ stack'[p] = x
             /\ strings'[p] = NextStrings(strings[p], y)
             /\ slices'[p] = NextSlices(slices[p], y, strings[p])
      /\ ~y.at /\ y.key = "Preset" =>
             /\ strings'[p] = strings[p] /\ slices'[p] = slices[p]
             /\ stack'[p] =
                    IF y.val \in PresetNames /\ seen[p][y.val] # Absent
                    THEN Append(x, [preset |-> y.val, rest |-> seen[p][y.val]])
                    ELSE x
    BY <1>7, EvalPairIs
<1>9. /\ y.at \/ y.key # "Preset" =>
             Midway(seen[p], line[p], x,
                    NextStrings(strings[p], y), NextSlices(slices[p], y, strings[p]))
      /\ ~y.at /\ y.key = "Preset" =>
             IF y.val \in PresetNames /\ seen[p][y.val] # Absent
             THEN Midway(seen[p], line[p],
                         Append(x, [preset |-> y.val, rest |-> seen[p][y.val]]),
                         strings[p], slices[p])
             ELSE Midway(seen[p], line[p], x, strings[p], slices[p])
    <2> HIDE DEF st
    <2> QED
        BY <1>1, <1>3, <1>4, <1>7, MidwayStep
<1>10. Midway(seen[p], line[p], stack'[p], strings'[p], slices'[p])
    <2>1. CASE y.at \/ y.key # "Preset"
        BY <1>8, <1>9, <2>1
    <2>2. CASE ~y.at /\ y.key = "Preset" /\ y.val \in PresetNames /\ seen[p][y.val] # Absent
        BY <1>8, <1>9, <2>2
    <2>3. CASE ~y.at /\ y.key = "Preset" /\ ~(y.val \in PresetNames /\ seen[p][y.val] # Absent)
        BY <1>8, <1>9, <2>3
    <2> QED
        BY <2>1, <2>2, <2>3
<1>11. \A j \in 1 .. Len(stack'[p]) : LiteralPresets(stack'[p][j].rest)
    <2>1. CASE stack'[p] = x
        BY <1>5, <2>1
    <2>2. CASE stack'[p] # x
        <3> DEFINE g == [preset |-> y.val, rest |-> seen[p][y.val]]
        <3>1. y.val \in PresetNames /\ seen[p][y.val] # Absent /\ stack'[p] = Append(x, g)
            BY <1>7, <1>8, <2>2
        <3>2. g \in Frame /\ LiteralPresets(g.rest)
            <4>1. seen[p][y.val] \in Seq(Pair) /\ y.val \in Seq(Token)
                BY <1>4, <1>7, <3>1 DEF Found, Pair
            <4>2. LiteralPresets(seen[p][y.val])
                BY <1>2, <3>1 DEF EvalState
            <4> QED
                BY <4>1, <4>2 DEF Frame
        <3> HIDE DEF g, x
        <3>3. x \in Seq(Frame) /\ \A j \in 1 .. Len(x) : LiteralPresets(x[j].rest)
            BY <1>5 DEF x
        <3>4. \A j \in 1 .. Len(Append(x, g)) : LiteralPresets(Append(x, g)[j].rest)
            BY <3>2, <3>3, AppendLiteral
        <3> QED
            BY <3>1, <3>4
    <2> QED
        BY <2>1, <2>2
<1> HIDE DEF st, x
<1>12. EvalState("eval", kvs[p], seen[p], line[p], stack'[p], strings'[p], slices'[p])
    BY <1>2, <1>10, <1>11 DEF EvalState
<1> QED
    BY <1>1, <1>8, <1>12 DEF EvalOK

LEMMA EvalReturnsKeeps ==
    ASSUME EvalInv, NEW p \in Procs, EvalReturns(p)
    PROVE  LocalsKept(p) /\ EvalOK(p)'
<1> DEFINE st == stack[p]
<1>1. /\ pc[p] = "eval" /\ Last(st).rest = <<>> /\ st \in Seq(Frame) /\ st # <<>>
      /\ stack' = [stack EXCEPT ![p] = Front(st)]
      /\ pc' = [pc EXCEPT ![p] = IF Len(st) = 1 THEN "done" ELSE "eval"]
      /\ UNCHANGED <<kvs, seen, line, strings, slices>>
    BY DEF EvalReturns, Goto, Top, EvalInv, TypeInv
<1>2. EvalState(pc[p], kvs[p], seen[p], line[p], st, strings[p], slices[p])
    BY DEF EvalInv, EvalOK
<1>3. seen[p] \in Found /\ line[p] \in Seq(Pair)
    BY DEF EvalInv, TypeInv, Found
<1>4. /\ Midway(seen[p], line[p], Front(st), strings[p], slices[p])
      /\ Len(st) = 1 => Evaluated(Flat(seen[p], line[p]), strings[p], slices[p])
    <2>1. Midway(seen[p], line[p], st, strings[p], slices[p])
        BY <1>1, <1>2 DEF EvalState
    <2> HIDE DEF st
    <2> QED
        BY <1>1, <1>3, <2>1, MidwayReturns
<1>5. \A j \in 1 .. Len(Front(st)) : LiteralPresets(Front(st)[j].rest)
    <2>1. /\ Len(Front(st)) = Len(st) - 1 /\ Len(st) >= 1
          /\ \A j \in 1 .. Len(st) - 1 : Front(st)[j] = st[j]
        BY <1>1, FrontIs
    <2>2. \A j \in 1 .. Len(st) : LiteralPresets(st[j].rest)
        BY <1>2 DEF EvalState
    <2>3. Len(st) \in Nat
        BY <1>1
    <2> HIDE DEF st
    <2>4. \A j \in 1 .. Len(st) - 1 : j \in 1 .. Len(st)
        BY <2>3
    <2> QED
        BY <2>1, <2>2, <2>4
<1>6. /\ pc'[p] = (IF Len(st) = 1 THEN "done" ELSE "eval") /\ stack'[p] = Front(st)
      /\ LocalsKept(p)
    BY <1>1 DEF EvalInv, TypeInv, LocalsKept
<1> HIDE DEF st
<1>7. EvalState(IF Len(st) = 1 THEN "done" ELSE "eval",
                kvs[p], seen[p], line[p], Front(st), strings[p], slices[p])
    BY <1>2, <1>4, <1>5 DEF EvalState
<1> QED
    BY <1>1, <1>6, <1>7 DEF EvalOK

LEMMA EvalInvStep ==
    ASSUME PlainPresets
    PROVE  EvalInv /\ TypeInv' /\ [Next]_vars => EvalInv'
<1> SUFFICES ASSUME EvalInv, TypeInv', [Next]_vars PROVE EvalInv'
    OBVIOUS
<1>p. Setters \subseteq Procs /\ Readers \subseteq Procs
    BY DEF Procs
<1>1. ASSUME file' = file PROVE LiteralFiles'
    BY <1>1 DEF EvalInv, LiteralFiles
<1>2. ASSUME NEW p \in Procs, StartSet(p) PROVE EvalInv'
    BY <1>1, <1>2, StartSetLiteral, EvalKept DEF StartSet
<1>3. ASSUME NEW p \in Procs, TruncateFile(p) PROVE EvalInv'
    <2>1. /\ pc' = [pc EXCEPT ![p] = "write"] /\ pc[p] = "truncate"
          /\ file' = [file EXCEPT ![arg[p]] = Torn]
          /\ UNCHANGED <<kvs, seen, line, stack, strings, slices>>
        BY <1>3 DEF TruncateFile, Goto, locals
    <2>2. LiteralFiles'
        BY <2>1 DEF EvalInv, TypeInv, LiteralFiles
    <2>3. pc'[p] = "write" /\ LocalsKept(p)
        BY <2>1 DEF EvalInv, TypeInv, LocalsKept
    <2>4. EvalState(pc[p], kvs[p], seen[p], line[p], stack[p], strings[p], slices[p])
        BY DEF EvalInv, EvalOK
    <2>5. EvalState("write", kvs[p], seen[p], line[p], stack[p], strings[p], slices[p])
        BY <2>1, <2>4 DEF EvalState
    <2>6. EvalOK(p)'
        BY <2>1, <2>3, <2>5 DEF EvalOK
    <2> QED
        BY <2>2, <2>3, <2>6, EvalKept
<1>4. ASSUME NEW p \in Procs, WriteFile(p) PROVE EvalInv'
    <2>1. file' = [file EXCEPT ![arg[p]] = kvs[p]] /\ Exit(p)
        BY <1>4 DEF WriteFile
    <2>2. LiteralPresets(kvs[p])
        BY DEF EvalInv, EvalOK, EvalState
    <2>3. LiteralFiles'
        BY <2>1, <2>2 DEF EvalInv, TypeInv, LiteralFiles
    <2> QED
        BY <2>1, <2>3, ExitKeeps, EvalKept
<1>5. ASSUME NEW p \in Procs, RemovePreset(p) PROVE EvalInv'
    <2>1. PICK n \in PresetNames : file' = [file EXCEPT ![n] = Absent]
        BY <1>5 DEF RemovePreset
    <2>2. UNCHANGED <<pc, kvs, seen, line, stack, strings, slices>>
        BY <1>5 DEF RemovePreset, locals
    <2>3. LiteralFiles'
        BY <2>1 DEF EvalInv, TypeInv, LiteralFiles
    <2>4. LocalsKept(p) /\ EvalOK(p)'
        BY <2>2 DEF EvalInv, EvalOK, LocalsKept
    <2> QED
        BY <2>3, <2>4, EvalKept
<1>6. ASSUME NEW p \in Procs, ListDirectory(p) PROVE EvalInv'
    <2>1. PICK pairs \in OptionLines : line' = [line EXCEPT ![p] = pairs]
        BY <1>6 DEF ListDirectory
    <2>2. /\ pc' = [pc EXCEPT ![p] = "open"] /\ pc[p] = "idle"
          /\ UNCHANGED <<file, kvs, seen, stack, strings, slices>>
        BY <1>6 DEF ListDirectory, Goto
    <2>3. LiteralPresets(pairs)
        BY DEF PlainPresets
    <2>4. pc'[p] = "open" /\ line'[p] = pairs /\ LocalsKept(p)
        BY <2>1, <2>2 DEF EvalInv, TypeInv, LocalsKept
    <2>5. EvalState(pc[p], kvs[p], seen[p], line[p], stack[p], strings[p], slices[p])
        BY DEF EvalInv, EvalOK
    <2>6. EvalState("open", kvs[p], seen[p], pairs, stack[p], strings[p], slices[p])
        BY <2>2, <2>3, <2>5 DEF EvalState
    <2>7. EvalOK(p)'
        BY <2>2, <2>4, <2>6 DEF EvalOK
    <2> QED
        BY <1>1, <2>2, <2>4, <2>7, EvalKept
<1>7. ASSUME NEW p \in Procs, OpenPreset(p) PROVE EvalInv'
    BY <1>1, <1>7, OpenLiteral, EvalKept DEF OpenPreset
<1>8. ASSUME NEW p \in Procs, StartEval(p) PROVE EvalInv'
    BY <1>1, <1>8, StartEvalMidway, EvalKept DEF StartEval
<1>9. ASSUME NEW p \in Procs, EvalPair(p) PROVE EvalInv'
    BY <1>1, <1>9, EvalPairKeeps, EvalKept DEF EvalPair
<1>10. ASSUME NEW p \in Procs, EvalReturns(p) PROVE EvalInv'
    BY <1>1, <1>10, EvalReturnsKeeps, EvalKept DEF EvalReturns
<1>11. ASSUME NEW p \in Procs, Finish(p) \/ Die(p) PROVE EvalInv'
    BY <1>1, <1>11, ExitKeeps, EvalKept DEF Finish, Die
<1>12. CASE UNCHANGED vars
    BY <1>12 DEF vars, locals, EvalInv, LiteralFiles, EvalOK
<1> QED
    BY <1>p, <1>2, <1>3, <1>4, <1>5, <1>6, <1>7, <1>8, <1>9, <1>10, <1>11, <1>12
       DEF Next, PresetCommand, OtherCommand, Evaluate

(* An option line evaluates to what the documentation says of the pairs the *)
(* user meant and of the presets as the process read them, however often    *)
(* presets include presets and whatever other processes set and remove      *)
(* meanwhile: for a plain key the last value, for an @ key all of them,     *)
(* templates over what was evaluated before (lib/options.go evalOptions).   *)
THEOREM EvaluatesDocumented ==
    ASSUME PlainPresets
    PROVE  Spec => []EvaluatesAsDocumented
<1>1. Init => EvalInv
    <2> SUFFICES ASSUME Init PROVE EvalInv
        OBVIOUS
    <2>1. TypeInv
        BY Ground DEF Init, TypeInv
    <2>2. LiteralFiles
        BY DEF Init, LiteralFiles
    <2>3. ASSUME NEW p \in Procs PROVE EvalOK(p)
        <3>1. /\ pc[p] = "idle" /\ kvs[p] = <<>> /\ seen[p] = NothingSeen /\ line[p] = <<>>
              /\ stack[p] = <<>> /\ strings[p] = NoStrings /\ slices[p] = NoSlices
            BY DEF Init
        <3>2. EvalState("idle", <<>>, NothingSeen, <<>>, <<>>, NoStrings, NoSlices)
            BY LiteralNothing, IdleState
        <3> QED
            BY <3>1, <3>2 DEF EvalOK
    <2> QED
        BY <2>1, <2>2, <2>3 DEF EvalInv
<1>2. EvalInv => EvaluatesAsDocumented
    <2> SUFFICES ASSUME EvalInv, NEW p \in Procs, pc[p] = "done"
                 PROVE  [strings |-> strings[p], slices |-> slices[p]] = Documented(p)
        BY DEF EvaluatesAsDocumented
    <2>1. EvalState(pc[p], kvs[p], seen[p], line[p], stack[p], strings[p], slices[p])
        BY DEF EvalInv, EvalOK
    <2>2. Evaluated(Flat(seen[p], line[p]), strings[p], slices[p])
        BY <2>1 DEF EvalState
    <2>3. seen[p] \in Found /\ line[p] \in Seq(Pair)
        BY DEF EvalInv, TypeInv, Found
    <2>4. Flat(seen[p], line[p]) \in Seq(Pair)
        BY <2>3, FlatType
    <2> QED
        BY <2>2, <2>4, MeaningIs DEF Documented
<1>3. EvalInv /\ TypeInv' /\ [Next]_vars => EvalInv'
    BY EvalInvStep
<1> QED
    BY <1>1, <1>2, <1>3, TypeInvariant, PTL DEF Spec
=============================================================================

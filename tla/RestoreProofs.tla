---------------------------- MODULE RestoreProofs ----------------------------
(***************************************************************************)
(* Theorems about Restore, for every set of backups, any number of commands *)
(* and every route on which what cannot be restored is noticed: where a     *)
(* mariabackup names its version, and tar's containers are encrypted.       *)
(***************************************************************************)
EXTENDS Restore, TLAPS

Noticed == \A r \in Routes : ~r.versionless /\ (r.kind = "tar" => ~r.plain)

Record == [snap : Names, base : Nat]

UniqueNames(B) == \A b, c \in B : b.snap = c.snap => b = c

Older(B) == \A b \in B : b.base < b.snap

(* Each backup is built on the one before it, if there is one.              *)
Linear(B) == \A c, d \in B : d.snap < c.snap => d.snap <= c.base

-----------------------------------------------------------------------------
(* Chains.                                                                  *)

(* A chain holds the backup and, with each backup, its base.                *)
LEMMA ChainClosed ==
    ASSUME NEW B, UniqueNames(B), NEW b \in B, Restorable(b, B)
    PROVE  b \in GetFullChain(b, B) /\ BaseClosed(GetFullChain(b, B))
<1>1. PICK D \in SUBSET B : b \in D /\ BaseClosed(D)
    BY DEF Restorable
<1>2. ASSUME NEW c \in GetFullChain(b, B), ~IsFull(c)
      PROVE  \E e \in GetFullChain(b, B) : e.snap = c.base
    <2>1. c \in D
        BY <1>1 DEF GetFullChain
    <2>2. PICK e \in D : e.snap = c.base
        BY <1>1, <1>2, <2>1 DEF BaseClosed
    <2>3. ASSUME NEW E \in SUBSET B, b \in E, BaseClosed(E)
          PROVE  e \in E
        <3>1. PICK f \in E : f.snap = c.base
            BY <1>2, <2>3 DEF GetFullChain, BaseClosed
        <3> QED
            BY <2>2, <3>1 DEF UniqueNames
    <2> QED
        BY <2>2, <2>3 DEF GetFullChain
<1> QED
    BY <1>2 DEF GetFullChain, BaseClosed

(* It is the smallest such set: what is closed and holds b holds it.        *)
LEMMA ChainMinimal ==
    ASSUME NEW B, NEW b \in B, NEW E, E \subseteq GetFullChain(b, B), b \in E, BaseClosed(E)
    PROVE  E = GetFullChain(b, B)
BY DEF GetFullChain

(* It is a line: between a backup of the chain and its base there is        *)
(* nothing, and nothing is older than its full backup.                      *)
LEMMA ChainLinear ==
    ASSUME NEW B \in SUBSET [snap : Nat, base : Nat], UniqueNames(B), Older(B),
           NEW b \in B, Restorable(b, B)
    PROVE  Linear(GetFullChain(b, B))
<1> DEFINE C == GetFullChain(b, B)
           Above(z) == \A x \in C : x.snap > z.snap => x.base >= z.snap
<1>1. b \in C /\ BaseClosed(C) /\ C \subseteq B
    BY ChainClosed DEF GetFullChain
<1>2. \A x \in C : x.snap \in Nat /\ x.base \in Nat /\ x.base < x.snap
    BY <1>1 DEF Older
<1>3. \A x \in C : x.snap <= b.snap
    <2> DEFINE E == {x \in C : x.snap <= b.snap}
    <2>1. BaseClosed(E)
        BY <1>1, <1>2 DEF BaseClosed
    <2>2. E = C
        BY <1>1, <1>2, <2>1, ChainMinimal
    <2> QED
        BY <2>2
<1>4. ASSUME NEW z \in C, Above(z), NEW e \in C, ~IsFull(z), e.snap = z.base
      PROVE  Above(e)
    <2> DEFINE E == {x \in C : x.snap >= z.snap \/ x.snap <= z.base}
    <2>1. ASSUME NEW x \in E, ~IsFull(x)
          PROVE  \E f \in E : f.snap = x.base
        <3>1. PICK f \in C : f.snap = x.base
            BY <1>1, <2>1 DEF BaseClosed
        <3>2. CASE x.snap > z.snap
            BY <1>4, <3>1, <3>2
        <3>3. CASE x.snap = z.snap
            <4>1. x = z
                BY <1>1, <3>3 DEF UniqueNames
            <4> QED
                BY <1>2, <3>1, <4>1
        <3>4. CASE x.snap <= z.base
            BY <1>2, <3>1, <3>4
        <3> QED
            BY <1>2, <3>2, <3>3, <3>4
    <2>2. E = C
        <3>1. BaseClosed(E)
            BY <2>1 DEF BaseClosed
        <3>2. b \in E
            BY <1>1, <1>3
        <3> QED
            BY <3>1, <3>2, ChainMinimal
    <2>3. ASSUME NEW x \in C, x.snap > e.snap
          PROVE  x.base >= e.snap
        <3>1. x.snap >= z.snap
            BY <1>2, <1>4, <2>2, <2>3
        <3>2. CASE x.snap > z.snap
            BY <1>2, <1>4, <3>2
        <3>3. CASE x.snap = z.snap
            <4>1. x = z
                BY <1>1, <3>3 DEF UniqueNames
            <4> QED
                BY <1>2, <1>4, <4>1
        <3> QED
            BY <1>2, <3>1, <3>2, <3>3
    <2> QED
        BY <2>3
<1>5. \A z \in C : Above(z)
    <2> DEFINE E == {z \in C : Above(z)}
    <2>1. BaseClosed(E)
        BY <1>1, <1>4 DEF BaseClosed
    <2>2. b \in E
        BY <1>1, <1>2, <1>3
    <2>3. E = C
        BY <2>1, <2>2, ChainMinimal
    <2> QED
        BY <2>3
<1> QED
    BY <1>2, <1>5 DEF Linear

(* What a recursive fetch sets out to copy is closed, if anything is.       *)
LEMMA WalkClosed ==
    ASSUME NEW B, UniqueNames(B), \A x \in B : x.snap # NoBase,
           NEW b \in B, Restorable(b, B)
    PROVE  b \in Walk(b, B) /\ BaseClosed(Walk(b, B))
<1>1. PICK D \in SUBSET B : b \in D /\ BaseClosed(D)
    BY DEF Restorable
<1>2. \A d \in D, e \in B : e.snap = d.base => e \in D
    BY <1>1 DEF BaseClosed, IsFull, UniqueNames
<1>3. Walk(b, B) \subseteq D
    BY <1>1, <1>2 DEF Walk
<1>4. \A c \in Walk(b, B), e \in B : e.snap = c.base => e \in Walk(b, B)
    BY DEF Walk
<1>5. b \in Walk(b, B)
    BY DEF Walk
<1> QED
    BY <1>1, <1>3, <1>4, <1>5 DEF BaseClosed

-----------------------------------------------------------------------------
(* The invariant.                                                           *)

(* The route is one of those allowed, and the destination holds backups     *)
(* with names of their own, each built on an older one.                     *)
Chosen ==
    /\ route \in Routes
    /\ store \subseteq Record
    /\ UniqueNames(store) /\ Older(store)

Extracts == route.kind \in {"tar", "mariabackup"}

(* The chain in hand is a line that is restored from the oldest on.         *)
ChainOK ==
    /\ outcome = "pending"
    /\ UniqueNames(chain) /\ Older(chain) /\ Linear(chain) /\ BaseClosed(chain)
    /\ \A c \in chain \ left, d \in left : c.snap < d.snap
    /\ input = "short" => route.dest = "btrfs"
    /\ input = "empty" => route.plain
    /\ route.dest # "file" => \A c \in chain : IsFull(c)

BaseReady(b) == ~IsFull(b) => dirs[b.base] = Holding(b.base)

(* Where a restore of b is, and what it has left in the directory so far.   *)
TarInPlace(b) ==
    /\ rpc \in {"open", "header", "clear", "place", "extract"}
    /\ rpc # "extract" => BaseReady(b)
    /\ rpc = "place" => dirs[b.snap] = Absent
    /\ rpc = "extract" => dirs[b.snap] = Holding(b.base)
                          /\ (~IsFull(b) => dirs[b.base] = Absent)

MariabackupInPlace(b) ==
    /\ rpc \notin {"discard", "rename"} => BaseReady(b)
    /\ rpc \in {"discard", "rename"} => ~IsFull(b) /\ dirs[b.base] = Holding(b.snap)

InPlace(b) ==
    CASE route.kind = "tar" -> TarInPlace(b)
      [] route.kind = "mariabackup" -> MariabackupInPlace(b)
      [] OTHER -> rpc \in {"open", "header", "extract", "rename"}

(* What the backups restored before b have left: their content has moved    *)
(* on, or is where it was put.                                              *)
Behind(b) ==
    \A c \in chain \ left :
        IF Extracts THEN c.snap # b.base => dirs[c.snap] = Absent
        ELSE dirs[c.snap] = Holding(c.snap)

RestoreInv ==
    /\ Chosen
    /\ rpc # "idle" =>
           /\ ChainOK
           /\ \A b \in left : Oldest(b, left) => InPlace(b) /\ Behind(b)
    /\ RestoredExactly
    /\ NoImpostors

(* What has been fetched and what is still to be fetched make a chain.      *)
FetchInv ==
    /\ fpc # "idle" => fetched = "pending"
    /\ route.dest = "file" /\ fetched # "failed" =>
           \A b \in goal : Restorable(b, sound \cup fleft)

-----------------------------------------------------------------------------
(* What the destination lists, and where a chain stands.                    *)

(* Names are positive numbers.                                              *)
LEMMA RecordType ==
    \A c \in Record : c.snap \in Names /\ c.snap \in Nat /\ c.snap > NoBase /\ c.base \in Nat
<1>1. ASSUME NEW c \in Record
      PROVE  c.snap \in Names /\ c.base \in Nat
    BY <1>1 DEF Record
<1>2. ASSUME NEW n \in Names
      PROVE  n \in Nat /\ n > NoBase
    BY <1>2, RestoreAssumption DEF Snapshot, NoBase
<1> QED
    BY <1>1, <1>2

LEMMA ListingOK ==
    ASSUME Chosen
    PROVE  /\ Listing \subseteq Record
           /\ UniqueNames(Listing) /\ Older(Listing)
           /\ route.dest # "file" => \A b \in Listing : IsFull(b)
<1>1. CASE route.dest = "file"
    BY <1>1 DEF Chosen, Listing
<1>2. CASE route.dest # "file"
    <2> DEFINE S == {b.snap : b \in store}
    <2>1. S \subseteq Names /\ Listing = [snap : S, base : {NoBase}]
        BY <1>2, RecordType DEF Chosen, Listing
    <2>2. \A c \in Listing : c.snap \in S /\ c.base = NoBase /\ c = [snap |-> c.snap, base |-> NoBase]
        BY <2>1
    <2>3. Listing \subseteq Record
        BY <2>1 DEF Record, NoBase
    <2>4. UniqueNames(Listing)
        <3>1. SUFFICES ASSUME NEW c \in Listing, NEW d \in Listing, c.snap = d.snap
                       PROVE  c = d
            BY DEF UniqueNames
        <3>2. c = [snap |-> c.snap, base |-> NoBase] /\ d = [snap |-> d.snap, base |-> NoBase]
            BY <2>2
        <3> QED
            BY <3>1, <3>2
    <2>5. Older(Listing)
        BY <2>2, <2>3, RecordType DEF Older, NoBase
    <2> QED
        BY <1>2, <2>2, <2>3, <2>4, <2>5 DEF IsFull
<1> QED
    BY <1>1, <1>2

LEMMA ChosenKept ==
    ASSUME Chosen, route' = route, store' \subseteq store
    PROVE  Chosen'
BY DEF Chosen, UniqueNames, Older

(* The base of the backup that is next has been restored already, and is    *)
(* the most recent one that has.                                            *)
LEMMA NextInChain ==
    ASSUME TypeOK, ChainOK, NEW b \in left, Oldest(b, left)
    PROVE  /\ b \in Record /\ b.base < b.snap
           /\ \A c \in left : Oldest(c, left) => c = b
           /\ \A c \in chain \ left : c \in Record /\ c.snap <= b.base
           /\ ~IsFull(b) => \E e \in chain \ left : e.snap = b.base
<1>1. chain \subseteq Record /\ left \subseteq chain /\ Names \subseteq Nat
    BY RestoreAssumption DEF TypeOK, Record, Snapshot
<1>2. b.snap \in Nat /\ b.base < b.snap /\ b.base \in Nat
    BY <1>1 DEF Record, ChainOK, Older
<1>3. ASSUME NEW c \in left, Oldest(c, left)
      PROVE  c = b
    <2>1. c.snap \in Nat /\ c.snap <= b.snap /\ b.snap <= c.snap
        BY <1>1, <1>3 DEF Record, Oldest
    <2> QED
        BY <1>1, <1>2, <2>1 DEF ChainOK, UniqueNames
<1>4. \A c \in chain \ left : c.snap <= b.base
    BY <1>1 DEF ChainOK, Linear
<1>5. ASSUME ~IsFull(b)
      PROVE  \E e \in chain \ left : e.snap = b.base
    <2>1. PICK e \in chain : e.snap = b.base
        BY <1>1, <1>5 DEF ChainOK, BaseClosed
    <2>2. e \notin left
        BY <1>2, <2>1 DEF Oldest
    <2> QED
        BY <2>1, <2>2
<1> QED
    BY <1>1, <1>2, <1>3, <1>4, <1>5

-----------------------------------------------------------------------------
(* Steps that keep the invariant.                                           *)

(* The restore command and its directory are left alone.                    *)
LEMMA Elsewhere ==
    ASSUME RestoreInv, Chosen', UNCHANGED <<route, dirs, restoring>>
    PROVE  RestoreInv'
BY DEF RestoreInv, ChainOK, InPlace, TarInPlace, MariabackupInPlace, BaseReady, Behind,
       Extracts, RestoredExactly, NoImpostors, restoring

(* The restore command ends with a failure.                                 *)
LEMMA Ends ==
    ASSUME Chosen', RestoreFails
    PROVE  RestoreInv'
BY DEF RestoreInv, RestoreFails, RestoredExactly, NoImpostors

(* It goes on with the same backup.                                         *)
LEMMA GoesOn ==
    ASSUME TypeOK, RestoreInv, rpc # "idle", NEW b \in left, Oldest(b, left),
           UNCHANGED <<route, store, chain, left, outcome>>,
           input' = "short" => route.dest = "btrfs", input' = "empty" => route.plain,
           InPlace(b)', Behind(b)'
    PROVE  RestoreInv'
<1>1. Chosen'
    BY ChosenKept DEF RestoreInv
<1>2. ChainOK /\ ChainOK'
    BY DEF RestoreInv, ChainOK
<1>3. \A c \in left' : Oldest(c, left') => c = b
    BY <1>2, NextInChain
<1>4. outcome' # "ok"
    BY <1>2 DEF ChainOK
<1> QED
    BY <1>1, <1>2, <1>3, <1>4 DEF RestoreInv, RestoredExactly, NoImpostors

(* It is done with a backup.                                                *)
LEMMA GoesToNext ==
    ASSUME TypeOK, RestoreInv, rpc # "idle", NEW b \in left, Oldest(b, left), Restored(b),
           input = "short" \/ dirs'[b.snap] = Holding(b.snap),
           \A c \in chain \ left :
               dirs'[c.snap] = IF Extracts THEN Absent ELSE Holding(c.snap)
    PROVE  RestoreInv'
<1> DEFINE done == (chain \ left) \cup {b}
<1>1. /\ UNCHANGED <<route, store, chain, input>>
      /\ left' = left \ {b}
    BY DEF Restored, files
<1>2. Chosen'
    BY <1>1, ChosenKept DEF RestoreInv
<1>3. ChainOK
    BY DEF RestoreInv
<1>4. /\ \A c \in chain : c.snap \in Nat /\ c.base \in Nat /\ c.snap > 0
      /\ left \subseteq chain /\ done = chain \ left'
    BY <1>1, RecordType DEF TypeOK, Record, NoBase
<1>5. /\ b.base < b.snap
      /\ \A c \in left : Oldest(c, left) => c = b
      /\ \A c \in chain \ left : c.snap <= b.base
      /\ ~IsFull(b) => \E e \in chain \ left : e.snap = b.base
    BY <1>3, NextInChain
<1>6. \A c \in done : c.snap <= b.snap /\ (c.snap = b.snap => c = b)
    BY <1>4, <1>5
<1>7. CASE left' = {}
    <2>1. rpc' = "idle" /\ outcome' = "ok"
        BY <1>7 DEF Restored
    <2>2. \A c \in chain : Newest(c, chain) <=> c = b
        BY <1>4, <1>5, <1>6, <1>7 DEF Newest
    <2>3. RestoredExactly'
        BY <1>1, <2>2 DEF RestoredExactly, Newest
    <2>4. NoImpostors'
        BY <1>1, <1>4, <1>7, <2>2 DEF NoImpostors, Newest, Extracts
    <2> QED
        BY <1>2, <2>1, <2>3, <2>4 DEF RestoreInv
<1>8. CASE left' # {}
    <2>1. rpc' = "open" /\ outcome' = "pending"
        BY <1>3, <1>8 DEF Restored, ChainOK
    <2>2. \A c \in left' : c \in chain /\ b.snap < c.snap
        <3>1. \A c \in left' : c # b /\ c.snap # b.snap
            BY <1>1, <1>3, <1>4 DEF ChainOK, UniqueNames
        <3> QED
            BY <1>1, <1>4, <3>1 DEF Oldest
    <2>3. \A c \in chain \ left', d \in left' : c.snap < d.snap
        BY <1>4, <1>6, <2>2
    <2>4. ChainOK'
        BY <1>1, <1>3, <2>1, <2>3 DEF ChainOK
    <2>5. ASSUME NEW d \in left', Oldest(d, left')
          PROVE  d.base = b.snap
        <3>1. d.base \in Nat /\ d.base < d.snap /\ d.snap \in Nat /\ b.snap \in Nat
            BY <1>3, <1>4, <2>2 DEF ChainOK, Older
        <3>2. b.snap <= d.base
            BY <1>3, <1>4, <2>2 DEF ChainOK, Linear
        <3>3. ~IsFull(d)
            BY <1>4, <3>1, <3>2 DEF IsFull, NoBase
        <3>4. PICK e \in chain : e.snap = d.base
            BY <1>3, <2>2, <3>3 DEF ChainOK, BaseClosed
        <3>5. e \in done
            BY <1>4, <2>5, <3>1, <3>4 DEF Oldest
        <3> QED
            BY <1>4, <1>6, <3>1, <3>2, <3>4, <3>5
    <2>6. input # "short"
        <3>1. PICK d \in left' : TRUE
            BY <1>8
        <3>2. b.snap <= d.base
            BY <1>3, <1>4, <2>2 DEF ChainOK, Linear
        <3>3. ~IsFull(d)
            BY <1>4, <2>2, <3>2 DEF IsFull, NoBase
        <3> QED
            BY <1>3, <2>2, <3>3 DEF ChainOK
    <2>7. dirs'[b.snap] = Holding(b.snap)
        BY <2>6
    <2>8. ASSUME NEW d \in left', Oldest(d, left')
          PROVE  InPlace(d)' /\ Behind(d)'
        <3>1. InPlace(d)'
            BY <1>1, <2>1, <2>5, <2>7, <2>8
               DEF InPlace, TarInPlace, MariabackupInPlace, BaseReady
        <3>2. Behind(d)'
            BY <1>1, <1>4, <2>5, <2>7, <2>8 DEF Behind, Extracts
        <3> QED
            BY <3>1, <3>2
    <2> QED
        BY <1>2, <2>1, <2>4, <2>8 DEF RestoreInv, RestoredExactly, NoImpostors
<1> QED
    BY <1>7, <1>8

(* Where the restore of the oldest backup left stands.                      *)
LEMMA Here ==
    ASSUME TypeOK, RestoreInv, NEW b \in left, Oldest(b, left)
    PROVE  /\ rpc # "idle" /\ InPlace(b) /\ Behind(b)
           /\ route \in Routes
           /\ (input = "short" => route.dest = "btrfs") /\ (input = "empty" => route.plain)
           /\ b \in Record /\ b.snap \in Names /\ b.base \in Nat /\ b.base < b.snap
           /\ b.base # b.snap
           /\ ~IsFull(b) => b.base \in Names
           /\ dirs \in [Names -> Content]
           /\ \A c \in chain \ left :
                  /\ c.snap \in Names /\ c.snap # b.snap
                  /\ IsFull(b) => c.snap # b.base
<1>1. rpc # "idle" /\ b \in Record
    BY DEF TypeOK, Record
<1>2. b.snap \in Names /\ b.snap \in Nat /\ b.base \in Nat
    BY <1>1, RecordType
<1>3. /\ b.base < b.snap
      /\ \A c \in chain \ left : c.snap \in Names /\ c.snap > NoBase /\ c.snap <= b.base
      /\ ~IsFull(b) => \E e \in chain \ left : e.snap = b.base
    BY <1>1, NextInChain, RecordType DEF RestoreInv
<1>4. \A c \in chain \ left : c.snap \in Nat
    BY NextInChain, RecordType, <1>1 DEF RestoreInv
<1>5. \A c \in chain \ left : c.snap # b.snap /\ (IsFull(b) => c.snap # b.base)
    BY <1>2, <1>3, <1>4 DEF IsFull, NoBase
<1> QED
    BY <1>1, <1>2, <1>3, <1>5 DEF RestoreInv, ChainOK, Chosen, TypeOK

LEMMA ReceiveStep ==
    ASSUME TypeOK, RestoreInv, NEW b \in left, Oldest(b, left),
           OpenLocal(b) \/ ReceiveBackup(b) \/ ReceiveFails(b)
               \/ ReadHeader(b) \/ HeaderFails(b)
    PROVE  RestoreInv'
<1> USE Here DEF target, Extracts
<1>2. CASE OpenLocal(b) \/ ReceiveBackup(b)
    <2>1. /\ rpc = "open" /\ rpc' = "header" /\ input' \in Streams \cup {"whole"}
          /\ UNCHANGED <<route, store, dirs, chain, left, outcome>>
        BY <1>2 DEF OpenLocal, ReceiveBackup
    <2>2. InPlace(b)' /\ Behind(b)'
        BY <2>1 DEF InPlace, TarInPlace, MariabackupInPlace, BaseReady, Behind
    <2>3. /\ input' = "short" => route.dest = "btrfs"
          /\ input' = "empty" => route.plain
        BY <2>1, RestoreAssumption DEF Streams
    <2> QED
        BY <2>1, <2>2, <2>3, GoesOn
<1>3. CASE ReadHeader(b)
    <2>1. /\ rpc = "header" /\ rpc' \in {"clear", "extract"}
          /\ rpc' = "extract" <=> ~Extracts
          /\ UNCHANGED <<route, store, dirs, chain, left, input, outcome>>
        BY <1>3 DEF ReadHeader
    <2>2. InPlace(b)' /\ Behind(b)'
        BY <2>1 DEF InPlace, TarInPlace, MariabackupInPlace, BaseReady, Behind, TypeOK, Route
    <2> QED
        BY <2>1, <2>2, GoesOn
<1>4. CASE ReceiveFails(b)
    <2>1. CASE RestoreFails
        BY <1>4, <2>1, Ends, ChosenKept DEF ReceiveFails, RestoreInv
    <2>2. CASE ~RestoreFails
        <3>1. /\ rpc = "open" /\ rpc' = "header" /\ input' = "hung"
              /\ UNCHANGED <<route, store, dirs, chain, left, outcome>>
            BY <1>4, <2>2 DEF ReceiveFails
        <3>2. InPlace(b)' /\ Behind(b)'
            BY <3>1 DEF InPlace, TarInPlace, MariabackupInPlace, BaseReady, Behind
        <3> QED
            BY <3>1, <3>2, GoesOn
    <2> QED
        BY <2>1, <2>2
<1>5. CASE HeaderFails(b)
    BY <1>5, Ends, ChosenKept DEF HeaderFails, RestoreInv
<1> QED
    BY <1>2, <1>3, <1>4, <1>5

LEMMA TarStep ==
    ASSUME TypeOK, RestoreInv, Noticed, NEW b \in left, Oldest(b, left), route.kind = "tar",
           Clear(b) \/ TarPlace(b) \/ TarExtract(b) \/ TarExtractsNothing(b)
    PROVE  RestoreInv'
<1> USE Here DEF Extracts, Absent, Holding
<1>1. TarInPlace(b)
    BY DEF InPlace
<1>2. CASE Clear(b)
    <2>1. /\ rpc = "clear" /\ rpc' = "place"
          /\ dirs' = [dirs EXCEPT ![b.snap] = Absent]
          /\ UNCHANGED <<route, store, chain, left, input, outcome>>
        BY <1>2 DEF Clear, Goto
    <2>2. InPlace(b)' /\ Behind(b)'
        BY <1>1, <2>1 DEF InPlace, TarInPlace, BaseReady, Behind
    <2> QED
        BY <2>1, <2>2, GoesOn
<1>3. CASE TarPlace(b)
    <2>1. /\ rpc = "place" /\ rpc' = "extract"
          /\ UNCHANGED <<route, store, chain, left, input, outcome>>
        BY <1>3 DEF TarPlace, Goto
    <2>2. CASE IsFull(b)
        <3>1. dirs' = [dirs EXCEPT ![b.snap] = Holding(NoBase)]
            BY <1>1, <1>3, <2>1, <2>2 DEF TarPlace, Made, Present, TarInPlace
        <3>2. InPlace(b)' /\ Behind(b)'
            BY <1>1, <2>1, <2>2, <3>1 DEF InPlace, TarInPlace, Behind, IsFull
        <3> QED
            BY <2>1, <3>2, GoesOn
    <2>3. CASE ~IsFull(b)
        <3>1. dirs' = [dirs EXCEPT ![b.base] = Absent, ![b.snap] = dirs[b.base]]
            BY <1>3, <2>3 DEF TarPlace, Moved
        <3>2. InPlace(b)' /\ Behind(b)'
            BY <1>1, <2>1, <2>3, <3>1 DEF InPlace, TarInPlace, BaseReady, Behind
        <3> QED
            BY <2>1, <3>2, GoesOn
    <2> QED
        BY <2>2, <2>3
<1>4. CASE TarExtract(b)
    <2>1. /\ rpc = "extract" /\ input = "whole" /\ Restored(b)
          /\ dirs' = [dirs EXCEPT ![b.snap] = Holding(Over(b, dirs[b.snap].of))]
        BY <1>4 DEF TarExtract
    <2>2. dirs'[b.snap] = Holding(b.snap)
        <3>1. dirs[b.snap].of = b.base
            BY <1>1, <2>1 DEF TarInPlace
        <3>2. Over(b, dirs[b.snap].of) = b.snap
            BY <3>1 DEF Over
        <3> QED
            BY <2>1, <3>2
    <2>3. \A c \in chain \ left : dirs'[c.snap] = Absent
        BY <1>1, <2>1 DEF TarInPlace, Behind
    <2> QED
        BY <2>1, <2>2, <2>3, GoesToNext
<1>5. CASE TarExtractsNothing(b)
    BY <1>5 DEF TarExtractsNothing, Noticed
<1> QED
    BY <1>2, <1>3, <1>4, <1>5

LEMMA MariabackupStep ==
    ASSUME TypeOK, RestoreInv, Noticed, NEW b \in left, Oldest(b, left),
           route.kind = "mariabackup",
           \/ Clear(b) \/ MariabackupPlace(b) \/ MariabackupExtract(b) \/ PrepareFull(b)
           \/ Merge(b) \/ Discard(b) \/ MariabackupRename(b) \/ PrepareSkipped(b)
    PROVE  RestoreInv'
<1> USE Here DEF Extracts, Absent, Holding
<1>1. MariabackupInPlace(b)
    BY DEF InPlace
<1>2. ASSUME UNCHANGED <<route, store, chain, left, input, outcome>>, rpc' # "idle",
             rpc \notin {"discard", "rename"}, rpc' \notin {"discard", "rename"},
             NEW d, dirs' = [dirs EXCEPT ![b.snap] = d]
      PROVE  RestoreInv'
    <2>1. InPlace(b)' /\ Behind(b)'
        BY <1>1, <1>2 DEF InPlace, MariabackupInPlace, BaseReady, Behind
    <2> QED
        BY <1>2, <2>1, GoesOn
<1>3. CASE Clear(b)
    BY <1>2, <1>3 DEF Clear, Goto
<1>4. CASE MariabackupPlace(b)
    <2>1. dirs' = [dirs EXCEPT ![b.snap] = dirs'[b.snap]]
        BY <1>4 DEF MariabackupPlace, Made
    <2> QED
        BY <1>2, <1>4, <2>1 DEF MariabackupPlace, Goto
<1>5. CASE MariabackupExtract(b)
    BY <1>2, <1>5 DEF MariabackupExtract, Goto
<1>6. CASE PrepareFull(b)
    <2>1. rpc = "prepare" /\ IsFull(b) /\ Restored(b) /\ dirs'[b.snap] = Holding(b.snap)
        BY <1>6 DEF PrepareFull
    <2>2. \A c \in chain \ left : dirs'[c.snap] = Absent
        BY <1>6, <2>1 DEF PrepareFull, Behind
    <2> QED
        BY <2>1, <2>2, GoesToNext
<1>7. CASE Merge(b)
    <2>1. /\ rpc = "prepare" /\ rpc' = "discard" /\ ~IsFull(b)
          /\ dirs' = [dirs EXCEPT ![b.base] = Holding(Over(b, dirs[b.base].of))]
          /\ UNCHANGED <<route, store, chain, left, input, outcome>>
        BY <1>7 DEF Merge, Goto
    <2>2. Over(b, dirs[b.base].of) = b.snap
        <3>1. dirs[b.base].of = b.base
            BY <1>1, <2>1 DEF MariabackupInPlace, BaseReady
        <3> QED
            BY <3>1 DEF Over
    <2>3. InPlace(b)' /\ Behind(b)'
        BY <1>1, <2>1, <2>2 DEF InPlace, MariabackupInPlace, Behind
    <2> QED
        BY <2>1, <2>3, GoesOn
<1>8. CASE Discard(b)
    <2>1. /\ rpc = "discard" /\ rpc' = "rename"
          /\ dirs' = [dirs EXCEPT ![b.snap] = Absent]
          /\ UNCHANGED <<route, store, chain, left, input, outcome>>
        BY <1>8 DEF Discard, Goto
    <2>2. InPlace(b)' /\ Behind(b)'
        BY <1>1, <2>1 DEF InPlace, MariabackupInPlace, Behind
    <2> QED
        BY <2>1, <2>2, GoesOn
<1>9. CASE MariabackupRename(b)
    <2>1. /\ rpc = "rename" /\ Restored(b)
          /\ dirs' = [dirs EXCEPT ![b.base] = Absent, ![b.snap] = dirs[b.base]]
        BY <1>9 DEF MariabackupRename, Moved
    <2>2. dirs'[b.snap] = Holding(b.snap)
        BY <1>1, <2>1 DEF MariabackupInPlace
    <2>3. \A c \in chain \ left : dirs'[c.snap] = Absent
        BY <1>1, <2>1 DEF MariabackupInPlace, Behind
    <2> QED
        BY <2>1, <2>2, <2>3, GoesToNext
<1>10. CASE PrepareSkipped(b)
    BY <1>10 DEF PrepareSkipped, Noticed
<1> QED
    BY <1>3, <1>4, <1>5, <1>6, <1>7, <1>8, <1>9, <1>10

LEMMA VolumeStep ==
    ASSUME TypeOK, RestoreInv, NEW b \in left, Oldest(b, left),
           BtrfsReceive(b) \/ BtrfsRename(b) \/ ZfsReceive(b)
    PROVE  RestoreInv'
<1> USE Here DEF Extracts, Holding
<1>1. CASE BtrfsReceive(b)
    <2>1. /\ route.kind = "btrfs" /\ rpc' = "rename"
          /\ UNCHANGED <<route, store, dirs, chain, left, input, outcome>>
        BY <1>1 DEF BtrfsReceive, Goto
    <2>2. InPlace(b)' /\ Behind(b)'
        BY <2>1 DEF InPlace, Behind
    <2> QED
        BY <2>1, <2>2, GoesOn
<1>2. CASE BtrfsRename(b)
    <2>1. /\ route.kind = "btrfs" /\ Restored(b)
          /\ dirs' = [dirs EXCEPT ![b.snap] =
                          Holding(IF input = "short" THEN Mixed ELSE b.snap)]
        BY <1>2 DEF BtrfsRename
    <2>2. \A c \in chain \ left : dirs'[c.snap] = Holding(c.snap)
        BY <2>1 DEF Behind
    <2> QED
        BY <2>1, <2>2, GoesToNext
<1>3. CASE ZfsReceive(b)
    <2>1. /\ rpc = "extract" /\ route.kind = "zfs" /\ Restored(b)
          /\ dirs' = [dirs EXCEPT ![b.snap] = Holding(b.snap)]
        BY <1>3 DEF ZfsReceive
    <2>2. \A c \in chain \ left : dirs'[c.snap] = Holding(c.snap)
        BY <2>1 DEF Behind
    <2> QED
        BY <2>1, <2>2, GoesToNext
<1> QED
    BY <1>1, <1>2, <1>3

LEMMA BackupStep ==
    ASSUME TypeOK, RestoreInv, Noticed, NEW b \in left, Oldest(b, left), RestoreBackup(b)
    PROVE  RestoreInv'
<1>1. InPlace(b)
    BY Here
<1>2. CASE Clear(b)
    <2>1. Extracts
        BY <1>1, <1>2 DEF Clear, InPlace, Extracts
    <2> QED
        BY <1>2, <2>1, TarStep, MariabackupStep DEF Extracts
<1>3. CASE TarPlace(b) \/ TarExtract(b) \/ TarExtractsNothing(b)
    BY <1>3, TarStep DEF TarPlace, TarExtract, TarExtractsNothing
<1>4. CASE MariabackupPlace(b) \/ MariabackupExtract(b) \/ MariabackupRename(b)
    BY <1>4, MariabackupStep DEF MariabackupPlace, MariabackupExtract, MariabackupRename
<1>5. CASE PrepareFull(b) \/ Merge(b) \/ Discard(b) \/ PrepareSkipped(b)
    <2>1. rpc \in {"prepare", "discard"}
        BY <1>5 DEF PrepareFull, Merge, Discard, PrepareSkipped
    <2>2. route.kind = "mariabackup"
        BY <1>1, <2>1 DEF InPlace, TarInPlace
    <2> QED
        BY <1>5, <2>2, MariabackupStep
<1>6. CASE BtrfsReceive(b) \/ BtrfsRename(b) \/ ZfsReceive(b)
    BY <1>6, VolumeStep
<1> QED
    BY <1>2, <1>3, <1>4, <1>5, <1>6 DEF RestoreBackup

(* A chain is taken from the listing, and restored from its full backup on. *)
LEMMA StartStep ==
    ASSUME TypeOK, RestoreInv, StartRestore
    PROVE  RestoreInv'
<1>1. PICK b \in Listing :
          Restorable(b, Listing) /\ chain' = GetFullChain(b, Listing) /\ left' = chain'
    BY DEF StartRestore
<1>2. UNCHANGED <<route, store>> /\ rpc' = "open" /\ input' = "none" /\ outcome' = "pending"
    BY DEF StartRestore
<1>3. /\ Listing \subseteq Record /\ UniqueNames(Listing) /\ Older(Listing)
      /\ route.dest # "file" => \A c \in Listing : IsFull(c)
    BY ListingOK DEF RestoreInv
<1>4. /\ chain' \subseteq Listing
      /\ BaseClosed(chain') /\ Linear(chain')
    <2>1. Listing \in SUBSET [snap : Nat, base : Nat]
        BY <1>3, RestoreAssumption DEF Record, Snapshot
    <2> QED
        BY <1>1, <1>3, <2>1, ChainClosed, ChainLinear DEF GetFullChain
<1>5. ChainOK'
    BY <1>1, <1>2, <1>3, <1>4 DEF ChainOK, UniqueNames, Older
<1>6. ASSUME NEW c \in left', Oldest(c, left')
      PROVE  InPlace(c)' /\ Behind(c)'
    <2>1. IsFull(c)
        <3>1. SUFFICES ASSUME ~IsFull(c) PROVE FALSE
            OBVIOUS
        <3>2. PICK e \in left' : e.snap = c.base
            BY <1>1, <1>4, <1>6, <3>1 DEF BaseClosed
        <3>3. c \in Record /\ e \in Record /\ c.base < c.snap
            BY <1>1, <1>3, <1>4, <1>6 DEF Older
        <3>4. c.snap <= e.snap
            BY <1>6 DEF Oldest
        <3> QED
            BY <3>2, <3>3, <3>4, RecordType
    <2> QED
        BY <1>1, <1>2, <2>1
           DEF InPlace, TarInPlace, MariabackupInPlace, BaseReady, Behind
<1>7. Chosen'
    BY <1>2, ChosenKept DEF RestoreInv
<1> QED
    BY <1>2, <1>5, <1>6, <1>7 DEF RestoreInv, RestoredExactly, NoImpostors

LEMMA RestoreStep ==
    ASSUME TypeOK, RestoreInv, Noticed, Next
    PROVE  RestoreInv'
<1>1. CASE StartRestore
    BY <1>1, StartStep
<1>2. CASE NothingToRestore
    BY <1>2, Ends, ChosenKept DEF NothingToRestore, RestoreInv
<1>3. CASE Restoring
    BY <1>3, ReceiveStep, BackupStep DEF Restoring, RestoreCommand
<1>4. CASE \E b \in left : Oldest(b, left) /\ RestoreDies(b)
    <2>1. RestoreFails /\ UNCHANGED <<route, store>>
        BY <1>4 DEF RestoreDies
    <2> QED
        BY <2>1, Ends, ChosenKept DEF RestoreInv
<1>5. CASE StartFetch \/ FetchDies \/ (\E b \in fleft : Oldest(b, fleft) /\ FetchCommand(b))
    <2>1. UNCHANGED <<route, store, target, restoring>>
        BY <1>5 DEF StartFetch, FetchDies, FetchCommand, FetchOpen, FetchGone, FetchCopied
    <2> QED
        BY <2>1, Elsewhere, ChosenKept DEF RestoreInv, target
<1>6. CASE \E b \in store : Prune(b)
    <2>1. UNCHANGED <<route, target, restoring>> /\ store' \subseteq store
        BY <1>6 DEF Prune
    <2> QED
        BY <2>1, Elsewhere, ChosenKept DEF RestoreInv, target
<1> QED
    BY <1>1, <1>2, <1>3, <1>4, <1>5, <1>6 DEF Next

-----------------------------------------------------------------------------
(* Types.                                                                   *)

(* Every content a restore writes is one.                                   *)
LEMMA ContentType ==
    /\ Absent \in Content /\ Holding(NoBase) \in Content /\ Holding(Mixed) \in Content
    /\ \A n \in Names : Holding(n) \in Content
    /\ \A b \in Record : \A n : Holding(Over(b, n)) \in Content
<1>1. \A b \in Record : b.snap \in Names
    BY RecordType
<1> QED
    BY <1>1 DEF Content, Absent, Holding, Over

LEMMA DirsType ==
    ASSUME TypeOK, RestoreInv, Noticed, NEW b \in left, Oldest(b, left),
           RestoreBackup(b) \/ RestoreDies(b)
    PROVE  dirs' \in [Names -> Content] /\ tmp' \subseteq Names
<1> USE Here, ContentType
<1>1. dirs \in [Names -> Content] /\ tmp \subseteq Names
    BY DEF TypeOK
<1>2. CASE Clear(b) \/ TarPlace(b) \/ TarExtract(b) \/ TarExtractsNothing(b)
    BY <1>1, <1>2 DEF Clear, TarPlace, TarExtract, TarExtractsNothing, Made, Moved,
                      Present, target
<1>3. CASE MariabackupPlace(b) \/ MariabackupExtract(b) \/ PrepareFull(b) \/ Merge(b)
               \/ Discard(b) \/ PrepareSkipped(b)
    BY <1>1, <1>3 DEF MariabackupPlace, MariabackupExtract, PrepareFull, Merge, Discard,
                      PrepareSkipped, Made, Present, target
<1>4. CASE MariabackupRename(b)
    <2>1. b.base \in Names
        BY <1>4 DEF MariabackupRename, InPlace, MariabackupInPlace
    <2> QED
        BY <1>1, <1>4, <2>1 DEF MariabackupRename, Moved
<1>5. CASE BtrfsReceive(b) \/ BtrfsRename(b) \/ ZfsReceive(b)
    BY <1>1, <1>5 DEF BtrfsReceive, BtrfsRename, ZfsReceive
<1>6. CASE RestoreDies(b)
    BY <1>1, <1>6 DEF RestoreDies
<1> QED
    BY <1>2, <1>3, <1>4, <1>5, <1>6 DEF RestoreBackup

(* What TypeOK says of the restore command and its directory.               *)
RestoreTypeOK ==
    /\ dirs \in [Names -> Content]
    /\ tmp \subseteq Names
    /\ rpc \in {"idle", "open", "header", "clear", "place", "extract",
                "prepare", "discard", "rename"}
    /\ chain \in SUBSET [snap : Names, base : Nat]
    /\ left \subseteq chain
    /\ input \in {"none", "whole", "cut", "empty", "short", "raw", "hung"}
    /\ outcome \in Outcomes
    /\ rpc = "idle" <=> left = {}

LEMMA RestoreTyped ==
    ASSUME TypeOK, RestoreInv, Noticed, Next
    PROVE  RestoreTypeOK'
<1>1. RestoreTypeOK
    BY DEF TypeOK, RestoreTypeOK
<1>2. ASSUME RestoreFails, dirs' \in [Names -> Content], tmp' \subseteq Names
      PROVE  RestoreTypeOK'
    BY <1>2 DEF RestoreFails, RestoreTypeOK, Outcomes
<1>3. CASE StartRestore
    <2>1. PICK b \in Listing :
              Restorable(b, Listing) /\ chain' = GetFullChain(b, Listing) /\ left' = chain'
        BY <1>3 DEF StartRestore
    <2>2. b \in chain' /\ chain' \subseteq Record
        BY <2>1, ListingOK DEF RestoreInv, GetFullChain
    <2> QED
        BY <1>1, <1>3, <2>1, <2>2 DEF StartRestore, RestoreTypeOK, Outcomes, Record, target
<1>4. CASE NothingToRestore
    BY <1>1, <1>2, <1>4 DEF NothingToRestore, RestoreTypeOK, target
<1>5. ASSUME NEW b \in left, Oldest(b, left), RestoreDies(b)
      PROVE  RestoreTypeOK'
    BY <1>2, <1>5, DirsType DEF RestoreDies
<1>6. ASSUME NEW b \in left, Oldest(b, left),
             OpenLocal(b) \/ ReceiveBackup(b) \/ ReceiveFails(b) \/ ReadHeader(b) \/ HeaderFails(b)
      PROVE  RestoreTypeOK'
    <2>1. CASE RestoreFails
        BY <1>1, <1>2, <1>6, <2>1
           DEF OpenLocal, ReceiveBackup, ReceiveFails, ReadHeader, HeaderFails, target,
               RestoreTypeOK
    <2>2. CASE ~RestoreFails
        <3>1. /\ rpc' \in {"header", "clear", "extract"}
              /\ input' \in Streams \cup {"whole", "hung", input}
              /\ UNCHANGED <<dirs, tmp, chain, left, outcome>>
            BY <1>6, <2>2
               DEF OpenLocal, ReceiveBackup, ReceiveFails, ReadHeader, HeaderFails, target
        <3> QED
            BY <1>1, <1>6, <3>1 DEF RestoreTypeOK, Streams
    <2> QED
        BY <2>1, <2>2
<1>7. ASSUME NEW b \in left, Oldest(b, left), RestoreBackup(b)
      PROVE  RestoreTypeOK'
    <2>1. dirs' \in [Names -> Content] /\ tmp' \subseteq Names
        BY <1>7, DirsType
    <2>2. CASE Restored(b)
        BY <1>1, <2>1, <2>2 DEF Restored, RestoreTypeOK, Outcomes
    <2>3. CASE \E next \in {"place", "extract", "prepare", "discard", "rename"} : Goto(next)
        BY <1>1, <1>7, <2>1, <2>3 DEF Goto, RestoreTypeOK
    <2> QED
        BY <1>7, <2>2, <2>3
           DEF RestoreBackup, Clear, TarPlace, TarExtract, TarExtractsNothing, MariabackupPlace,
               MariabackupExtract, PrepareFull, Merge, Discard, MariabackupRename,
               PrepareSkipped, BtrfsReceive, BtrfsRename, ZfsReceive
<1>8. CASE UNCHANGED <<target, restoring>>
    BY <1>1, <1>8 DEF RestoreTypeOK, target, restoring
<1>9. StartFetch \/ FetchDies \/ (\E b \in fleft : Oldest(b, fleft) /\ FetchCommand(b))
          \/ (\E b \in store : Prune(b))
      => UNCHANGED <<target, restoring>>
    BY DEF StartFetch, FetchDies, FetchCommand, FetchOpen, FetchGone, FetchCopied, Prune
<1> QED
    BY <1>3, <1>4, <1>5, <1>6, <1>7, <1>8, <1>9 DEF Next, Restoring, RestoreCommand

(* What it says of everything else.                                         *)
FetchTypeOK ==
    /\ route \in Route
    /\ starts \in 0 .. MaxStarts
    /\ store \in SUBSET Backup
    /\ sound \in SUBSET Backup
    /\ unsound \in SUBSET Backup
    /\ fpc \in {"idle", "open", "copy", "hung"}
    /\ fleft \in SUBSET [snap : Names, base : Nat]
    /\ goal \in SUBSET Backup
    /\ fetched \in Outcomes
    /\ fpc = "idle" <=> fleft = {}

LEMMA RecordBackup == Record \subseteq Backup
BY RestoreAssumption DEF Record, Backup

(* A restore reads files; it neither writes nor removes one.                *)
LEMMA FilesKept ==
    ASSUME NEW b, RestoreCommand(b) \/ RestoreDies(b)
    PROVE  UNCHANGED <<route, store, files, fetching, starts>>
<1>1. CASE OpenLocal(b) \/ ReceiveBackup(b) \/ ReceiveFails(b) \/ ReadHeader(b)
               \/ HeaderFails(b) \/ RestoreDies(b)
    BY <1>1 DEF OpenLocal, ReceiveBackup, ReceiveFails, ReadHeader, HeaderFails, RestoreDies
<1>2. CASE RestoreBackup(b)
    <2>1. Restored(b) \/ \E next : Goto(next)
        BY <1>2
           DEF RestoreBackup, Clear, TarPlace, TarExtract, TarExtractsNothing, MariabackupPlace,
               MariabackupExtract, PrepareFull, Merge, Discard, MariabackupRename,
               PrepareSkipped, BtrfsReceive, BtrfsRename, ZfsReceive
    <2> QED
        BY <2>1 DEF Restored, Goto
<1> QED
    BY <1>1, <1>2 DEF RestoreCommand

LEMMA FetchTyped ==
    ASSUME TypeOK, RestoreInv, Next
    PROVE  FetchTypeOK'
<1>1. FetchTypeOK
    BY DEF TypeOK, FetchTypeOK
<1>2. ASSUME UNCHANGED <<route, store, files, fetching>>, Start \/ starts' = starts
      PROVE  FetchTypeOK'
    <2>1. starts' \in 0 .. MaxStarts
        BY <1>1, <1>2, RestoreAssumption DEF FetchTypeOK, Start
    <2> QED
        BY <1>1, <1>2, <2>1 DEF FetchTypeOK, files, fetching
<1>3. CASE StartRestore \/ NothingToRestore
    BY <1>2, <1>3 DEF StartRestore, NothingToRestore
<1>4. CASE Restoring \/ \E b \in left : Oldest(b, left) /\ RestoreDies(b)
    <2>1. PICK b : RestoreCommand(b) \/ RestoreDies(b)
        BY <1>4 DEF Restoring
    <2>2. UNCHANGED <<route, store, files, fetching, starts>>
        BY <2>1, FilesKept
    <2> QED
        BY <1>2, <2>2
<1>5. CASE StartFetch
    <2>1. PICK b \in Listing, recursive \in BOOLEAN :
              /\ fleft' = IF recursive THEN Walk(b, Listing) ELSE {b}
              /\ goal' = IF recursive /\ Restorable(b, Listing) THEN {b} ELSE {}
        BY <1>5 DEF StartFetch
    <2>2. fleft' # {} /\ fleft' \subseteq Record /\ goal' \subseteq Backup
        BY <2>1, ListingOK, RecordBackup DEF RestoreInv, Walk
    <2>3. starts' \in 0 .. MaxStarts
        BY <1>1, <1>5, RestoreAssumption DEF FetchTypeOK, StartFetch, Start
    <2> QED
        BY <1>1, <1>5, <2>2, <2>3 DEF FetchTypeOK, StartFetch, Outcomes, Record, files
<1>6. ASSUME NEW b \in fleft, FetchCommand(b)
      PROVE  FetchTypeOK'
    <2>1. b \in Backup
        BY <1>1, RecordBackup DEF FetchTypeOK, Record
    <2>2. CASE FetchOpen(b)
        BY <1>1, <1>6, <2>1, <2>2 DEF FetchTypeOK, FetchOpen
    <2>3. CASE FetchGone(b)
        BY <1>1, <1>6, <2>1, <2>3 DEF FetchTypeOK, FetchGone, FetchFails, Outcomes
    <2>4. CASE FetchCopied(b)
        BY <1>1, <2>1, <2>4 DEF FetchTypeOK, FetchCopied, Outcomes
    <2> QED
        BY <1>6, <2>2, <2>3, <2>4 DEF FetchCommand
<1>7. CASE FetchDies
    BY <1>1, <1>7 DEF FetchTypeOK, FetchDies, FetchFails, Outcomes, files
<1>8. ASSUME NEW b \in store, Prune(b)
      PROVE  FetchTypeOK'
    BY <1>1, <1>8 DEF FetchTypeOK, Prune, files, fetching
<1> QED
    BY <1>2, <1>3, <1>4, <1>5, <1>6, <1>7, <1>8 DEF Next

-----------------------------------------------------------------------------
(* Fetching.                                                                *)

LEMMA FetchStep ==
    ASSUME TypeOK, RestoreInv, FetchInv, Next
    PROVE  FetchInv'
<1>1. CASE UNCHANGED <<route, files, fetching>>
    BY <1>1 DEF FetchInv, files, fetching
<1>2. StartRestore \/ NothingToRestore \/ (\E b \in store : Prune(b))
      => UNCHANGED <<route, files, fetching>>
    BY DEF StartRestore, NothingToRestore, Prune
<1>3. CASE StartFetch
    <2>1. PICK b \in Listing, recursive \in BOOLEAN :
              /\ fleft' = IF recursive THEN Walk(b, Listing) ELSE {b}
              /\ goal' = IF recursive /\ Restorable(b, Listing) THEN {b} ELSE {}
        BY <1>3 DEF StartFetch
    <2>2. ASSUME recursive, Restorable(b, Listing)
          PROVE  Restorable(b, sound' \cup fleft')
        <3>1. UniqueNames(Listing) /\ \A x \in Listing : x.snap # NoBase
            BY ListingOK, RecordType DEF RestoreInv, NoBase
        <3>2. b \in fleft' /\ BaseClosed(fleft')
            BY <2>1, <2>2, <3>1, WalkClosed
        <3> QED
            BY <3>2 DEF Restorable
    <2>3. fetched' = "pending"
        BY <1>3 DEF StartFetch
    <2> QED
        BY <2>1, <2>2, <2>3 DEF FetchInv
<1>4. ASSUME NEW b \in fleft, FetchCommand(b)
      PROVE  FetchInv'
    <2>1. CASE FetchOpen(b)
        <3>1. sound' \cup fleft' = sound \cup fleft
            BY <1>4, <2>1 DEF FetchOpen
        <3> QED
            BY <2>1, <3>1 DEF FetchOpen, FetchInv
    <2>2. CASE FetchGone(b)
        <3>1. fpc = "open" /\ route' = route
            BY <2>2 DEF FetchGone
        <3>2. CASE FetchFails
            BY <3>2 DEF FetchFails, FetchInv
        <3>3. CASE ~FetchFails
            <4>1. sound' \cup fleft' = sound \cup fleft
                BY <1>4, <2>2, <3>3 DEF FetchGone
            <4> QED
                BY <2>2, <3>1, <3>3, <4>1 DEF FetchGone, FetchInv
        <3> QED
            BY <3>2, <3>3
    <2>3. CASE FetchCopied(b)
        <3>1. fpc = "copy" /\ UNCHANGED <<route, goal>>
            BY <2>3 DEF FetchCopied
        <3>2. fetched = "pending" /\ (fpc' # "idle" => fetched' = "pending")
            BY <2>3, <3>1 DEF FetchCopied, FetchInv
        <3>3. route.dest = "file" => sound' \cup fleft' = sound \cup fleft
            BY <1>4, <2>3 DEF FetchCopied
        <3> QED
            BY <3>1, <3>2, <3>3 DEF FetchInv
    <2> QED
        BY <1>4, <2>1, <2>2, <2>3 DEF FetchCommand
<1>5. CASE FetchDies
    BY <1>5 DEF FetchDies, FetchFails, FetchInv
<1> QED
    BY <1>1, <1>2, <1>3, <1>4, <1>5, FilesKept DEF Next, Restoring

-----------------------------------------------------------------------------
(* The theorems.                                                            *)

RestoreAll == TypeOK /\ RestoreInv /\ FetchInv

LEMMA InitialState ==
    ASSUME Init
    PROVE  RestoreAll
<1>1. Chosen
    BY RestoreAssumption DEF Init, Chosen, Record, UniqueNames, Older
<1>2. TypeOK
    <2>1. store \in SUBSET Backup
        BY <1>1, RecordBackup DEF Chosen
    <2>2. route \in Route /\ starts \in 0 .. MaxStarts
        BY RestoreAssumption DEF Init
    <2> QED
        BY <2>1, <2>2, ContentType DEF Init, TypeOK, Outcomes
<1> QED
    BY <1>1, <1>2 DEF Init, RestoreAll, RestoreInv, FetchInv, RestoredExactly, NoImpostors

LEMMA RestoreAllStep ==
    ASSUME RestoreAll, Noticed, [Next]_vars
    PROVE  RestoreAll'
<1>1. CASE Next
    <2>1. RestoreInv' /\ FetchInv'
        BY <1>1, RestoreStep, FetchStep DEF RestoreAll
    <2>2. TypeOK'
        BY <1>1, RestoreTyped, FetchTyped DEF RestoreAll, TypeOK, RestoreTypeOK, FetchTypeOK
    <2> QED
        BY <2>1, <2>2 DEF RestoreAll
<1>2. CASE UNCHANGED vars
    <2>1. UNCHANGED <<route, starts, store, target, files, restoring, fetching>>
        BY <1>2 DEF vars
    <2>2. TypeOK'
        BY <2>1 DEF RestoreAll, TypeOK, target, files, restoring, fetching
    <2>3. RestoreInv'
        BY <2>1, Elsewhere, ChosenKept DEF RestoreAll, RestoreInv, target
    <2>4. FetchInv'
        BY <2>1 DEF RestoreAll, FetchInv, files, fetching
    <2> QED
        BY <2>2, <2>3, <2>4 DEF RestoreAll
<1> QED
    BY <1>1, <1>2

LEMMA RestoreAlways ==
    ASSUME Noticed
    PROVE  Spec => []RestoreAll
<1>1. Init => RestoreAll
    BY InitialState
<1>2. RestoreAll /\ [Next]_vars => RestoreAll'
    BY RestoreAllStep
<1> QED
    BY <1>1, <1>2, PTL DEF Spec

(* Every variable of the restore model keeps its type: directories hold     *)
(* snapshots that exist, and a command that is running has something left   *)
(* to do (cmd/restore.go, cmd/fetch.go).                                    *)
THEOREM RestoreTypeCorrect ==
    ASSUME Noticed
    PROVE  Spec => []TypeOK
<1>1. RestoreAll => TypeOK
    BY DEF RestoreAll
<1> QED
    BY <1>1, RestoreAlways, PTL

(* A restore that reports success has left the content of the snapshot that *)
(* was asked for under its name, whatever commands that died left before it *)
(* (cmd/restore.go and the RestoreBackup of every source).                  *)
THEOREM RestoresExactly ==
    ASSUME Noticed
    PROVE  Spec => []RestoredExactly
<1>1. RestoreAll => RestoredExactly
    BY DEF RestoreAll, RestoreInv
<1> QED
    BY <1>1, RestoreAlways, PTL

(* And nothing that looks like another restored snapshot of the chain and   *)
(* is not.                                                                  *)
THEOREM LeavesNoImpostors ==
    ASSUME Noticed
    PROVE  Spec => []NoImpostors
<1>1. RestoreAll => NoImpostors
    BY DEF RestoreAll, RestoreInv
<1> QED
    BY <1>1, RestoreAlways, PTL

(* A recursive fetch that reports success has left whole files that can be  *)
(* restored from (cmd/fetch.go).                                            *)
THEOREM FetchesWholeChains ==
    ASSUME Noticed
    PROVE  Spec => []FetchedRestorable
<1>1. RestoreAll => FetchedRestorable
    <2>1. SUFFICES ASSUME RestoreAll, fetched = "ok", route.dest = "file", NEW b \in goal
                   PROVE  Restorable(b, sound)
        BY DEF FetchedRestorable
    <2>2. fleft = {} /\ Restorable(b, sound \cup fleft)
        BY <2>1 DEF RestoreAll, FetchInv, TypeOK
    <2>3. sound \cup fleft = sound
        BY <2>2
    <2> QED
        BY <2>2, <2>3
<1> QED
    BY <1>1, RestoreAlways, PTL
=============================================================================

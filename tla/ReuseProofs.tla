---------------------------- MODULE ReuseProofs ----------------------------
(***************************************************************************)
(* What ReuseSnapshots needs to be safe, for any number of destinations and *)
(* any policies: an interval shorter than the time between two backups to   *)
(* the same destination.  Then a snapshot that may be reused is younger     *)
(* than every backup the destination has, hence never its own base, nor a   *)
(* second backup of the same name, and its base keeps its name while it is  *)
(* sent.                                                                    *)
(***************************************************************************)
EXTENDS Reuse, TLAPS

Started == {"bookmark", "send", "finalize", "commit"}

(* The snapshots are older than now, and no backup is newer than the        *)
(* latest command that made one for its destination.                        *)
TimeInv ==
    /\ \A s \in archives \cup bookmarks \cup tmps : s < clock
    /\ \A d \in Dests : last[d] <= clock
    /\ \A d \in Dests : \A b \in store[d] : b.snap <= last[d]

(* What the command at work holds.                                          *)
CommandInv ==
    /\ source.kind = "btrfs" => bookmarks = {}
    /\ pc = "create" =>
           /\ last[target] # 0 => clock - last[target] >= Spacing
           /\ \/ current.base = NoBase
              \/ /\ current.base \in archives \cup bookmarks
                 /\ \E b \in store[target] : b.snap = current.base
    /\ pc \in Started =>
           /\ current.base < current.snap
           /\ current.snap <= last[target]
           /\ current.snap < clock
           /\ \A b \in store[target] : b.snap < current.snap
    /\ pc = "bookmark" => source.kind = "zfs"
    /\ pc = "send" /\ source.kind = "btrfs" => IsFull(current) \/ current.base \in archives
    /\ pc = "finalize" /\ source.kind = "btrfs" => sent # "baseless"
    /\ pc = "commit" /\ sent # "ok" => source.kind = "btrfs" /\ reused /\ sent = "broken"

ReuseInv ==
    /\ TypeOK
    /\ TimeInv
    /\ CommandInv
    /\ ChainsEnd
    /\ DistinctNames
    /\ OnlyBrokenSendsListed

-----------------------------------------------------------------------------
LEMMA TypeInit == Init => TypeOK
<1> SUFFICES ASSUME Init PROVE TypeOK
    OBVIOUS
<1>1. current \in [snap : Nat, base : Nat]
    BY DEF Init, NoBase
<1>2. clock \in Snapshot /\ state \in [Dests -> Nat] /\ pc \in PCs
    BY DEF Init, Snapshot, NoBase, PCs
<1>3. sent \in Sent
    BY DEF Init, Sent
<1> QED
    BY <1>1, <1>2, <1>3, ReuseAssumption DEF Init, TypeOK

(* Every step keeps the types.                                              *)
LEMMA TypeStep == TypeOK /\ [Next]_vars => TypeOK'
<1> SUFFICES ASSUME TypeOK, [Next]_vars PROVE TypeOK'
    OBVIOUS
<1> USE ReuseAssumption DEF TypeOK, PCs, snapshots, Exit, NoBase
<1>1. CASE Tick
    BY <1>1 DEF Tick, Snapshot
<1>2. CASE Abort
    BY <1>2 DEF Abort
<1>3. ASSUME NEW d \in Dests, StartBackup(d) PROVE TypeOK'
    <2>1. PICK s \in {NoBase} \cup {b.snap : b \in store[d]} :
              current' = [snap |-> NoBase, base |-> s]
        BY <1>3 DEF StartBackup
    <2>2. s \in Nat
        BY <2>1 DEF Backup, Snapshot, NoBase
    <2>3. current' \in [snap : Nat, base : Nat]
        BY <2>1, <2>2 DEF NoBase
    <2> QED
        BY <1>3, <2>3 DEF StartBackup
<1>4. CASE CreateReusing
    <2>1. PICK s \in archives :
              /\ current' = [current EXCEPT !.snap = s]
              /\ archives' \subseteq archives /\ tmps' \subseteq tmps \cup {s}
        BY <1>4 DEF CreateReusing
    <2>2. current' \in Backup /\ current' \in [snap : Nat, base : Nat]
        BY <2>1 DEF Backup, Snapshot, NoBase
    <2> QED
        BY <1>4, <2>1, <2>2 DEF CreateReusing, Snapshot
<1>5. CASE CreateNew
    <2>1. current' \in Backup /\ current' \in [snap : Nat, base : Nat]
        BY <1>5 DEF CreateNew, Backup, Snapshot, NoBase
    <2>2. /\ clock' \in Snapshot /\ last' \in [Dests -> Nat]
          /\ archives' \subseteq Snapshot /\ tmps' \subseteq Snapshot
        BY <1>5 DEF CreateNew, Snapshot
    <2>3. UNCHANGED <<source, bookmarks, store, short, state, target, sent>>
        BY <1>5 DEF CreateNew
    <2>4. pc' \in PCs /\ reused' \in BOOLEAN
        BY <1>5 DEF CreateNew
    <2> QED
        BY <2>1, <2>2, <2>3, <2>4
<1>6. CASE BookmarkNew
    BY <1>6 DEF BookmarkNew, Backup
<1>7. CASE Send
    BY <1>7 DEF Send, Sent
<1>8. CASE Finalize
    BY <1>8 DEF Finalize, Backup
<1>9. CASE Commit
    <2>1. ASSUME sent # "ok"
          PROVE  [backup |-> current, baseless |-> sent = "baseless", again |-> reused] \in Short
        <3>1. current \in Backup
            BY <1>9 DEF Commit
        <3>2. (sent = "baseless") \in BOOLEAN
            OBVIOUS
        <3> QED
            BY <3>1, <3>2 DEF Short
    <2> DEFINE here == {x \in short[target] : x.backup # current} \cup
                       IF sent = "ok" THEN {}
                       ELSE {[backup |-> current, baseless |-> sent = "baseless", again |-> reused]}
    <2>2. here \in SUBSET Short /\ short' = [short EXCEPT ![target] = here]
        BY <1>9, <2>1 DEF Commit
    <2> HIDE DEF here
    <2>3. short' \in [Dests -> SUBSET Short]
        BY <2>2
    <2> QED
        BY <1>9, <2>3 DEF Commit
<1>10. CASE Record
    BY <1>10 DEF Record
<1>11. CASE PruneSource
    BY <1>11 DEF PruneSource
<1>12. CASE PruneDest
    BY <1>12 DEF PruneDest
<1>13. CASE UNCHANGED vars
    BY <1>13 DEF vars
<1> QED
    BY <1>1, <1>2, <1>3, <1>4, <1>5, <1>6, <1>7, <1>8, <1>9, <1>10, <1>11, <1>12,
       <1>13 DEF Next, Create

(* Every variable keeps its type, and a command that sends has a backup to  *)
(* send.                                                                    *)
THEOREM ReuseTypeCorrect == Spec => []TypeOK
BY TypeInit, TypeStep, PTL DEF Spec

-----------------------------------------------------------------------------
(* The interval is shorter than the time between two backups.               *)
Spaced == ReuseInterval < Spacing

(* What a snapshot needs that is made, or sent again, for target: it is     *)
(* younger than every backup that is there.                                 *)
LEMMA Younger ==
    ASSUME Spaced, ReuseInv, pc = "create", NEW s \in Snapshot,
           clock - s <= ReuseInterval
    PROVE  /\ \A b \in store[target] : b.snap < s
           /\ current.base < s
<1> USE ReuseAssumption DEF ReuseInv, TypeOK, Snapshot, NoBase
<1>1. /\ clock \in Nat /\ s \in Nat /\ ReuseInterval \in Nat /\ Spacing \in Nat
      /\ last[target] \in Nat /\ ReuseInterval < Spacing
    BY DEF Spaced
<1>2. last[target] = 0 \/ last[target] < s
    BY <1>1 DEF CommandInv
<1>3. ASSUME NEW b \in store[target] PROVE b.snap < s
    <2>1. b.snap \in Nat \ {0} /\ b.snap <= last[target]
        BY DEF TimeInv, Backup
    <2> QED
        BY <1>1, <1>2, <2>1
<1>4. s # 0 /\ s > 0
    BY <1>1
<1> QED
    BY <1>3, <1>4 DEF CommandInv

LEMMA CreateStep ==
    ASSUME Spaced, ReuseInv, TypeOK', Create
    PROVE  ReuseInv'
<1> USE ReuseAssumption DEF snapshots
<1>0. /\ TypeOK /\ TimeInv /\ CommandInv /\ pc = "create"
      /\ clock \in Nat /\ clock # 0 /\ target \in Dests
    BY DEF ReuseInv, TypeOK, Create, CreateReusing, CreateNew, Snapshot, NoBase
<1>1. UNCHANGED <<source, store, short, target, bookmarks>>
    BY DEF Create, CreateReusing, CreateNew
<1> DEFINE Fits(s) ==
               /\ current' = [current EXCEPT !.snap = s]
               /\ clock - s <= ReuseInterval
               /\ s <= clock
               /\ archives' \cup tmps' \subseteq archives \cup tmps \cup {s}
               /\ archives \subseteq archives' \cup {s}
               /\ s < clock'
<1>2. \E s \in Snapshot : Fits(s)
    <2>1. CASE CreateReusing
        <3>1. PICK r \in archives :
                  /\ Reuses(r)
                  /\ current' = [current EXCEPT !.snap = r]
                  /\ IF source.kind = "btrfs"
                     THEN archives' = archives \ {r} /\ tmps' = tmps \cup {r}
                     ELSE UNCHANGED <<archives, tmps>>
            BY <2>1 DEF CreateReusing
        <3>2. r \in Snapshot /\ r < clock /\ clock' = clock
            BY <1>0, <2>1 DEF CreateReusing, TypeOK, TimeInv
        <3>3. clock - r <= ReuseInterval
            BY <3>1 DEF Reuses
        <3>4. r <= clock
            BY <1>0, <3>2 DEF Snapshot
        <3>5. archives' \cup tmps' \subseteq archives \cup tmps \cup {r}
            BY <3>1
        <3>6. archives \subseteq archives' \cup {r}
            BY <3>1
        <3>7. Fits(r)
            BY <3>1, <3>2, <3>3, <3>4, <3>5, <3>6
        <3> QED
            BY <3>2, <3>7
    <2>2. CASE CreateNew
        <3>1. clock \in Snapshot /\ clock - clock <= ReuseInterval /\ clock < clock'
            BY <1>0, <2>2 DEF CreateNew, TypeOK, Snapshot
        <3>2. /\ archives' \cup tmps' \subseteq archives \cup tmps \cup {clock}
              /\ archives \subseteq archives' \cup {clock}
              /\ current' = [current EXCEPT !.snap = clock]
            BY <2>2 DEF CreateNew
        <3>3. Fits(clock)
            BY <1>0, <3>1, <3>2
        <3> QED
            BY <3>1, <3>3
    <2> QED
        BY <2>1, <2>2 DEF Create
<1>9. PICK s \in Snapshot : Fits(s)
    BY <1>2
<1>3. last' = [last EXCEPT ![target] = clock] /\ clock <= clock' /\ clock' \in Nat
    BY <1>0 DEF Create, CreateReusing, CreateNew
<1>4. /\ \A b \in store[target] : b.snap < s
      /\ current.base < s
    BY <1>0, <1>9, Younger
<1>5. current'.snap = s /\ current'.base = current.base
    BY <1>0, <1>9 DEF TypeOK
<1>6. TimeInv'
    <2>1. \A x \in archives' \cup bookmarks' \cup tmps' : x < clock'
        <3> SUFFICES ASSUME NEW x \in archives' \cup bookmarks' \cup tmps', x # s
                     PROVE  x < clock'
            BY <1>9
        <3>1. x \in archives \cup bookmarks \cup tmps
            BY <1>1, <1>9
        <3>2. x \in Nat /\ x < clock
            BY <1>0, <3>1 DEF TimeInv, TypeOK, Snapshot
        <3> QED
            BY <1>0, <1>3, <3>2
    <2>2. ASSUME NEW d \in Dests
          PROVE  last'[d] \in Nat /\ last'[d] <= clock' /\ last[d] <= last'[d]
        <3>1. last'[d] = IF d = target THEN clock ELSE last[d]
            BY <1>3 DEF TypeOK, ReuseInv
        <3>2. last[d] \in Nat /\ last[d] <= clock
            BY <1>0 DEF TypeOK, TimeInv
        <3> QED
            BY <1>0, <1>3, <3>1, <3>2
    <2>3. ASSUME NEW d \in Dests, NEW b \in store[d] PROVE b.snap <= last'[d]
        <3>0. b \in Backup
            BY <1>0 DEF TypeOK
        <3>1. b.snap \in Nat /\ last[d] \in Nat /\ b.snap <= last[d]
            BY <1>0, <3>0 DEF TimeInv, TypeOK, Backup, Snapshot
        <3> QED
            BY <2>2, <3>1
    <2> QED
        BY <1>1, <2>1, <2>2, <2>3 DEF TimeInv
<1>7. CommandInv'
    <2>1. pc' \in {"bookmark", "send"} /\ (pc' = "bookmark" => source.kind = "zfs")
        BY DEF Create, CreateReusing, CreateNew
    <2>2. current'.snap <= last'[target']
        BY <1>0, <1>1, <1>9, <1>3, <1>5 DEF TypeOK
    <2>3. source.kind = "btrfs" => IsFull(current') \/ current'.base \in archives'
        <3>1. source.kind = "btrfs" => current.base = NoBase \/ current.base \in archives
            BY <1>0 DEF CommandInv
        <3>2. current.base # s
            BY <1>9, <1>4 DEF Snapshot
        <3> QED
            BY <1>9, <1>5, <3>1, <3>2 DEF IsFull
    <2>4. \A b \in store'[target'] : b.snap < current'.snap
        BY <1>1, <1>4, <1>5
    <2> QED
        BY <1>0, <1>1, <1>4, <1>5, <1>9, <2>1, <2>2, <2>3, <2>4 DEF CommandInv, IsFull, Started
<1> QED
    BY <1>1, <1>6, <1>7 DEF ReuseInv, ChainsEnd, DistinctNames, OnlyBrokenSendsListed

LEMMA CommitStep ==
    ASSUME ReuseInv, TypeOK', Commit
    PROVE  ReuseInv'
<1>0. /\ TypeOK /\ TimeInv /\ CommandInv /\ target \in Dests
      /\ current \in Backup
      /\ current.base < current.snap /\ current.snap <= last[target]
      /\ \A b \in store[target] : b.snap < current.snap
    BY DEF ReuseInv, TypeOK, Commit, CommandInv, Started
<1>1. /\ store'[target] = store[target] \cup {current}
      /\ \A d \in Dests : d # target => store'[d] = store[d]
    BY <1>0 DEF Commit, TypeOK
<1>2. UNCHANGED <<source, archives, bookmarks, tmps, clock, last, target>> /\ pc' = "record"
    BY DEF Commit, snapshots
<1>3. ChainsEnd' /\ DistinctNames'
    <2>1. \A b, c \in store'[target] : b.snap = c.snap => b = c
        BY <1>0, <1>1 DEF ReuseInv, DistinctNames, TypeOK, Backup, Snapshot
    <2> QED
        BY <1>0, <1>1, <2>1 DEF ReuseInv, ChainsEnd, DistinctNames
<1>4. TimeInv'
    BY <1>0, <1>1, <1>2 DEF TimeInv
<1>5. CommandInv'
    BY <1>0, <1>2 DEF CommandInv, Started
<1>6. OnlyBrokenSendsListed'
    <2>1. ASSUME NEW d \in Dests, NEW x \in short'[d], x \notin short[d]
          PROVE  source.kind = "btrfs" /\ x.again /\ ~x.baseless
        <3>1. /\ sent # "ok"
              /\ x = [backup |-> current, baseless |-> sent = "baseless", again |-> reused]
            BY <1>0, <2>1 DEF Commit, TypeOK
        <3>2. source.kind = "btrfs" /\ reused /\ sent = "broken"
            BY <1>0, <3>1 DEF CommandInv, Commit
        <3> QED
            BY <3>1, <3>2
    <2> QED
        BY <1>2, <2>1 DEF ReuseInv, OnlyBrokenSendsListed
<1> QED
    BY <1>1, <1>3, <1>4, <1>5, <1>6 DEF ReuseInv

(* Every step keeps the invariant.                                          *)
LEMMA ReuseStep ==
    ASSUME Spaced, ReuseInv, [Next]_vars
    PROVE  ReuseInv'
<1>0. TypeOK /\ TypeOK' /\ TimeInv /\ CommandInv
    BY TypeStep DEF ReuseInv
<1> USE <1>0, ReuseAssumption
        DEF ReuseInv, CommandInv, Started, ChainsEnd, DistinctNames, OnlyBrokenSendsListed, snapshots, Exit
<1>1. CASE Tick
    <2>1. clock \in Nat /\ clock' = clock + 1 /\ last[target] \in Nat
        BY <1>1 DEF Tick, TypeOK, Snapshot
    <2>2. TimeInv'
        <3>1. \A x \in archives \cup bookmarks \cup tmps : x < clock'
            <4>1. \A x \in archives \cup bookmarks \cup tmps : x \in Nat /\ x < clock
                BY DEF TimeInv, TypeOK, Snapshot
            <4> QED
                BY <2>1, <4>1
        <3>2. \A d \in Dests : last[d] <= clock'
            <4>1. \A d \in Dests : last[d] \in Nat /\ last[d] <= clock
                BY DEF TimeInv, TypeOK
            <4> QED
                BY <2>1, <4>1
        <3> QED
            BY <1>1, <3>1, <3>2 DEF Tick, TimeInv
    <2>3. clock - last[target] >= Spacing => clock' - last[target] >= Spacing
        BY <2>1
    <2>4. pc \in Started => current.snap < clock'
        BY <2>1 DEF TypeOK
    <2> QED
        BY <1>1, <2>2, <2>3, <2>4 DEF Tick
<1>2. CASE Abort
    BY <1>2 DEF Abort, TimeInv
<1>3. ASSUME NEW d \in Dests, StartBackup(d) PROVE ReuseInv'
    <2>1. PICK full \in BOOLEAN, s \in {NoBase} \cup {b.snap : b \in store[d]} :
              /\ s = NoBase \/ s \in {b.snap : b \in store[d]} \cap (archives \cup bookmarks)
              /\ current' = [snap |-> NoBase, base |-> s]
        BY <1>3 DEF StartBackup, Newest
    <2>2. /\ current'.base = s /\ target' = d /\ pc' = "create"
          /\ last[d] # 0 => clock - last[d] >= Spacing
          /\ UNCHANGED <<source, snapshots, clock, last, store, short>>
        BY <1>3, <2>1 DEF StartBackup
    <2>3. TimeInv'
        BY <2>2 DEF TimeInv
    <2>4. CommandInv'
        BY <2>1, <2>2
    <2> QED
        BY <2>2, <2>3, <2>4
<1>4. CASE Create
    BY <1>4, CreateStep
<1>5. CASE BookmarkNew
    <2>1. TimeInv'
        BY <1>5 DEF BookmarkNew, TimeInv, TypeOK, Backup, Snapshot
    <2> QED
        BY <1>5, <2>1 DEF BookmarkNew
<1>6. CASE Send
    <2>1. source.kind = "btrfs" => sent' # "baseless"
        BY <1>6 DEF Send, FindsBase
    <2> QED
        BY <1>6, <2>1 DEF Send, TimeInv
<1>7. CASE Finalize
    <2>1. TimeInv'
        BY <1>7 DEF Finalize, TimeInv, TypeOK, Backup, Snapshot
    <2>2. pc' = "commit" /\ sent # "ok" => source.kind = "btrfs" /\ reused /\ sent = "broken"
        BY <1>7 DEF Finalize, TypeOK, Sent
    <2>3. /\ pc' \in {"commit", "idle"}
          /\ UNCHANGED <<source, bookmarks, clock, last, store, short, target, current, reused, sent>>
        BY <1>7 DEF Finalize
    <2>4. CommandInv'
        BY <1>7, <2>2, <2>3 DEF Finalize
    <2> QED
        BY <2>1, <2>3, <2>4
<1>8. CASE Commit
    BY <1>8, CommitStep
<1>9. CASE Record
    BY <1>9 DEF Record, TimeInv
<1>10. CASE PruneSource
    BY <1>10 DEF PruneSource, TimeInv, GetPrunedSnapshots
<1>11. CASE PruneDest
    <2>1. \A d \in Dests : store'[d] \subseteq store[d] /\ short'[d] \subseteq short[d]
        BY <1>11 DEF PruneDest, TypeOK
    <2>2. TimeInv'
        BY <1>11, <2>1 DEF PruneDest, TimeInv
    <2> QED
        BY <1>11, <2>1, <2>2 DEF PruneDest
<1>12. CASE UNCHANGED vars
    BY <1>12 DEF vars, TimeInv
<1> QED
    BY <1>1, <1>2, <1>3, <1>4, <1>5, <1>6, <1>7, <1>8, <1>9, <1>10, <1>11, <1>12 DEF Next

LEMMA ReuseAlways ==
    ASSUME Spaced
    PROVE  Spec => []ReuseInv
<1>1. Init => ReuseInv
    BY TypeInit, ReuseAssumption
       DEF Init, ReuseInv, TimeInv, CommandInv, Started, ChainsEnd, DistinctNames, OnlyBrokenSendsListed
<1>2. ReuseInv /\ [Next]_vars => ReuseInv'
    BY ReuseStep
<1> QED
    BY <1>1, <1>2, PTL DEF Spec

(* With ReuseSnapshots as the docs want it, no backup is ever its own base  *)
(* (CreateBackup of btrfs and zfs), and GetFullChain ends.                  *)
THEOREM BasesAreOlder ==
    ASSUME Spaced
    PROVE  Spec => []ChainsEnd
<1> QED
    BY ReuseAlways, PTL DEF ReuseInv

(* And no destination is sent the same snapshot twice.                      *)
THEOREM NamesAreDistinct ==
    ASSUME Spaced
    PROVE  Spec => []DistinctNames
<1> QED
    BY ReuseAlways, PTL DEF ReuseInv

(* And the base of a btrfs snapshot that is sent again still has its own    *)
(* name, however sends fail: what the finalize callback hides is never that *)
(* the base was not found, and every listed backup is whole but those whose *)
(* second send broke off on its way (CreateBackup of btrfs).                *)
THEOREM ReusedFindTheirBase ==
    ASSUME Spaced
    PROVE  Spec => []OnlyBrokenSendsListed
<1> QED
    BY ReuseAlways, PTL DEF ReuseInv

-----------------------------------------------------------------------------
(* Whatever the interval and however sends fail, reuse loses nothing that   *)
(* is recorded: only a snapshot that was just taken is ever deleted by its  *)
(* own command, and what is recorded is older.                              *)
LossInv ==
    /\ TypeOK
    /\ \A s \in archives \cup bookmarks \cup tmps : s < clock
    /\ pc \in Started \ {"commit"} =>
           /\ current.snap \in IF source.kind = "btrfs" THEN tmps ELSE archives
           /\ ~reused => current.snap \notin Recorded
    /\ pc \in {"commit", "record"} => current.snap \in archives
    /\ RecordedNotLost

LEMMA LossStep == LossInv /\ [Next]_vars => LossInv'
<1> SUFFICES ASSUME LossInv, [Next]_vars PROVE LossInv'
    OBVIOUS
<1>0. TypeOK /\ TypeOK'
    BY TypeStep DEF LossInv
<1> USE <1>0 DEF LossInv, Started, RecordedNotLost, Recorded, snapshots, Exit
<1>1. CASE Tick
    <2>1. clock \in Nat /\ clock' = clock + 1 /\ \A s \in archives \cup bookmarks \cup tmps : s \in Nat
        BY <1>1 DEF Tick, TypeOK, Snapshot
    <2>2. \A s \in archives \cup bookmarks \cup tmps : s < clock'
        BY <2>1
    <2> QED
        BY <1>1, <2>2 DEF Tick
<1>2. CASE Abort
    BY <1>2 DEF Abort
<1>3. ASSUME NEW d \in Dests, StartBackup(d) PROVE LossInv'
    BY <1>3 DEF StartBackup
<1>4. CASE CreateReusing
    <2>1. PICK s \in archives :
              /\ current' = [current EXCEPT !.snap = s]
              /\ IF source.kind = "btrfs"
                 THEN archives' = archives \ {s} /\ tmps' = tmps \cup {s}
                 ELSE UNCHANGED <<archives, tmps>>
        BY <1>4 DEF CreateReusing
    <2>2. current'.snap = s
        BY <2>1 DEF TypeOK
    <2> QED
        BY <1>4, <2>1, <2>2 DEF CreateReusing
<1>5. CASE CreateNew
    <2>1. /\ clock \in Nat /\ clock' = clock + 1
          /\ current'.snap = clock /\ ~reused'
          /\ clock \in IF source.kind = "btrfs" THEN tmps' ELSE archives'
          /\ archives \subseteq archives' /\ tmps \subseteq tmps'
          /\ archives' \cup tmps' \subseteq archives \cup tmps \cup {clock}
          /\ pc' \in {"bookmark", "send"}
          /\ UNCHANGED <<source, bookmarks, state>>
        BY <1>5 DEF CreateNew, TypeOK, Snapshot
    <2>2. clock \notin archives \cup bookmarks \cup tmps
        BY <2>1
    <2>3. clock \notin Recorded'
        BY <2>1, <2>2
    <2>4. \A s \in archives' \cup bookmarks' \cup tmps' : s < clock'
        <3>1. \A s \in archives \cup bookmarks \cup tmps : s < clock /\ s \in Nat
            BY DEF TypeOK, Snapshot
        <3>2. \A s \in archives' \cup bookmarks' \cup tmps' :
                  s = clock \/ s \in archives \cup bookmarks \cup tmps
            BY <2>1
        <3> QED
            BY <2>1, <3>1, <3>2
    <2> QED
        BY <2>1, <2>3, <2>4
<1>6. CASE BookmarkNew
    BY <1>6 DEF BookmarkNew, TypeOK
<1>7. CASE Send
    BY <1>7 DEF Send
<1>8. CASE Finalize
    BY <1>8 DEF Finalize, TypeOK
<1>9. CASE Commit
    BY <1>9 DEF Commit
<1>10. CASE Record
    BY <1>10 DEF Record, TypeOK
<1>11. CASE PruneSource
    BY <1>11 DEF PruneSource, GetPrunedSnapshots
<1>12. CASE PruneDest
    BY <1>12 DEF PruneDest
<1>13. CASE UNCHANGED vars
    BY <1>13 DEF vars
<1> QED
    BY <1>1, <1>2, <1>3, <1>4, <1>5, <1>6, <1>7, <1>8, <1>9, <1>10, <1>11, <1>12,
       <1>13 DEF Next, Create

(* What the state file records is on the source, be it under its _tmp-      *)
(* name, for every interval, every schedule and every failure of a send     *)
(* (sources/btrfs.go CreateBackup, lib/retention.go GetPrunedSnapshots).    *)
THEOREM RecordedIsKept == Spec => []RecordedNotLost
<1>1. Init => LossInv
    BY TypeInit DEF Init, LossInv, Started, RecordedNotLost, Recorded
<1>2. LossInv => RecordedNotLost
    BY DEF LossInv
<1> QED
    BY <1>1, <1>2, LossStep, PTL DEF Spec
=============================================================================

--------------------------- MODULE TransferProofs ---------------------------
(***************************************************************************)
(* Whatever the number of blocks and the window, a transfer on a safe route *)
(* is an atomic send, and on no route is a part of a backup reported as     *)
(* stored.  The inductive invariant follows the blocks down the  *)
(* chain: every channel has received at most what the one before it has,    *)
(* and one that ended with EOF has received everything.                     *)
(***************************************************************************)
EXTENDS Transfer, TLAPS

Types ==
    /\ route \in Routes /\ route \in Route
    /\ written \in [Channels \cup {"store"} -> Nat]
    /\ end \in [Channels -> {"open", "eof", "error"}]
    /\ cmd \in Results
    /\ snapshot \in BOOLEAN
    /\ transmit \in Results
    /\ cut \subseteq {"source", "dest"}
    /\ fed \in {"no", "clean", "error"}
    /\ child \in Results
    /\ handler \in Results
    /\ dest \in {"absent", "tmp", "final"}
    /\ outcome \in {"pending", "ok", "failed", "killed"}

(* Up to the container: an EOF is only passed on with everything before it. *)
SourceInv ==
    /\ written["data"] <= Blocks
    /\ cmd = "running" => end["data"] = "open"
    /\ end["data"] = "eof" => written["data"] = Blocks /\ snapshot
    /\ route.proxiedSource =>
           /\ written["wireIn"] <= written["data"]
           /\ written["pipe"] <= written["wireIn"]
           /\ transmit = "ok" => written["wireIn"] = Blocks /\ end["data"] = "eof"
           /\ end["pipe"] = "eof" => written["pipe"] = Blocks /\ transmit = "ok"

(* The trailer is written after the last block, and only then.              *)
SealInv ==
    \/ written["backup"] <= written[DataOut]
    \/ written["backup"] = written[DataOut] + 1 /\ end[DataOut] = "eof"

(* backup ends with EOF after the trailer.                                  *)
BackupInv == end["backup"] = "eof" => written["backup"] = Whole

(* Down to the store; a channel that is not on the route stays empty.       *)
OrderInv ==
    /\ ~route.proxiedSource => written["wireIn"] = 0 /\ written["pipe"] = 0
    /\ ~route.proxiedDest => written["wireOut"] = 0
    /\ ~Piped => written["stdin"] = 0
    /\ route.proxiedDest => written["wireOut"] <= written["backup"]
    /\ written[Sink] <= written[DestIn]
    /\ Piped => written["store"] <= written["stdin"]

(* As long as the local uback can still hear of it, an EOF that reaches the *)
(* destination comes after everything.                                      *)
LinkUp == ~route.proxiedDest \/ (LocalUp /\ "dest" \notin cut)

LinkInv == LinkUp /\ end[DestIn] = "eof" => written[DestIn] = Whole

(* A command that unpacks ends well with a whole backup or with a broken    *)
(* copy, unless the local uback died while it was copying.                  *)
ChildInv ==
    /\ end["stdin"] # "open" => fed # "no" \/ (~LocalUp /\ ~route.proxiedDest)
    /\ child = "ok" => end["stdin"] # "open" /\ written["store"] = written["stdin"]
    /\ Unpacks /\ child # "failed" /\ fed = "clean" => written["stdin"] = Whole
    /\ Piped /\ child # "failed" /\ fed = "clean" =>
           end[DestIn] = "eof" /\ written["stdin"] = written[DestIn]
    /\ ~Piped => child = "running"
    /\ route.kind = "zfs" /\ child = "ok" => written["store"] = Whole

(* What is final stays as it is.                                            *)
FinalInv ==
    /\ ~Piped /\ dest = "final" =>
           /\ handler # "running"
           /\ route \in SafeRoutes => written["store"] = Whole
    /\ Piped /\ dest = "final" => child = "ok"
    /\ route.kind = "btrfs" /\ dest = "final" => fed = "clean"
    /\ handler = "ok" =>
           /\ dest = "final"
           /\ Piped => fed # "no"
           /\ LinkUp => written["store"] = Whole
    /\ outcome = "ok" => handler = "ok" /\ written["store"] = Whole

IInv ==
    /\ Types
    /\ SourceInv
    /\ SealInv
    /\ BackupInv
    /\ OrderInv
    /\ LinkInv
    /\ ChildInv
    /\ FinalInv

-----------------------------------------------------------------------------
LEMMA InvInit == Init => IInv
<1> SUFFICES ASSUME Init PROVE IInv
  OBVIOUS
<1>1. Types
  BY TransferAssumption DEF Init, Types, Results
<1>2. \A c \in Channels \cup {"store"} : written[c] = 0
  BY DEF Init
<1>3. \A c \in Channels : end[c] = "open"
  BY DEF Init
<1>4. DataOut \in Channels /\ DestIn \in Channels /\ Sink \in Channels \cup {"store"}
  BY DEF DataOut, DestIn, Sink, Channels
<1> QED
  BY <1>1, <1>2, <1>3, <1>4, TransferAssumption
     DEF Init, IInv, SourceInv, SealInv, BackupInv, OrderInv, ChildInv, FinalInv,
         LinkInv, Channels

LEMMA InvStep == IInv /\ [Next]_vars => IInv'
<1> SUFFICES ASSUME IInv, [Next]_vars PROVE IInv'
  OBVIOUS
<1> USE TransferAssumption
        DEF IInv, Types, SourceInv, SealInv, BackupInv, OrderInv, LinkInv, LinkUp,
            ChildInv, FinalInv, DataOut, DestIn, Sink, Channels, Results, SafeRoutes,
            Route, Kinds, Piped, Unpacks, Whole, LocalUp, SourceUp, DestUp,
            ReaderOf, Unread, Ended, Write, Close
<1>1. CASE Produce
  BY <1>1 DEF Produce
<1>2. CASE CommandExits
  <2>1. (Types)'
    BY <1>2 DEF CommandExits
  <2>2. (SourceInv)'
    BY <1>2 DEF CommandExits
  <2>3. (SealInv)'
    BY <1>2 DEF CommandExits
  <2>4. (BackupInv)'
    BY <1>2 DEF CommandExits
  <2>5. (OrderInv)'
    BY <1>2 DEF CommandExits
  <2>6. (ChildInv)'
    BY <1>2 DEF CommandExits
  <2>7. (FinalInv)'
    BY <1>2 DEF CommandExits
  <2>8. (LinkInv)'
    BY <1>2 DEF CommandExits
  <2> QED
    BY <2>1, <2>2, <2>3, <2>4, <2>5, <2>6, <2>7, <2>8
<1>3. CASE Transmit
  BY <1>3 DEF Transmit
<1>4. CASE TransmitReturns
  BY <1>4 DEF TransmitReturns
<1>5. CASE Collect
  BY <1>5 DEF Collect
<1>6. CASE CollectEnds
  BY <1>6 DEF CollectEnds
<1>7. CASE Seal
  BY <1>7 DEF Seal
<1>8. CASE SealEnds
  BY <1>8 DEF SealEnds
<1>9. CASE Forward
  BY <1>9 DEF Forward
<1>10. CASE ForwardFails
  BY <1>10 DEF ForwardFails, Leave
<1>11. CASE ForwardCloses
  BY <1>11 DEF ForwardCloses
<1>12. CASE ForwardReturns
  BY <1>12 DEF ForwardReturns, Leave
<1>13. CASE Receive
  <2>1. (Types)'
    BY <1>13 DEF Receive
  <2>2. (SourceInv)'
    BY <1>13 DEF Receive
  <2>3. (SealInv)'
    BY <1>13 DEF Receive
  <2>4. (BackupInv)'
    BY <1>13 DEF Receive
  <2>5. (OrderInv)'
    BY <1>13 DEF Receive
  <2>6. (ChildInv)'
    BY <1>13 DEF Receive
  <2>7. (FinalInv)'
    BY <1>13 DEF Receive
  <2>8. (LinkInv)'
    BY <1>13 DEF Receive
  <2> QED
    BY <2>1, <2>2, <2>3, <2>4, <2>5, <2>6, <2>7, <2>8
<1>14. CASE Rename
  BY <1>14 DEF Rename, Return, Leave
<1>15. CASE ReceiveFails
  BY <1>15 DEF ReceiveFails, Return, Leave
<1>16. CASE Feed
  BY <1>16 DEF Feed
<1>17. CASE FeedEnds
  BY <1>17 DEF FeedEnds
<1>18. CASE Digest
  BY <1>18 DEF Digest
<1>19. CASE ChildExits
  <2>1. (Types)'
    BY <1>19 DEF ChildExits
  <2>2. (SourceInv)'
    BY <1>19 DEF ChildExits
  <2>3. (SealInv)'
    BY <1>19 DEF ChildExits
  <2>4. (BackupInv)'
    BY <1>19 DEF ChildExits
  <2>5. (OrderInv)'
    BY <1>19 DEF ChildExits
  <2>6. (ChildInv)'
    BY <1>19 DEF ChildExits
  <2>7. (FinalInv)'
    BY <1>19 DEF ChildExits
  <2>8. (LinkInv)'
    BY <1>19 DEF ChildExits
  <2> QED
    BY <2>1, <2>2, <2>3, <2>4, <2>5, <2>6, <2>7, <2>8
<1>20. CASE ChildReturns
  BY <1>20 DEF ChildReturns, Return, Leave
<1>21. CASE CommandFails
  BY <1>21 DEF CommandFails
<1>22. CASE StoreFails
  BY <1>22 DEF StoreFails, Return, Leave
<1>23. CASE ChildFails
  BY <1>23 DEF ChildFails
<1>24. CASE CutSource
  BY <1>24 DEF CutSource
<1>25. CASE CutDest
  BY <1>25 DEF CutDest
<1>26. CASE Kill
  BY <1>26 DEF Kill, Leave
<1>27. CASE UNCHANGED vars
  BY <1>27 DEF vars
<1> QED
  BY <1>1, <1>2, <1>3, <1>4, <1>5, <1>6, <1>7, <1>8, <1>9, <1>10, <1>11, <1>12, <1>13, <1>14, <1>15, <1>16, <1>17, <1>18, <1>19, <1>20, <1>21, <1>22, <1>23, <1>24, <1>25, <1>26, <1>27 DEF Next, Progress, Failure

LEMMA InvAlways == Spec => []IInv
<1>1. Init => IInv
  BY InvInit
<1>2. QED
  BY <1>1, InvStep, PTL DEF Spec

(* The data went through the whole chain, so the source has reached EOF.    *)
LEMMA WholeHasSnapshot == IInv /\ written["store"] = Whole => snapshot
<1> SUFFICES ASSUME IInv, written["store"] = Whole PROVE snapshot
  OBVIOUS
<1>1. written["backup"] >= Whole
  BY TransferAssumption
     DEF IInv, Types, OrderInv, Sink, DestIn, Channels, Whole, Route
<1>2. end[DataOut] = "eof"
  BY <1>1, TransferAssumption
     DEF IInv, Types, SourceInv, SealInv, DataOut, Channels, Whole, Route
<1> QED
  BY <1>2 DEF IInv, SourceInv, DataOut

(* Every variable keeps its type, on every route: no block goes anywhere    *)
(* twice.                                                                   *)
THEOREM TransferTypeCorrect == Spec => []TypeOK
<1>1. IInv => TypeOK
  <2> SUFFICES ASSUME IInv PROVE TypeOK
    OBVIOUS
  <2>1. Whole \in Nat
    BY TransferAssumption DEF Whole
  <2>2. /\ written["data"] <= Whole /\ written["wireIn"] <= Whole
        /\ written["pipe"] <= Whole /\ written["backup"] <= Whole
    BY TransferAssumption
       DEF IInv, Types, SourceInv, SealInv, OrderInv, DataOut, Channels, Whole, Route
  <2>3. written["wireOut"] <= Whole /\ written["stdin"] <= Whole /\ written["store"] <= Whole
    BY <2>1, <2>2 DEF IInv, Types, OrderInv, Sink, DestIn, Channels, Route
  <2>4. written \in [Channels \cup {"store"} -> 0 .. Whole]
    <3>1. \A c \in Channels \cup {"store"} : written[c] \in 0 .. Whole
      BY <2>1, <2>2, <2>3 DEF IInv, Types, Channels
    <3> QED
      BY <3>1 DEF IInv, Types
  <2> QED
    BY <2>4 DEF IInv, Types, TypeOK
<1> QED
  BY <1>1, InvAlways, PTL

(* On every route, safe or not, the backup command only reports success     *)
(* when the destination lists the whole backup and the source has its       *)
(* snapshot.                                                                *)
THEOREM SuccessIsStored == Spec => []SuccessMeansStored
<1>1. IInv => SuccessMeansStored
  BY WholeHasSnapshot DEF IInv, FinalInv, SuccessMeansStored
<1> QED
  BY <1>1, InvAlways, PTL

LEMMA FinalIsWhole == IInv => CommittedWhole
BY DEF IInv, Types, OrderInv, ChildInv, FinalInv, CommittedWhole, SafeRoutes,
       Route, Kinds, Piped, Unpacks

(* On a safe route a destination never lists a truncated backup             *)
(* (SendBackup of every kind, behind WrapSourceCommand and the goroutine of *)
(* cmd/backup.go), whatever fails and whoever is killed.                    *)
THEOREM NeverTruncated == Spec => []CommittedWhole
<1> QED
  BY InvAlways, FinalIsWhole, PTL

(* On a safe route every listed backup left its snapshot on the source,     *)
(* where the next incremental backup looks for it (WrapSourceCommand).      *)
THEOREM ListedHasSnapshot == Spec => []CommittedHasSnapshot
<1>1. IInv => CommittedHasSnapshot
  BY FinalIsWhole, WholeHasSnapshot DEF CommittedWhole, CommittedHasSnapshot
<1> QED
  BY <1>1, InvAlways, PTL

-----------------------------------------------------------------------------
(* The refinement.                                                          *)

Entry == IF dest # "final" THEN "none"
         ELSE IF written["store"] = Whole /\ snapshot THEN "whole" ELSE "part"

LEMMA EntryNow ==
    ASSUME IInv
    PROVE  /\ Entry = IF dest # "final" THEN "none"
                      ELSE IF written["store"] = Whole THEN "whole" ELSE "part"
           /\ Entry = "part" => route \notin SafeRoutes
           /\ outcome = "ok" => Entry = "whole"
BY FinalIsWhole, WholeHasSnapshot DEF Entry, CommittedWhole, IInv, FinalInv

(* A final backup stays, and becomes so while its sender waits, or after it *)
(* has gone.                                                                *)
LEMMA SendStep ==
    ASSUME IInv, Next
    PROVE  /\ dest = "final" => dest' = "final" /\ written'["store"] = written["store"]
           /\ route' = route
           /\ \/ outcome' = outcome
              \/ /\ outcome = "pending"
                 /\ \/ outcome' = "ok" /\ dest' = "final"
                    \/ /\ outcome' \in {"failed", "killed"}
                       /\ dest' = "final" => dest = "final"
<1> USE DEF IInv, FinalInv, ChildInv, Types, Results, LocalUp, DestUp, Leave,
            Return
<1>0. written \in [Channels \cup {"store"} -> Nat]
  OBVIOUS
<1>1. CASE CommandExits \/ TransmitReturns \/ CollectEnds \/ ForwardCloses
           \/ FeedEnds \/ CommandFails \/ CutSource
  BY <1>1 DEF CommandExits, TransmitReturns, CollectEnds, ForwardCloses,
     FeedEnds, CommandFails, CutSource, Close
<1>13. CASE Produce
  BY <1>0, <1>13 DEF Produce, Write, Close, Channels
<1>14. CASE Transmit
  BY <1>0, <1>14 DEF Transmit, Write, Close, Channels
<1>15. CASE Collect
  BY <1>0, <1>15 DEF Collect, Write, Close, Channels
<1>16. CASE Seal
  BY <1>0, <1>16 DEF Seal, Write, Close, Channels
<1>17. CASE SealEnds
  BY <1>0, <1>17 DEF SealEnds, Write, Close, Channels
<1>18. CASE Forward
  BY <1>0, <1>18 DEF Forward, Write, Close, Channels
<1>19. CASE Feed
  BY <1>0, <1>19 DEF Feed, Write, Close, Channels
<1>20. CASE CutDest
  BY <1>0, <1>20 DEF CutDest, Write, Close, Channels
<1>2. CASE ForwardFails
  BY <1>2 DEF ForwardFails
<1>3. CASE ForwardReturns
  BY <1>3 DEF ForwardReturns
<1>4. CASE Receive
  BY <1>4 DEF Receive
<1>5. CASE Rename
  BY <1>5 DEF Rename
<1>6. CASE ReceiveFails
  BY <1>6 DEF ReceiveFails
<1>7. CASE Digest
  BY <1>7 DEF Digest
<1>8. CASE ChildExits
  BY <1>8 DEF ChildExits
<1>9. CASE ChildReturns
  BY <1>9 DEF ChildReturns
<1>10. CASE StoreFails
  BY <1>10 DEF StoreFails
<1>11. CASE ChildFails
  BY <1>11 DEF ChildFails
<1>12. CASE Kill
  BY <1>12 DEF Kill
<1> QED
  BY <1>1, <1>2, <1>3, <1>4, <1>5, <1>6, <1>7, <1>8, <1>9, <1>10, <1>11, <1>12,
     <1>13, <1>14, <1>15, <1>16, <1>17, <1>18, <1>19, <1>20 DEF Next, Progress, Failure

(* On a safe route a transfer implements an atomic send: BackupCycle may    *)
(* treat SendBackup as one step.  On every other it implements the weaker   *)
(* promise.                                                                 *)
THEOREM TransferIsAtomic == Spec => AtomicSpec
<1>1. Init => Atomic!Init
  BY DEF Init, Atomic!Init
<1>2. IInv /\ IInv' /\ [Next]_vars => [Atomic!Next]_(Atomic!vars)
  <2> SUFFICES ASSUME IInv, IInv', [Next]_vars PROVE [Atomic!Next]_(Atomic!vars)
    OBVIOUS
  <2>1. CASE Next
    <3>1. /\ Entry = IF dest # "final" THEN "none"
                     ELSE IF written["store"] = Whole THEN "whole" ELSE "part"
          /\ Entry = "part" => route \notin SafeRoutes
      BY EntryNow
    <3>2. (/\ Entry = IF dest # "final" THEN "none"
                      ELSE IF written["store"] = Whole THEN "whole" ELSE "part"
           /\ Entry = "part" => route \notin SafeRoutes
           /\ outcome = "ok" => Entry = "whole")'
      BY EntryNow, PTL
    <3>3. dest = "final" => Entry' = Entry
      BY <2>1, <3>1, <3>2, SendStep DEF Whole
    <3>4. Entry' = Entry /\ outcome' = outcome => UNCHANGED Atomic!vars
      BY <2>1, SendStep DEF Entry, Atomic!vars
    <3>5. CASE Entry' = Entry /\ outcome' # outcome
      BY <2>1, <3>2, <3>5, SendStep DEF Entry, Atomic!Next, Atomic!Report
    <3>6. CASE Entry' # Entry
      <4>1. Entry = "none" /\ Entry' \in {"whole", "part"}
        BY <3>1, <3>2, <3>3, <3>6
      <4>2. dest # "final" /\ dest' = "final"
        BY <3>1, <3>2, <4>1
      <4>3. \/ outcome' = outcome
            \/ outcome = "pending" /\ outcome' = "ok"
            \/ dest' = "final" => dest = "final"
        BY <2>1, SendStep
      <4> QED
        BY <2>1, <3>2, <4>1, <4>2, <4>3, SendStep
           DEF Entry, Atomic!Next, Atomic!Store, Atomic!StorePart
    <3> QED
      BY <3>4, <3>5, <3>6
  <2>2. CASE UNCHANGED vars
    BY <2>2 DEF vars, Atomic!vars
  <2> QED
    BY <2>1, <2>2
<1> QED
  BY <1>1, <1>2, InvAlways, PTL DEF Spec, AtomicSpec, Atomic!Spec
=============================================================================

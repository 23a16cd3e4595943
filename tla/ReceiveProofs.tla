---------------------------- MODULE ReceiveProofs ----------------------------
(***************************************************************************)
(* Whatever the number of blocks, the window, the destinations and the      *)
(* keys, a reader that reaches its end has everything.  The inductive       *)
(* invariant follows the blocks from the store to the reader, like the one  *)
(* of TransferProofs on the way there: no channel is ahead of the one       *)
(* before it, and an EOF that is passed on stands for everything.           *)
(***************************************************************************)
EXTENDS Receive, TLAPS

Types ==
    /\ case \in Case /\ CaseOK(case)
    /\ written \in [Channels -> Nat]
    /\ end \in [Channels -> {"open", "eof", "error"}]
    /\ sender \in {"running", "ok", "failed"}
    /\ trailer \in Nat
    /\ session \in BOOLEAN
    /\ handler \in {"running", "ok", "failed"}
    /\ call \in {"pending", "ok", "failed", "lost"}
    /\ copied \in BOOLEAN
    /\ got \in Nat
    /\ reading \in Readings

(* What the destination sends, and where the trailer is in it.              *)
SenderInv ==
    /\ sender = "ok" => written["data"] >= Stored
    /\ trailer = 0 \/ case.kind # "btrfs" => written["data"] <= Stored
    /\ case.kind # "btrfs" => trailer = IF case.size = Whole THEN Whole ELSE 0
    /\ case.kind = "btrfs" /\ trailer # 0 =>
           /\ sender # "running"
           /\ trailer = written["data"]
           /\ trailer <= Whole
           /\ sender = "ok" => trailer = Whole
    /\ end["data"] = "eof" =>
           IF case.kind = "btrfs" THEN trailer # 0 ELSE sender = "ok"
    /\ end["data"] # "open" => sender # "running"
    /\ end["data"] = "error" => sender = "failed"
    /\ case.kind = "btrfs" /\ trailer # 0 => trailer > 1

(* No channel is ahead.                                                     *)
OrderInv ==
    /\ case.proxied => /\ written["pipe"] <= written["wire"]
                       /\ written["wire"] <= written["data"]
    /\ ~case.proxied => written["pipe"] = 0 /\ written["wire"] = 0
    /\ got <= written[In]

(* The call only returns without an error, and the pipe only ends without   *)
(* one, when everything is through.                                         *)
ProxyInv ==
    /\ handler = "ok" =>
           /\ end["data"] = "eof"
           /\ end["wire"] = "eof"
           /\ session => written["wire"] = written["data"]
    /\ call = "ok" => handler = "ok" /\ written["wire"] = written["data"]
    /\ copied => end["wire"] # "open" /\ written["pipe"] = written["wire"]
    /\ end["pipe"] # "open" => copied
    /\ end["pipe"] = "eof" => call = "ok"
    /\ handler = "failed" => end["data"] = "error"
    /\ call = "failed" => handler = "failed"
    /\ call = "lost" => ~session
    /\ end["pipe"] = "error" => call \in {"failed", "lost"}

ReaderInv ==
    /\ reading = "file" => case.reader = "fetch"
    /\ reading \in {"keys", "header", "unseal", "content", "rest"} => case.reader # "fetch"
    /\ reading = "rest" => got = trailer /\ trailer # 0
    /\ reading = "done" =>
           /\ end[In] # "open" /\ got = written[In]
           /\ case.reader = "fetch" => end[In] = "eof"
           /\ case.reader # "fetch" =>
                  \/ got = trailer /\ trailer # 0
                  \/ /\ got = 1 /\ case.sealedWith.noEncryption
                     /\ end[In] = "eof" \/ Unexpected
    /\ reading \in {"keys", "header"} => got = 0
    /\ reading = "unseal" => got = 1
    /\ reading = "content" /\ trailer # 0 => got < trailer
    /\ FailsForAReason

IInv == Types /\ SenderInv /\ OrderInv /\ ProxyInv /\ ReaderInv

-----------------------------------------------------------------------------
(* Options that belong together load, and one opens what the other seals.   *)
LEMMA BelongingKeysOpen ==
    ASSUME NEW s \in KeyOptions, NEW o \in KeyOptions, Belong(s, o)
    PROVE  IdentitiesLoad(o) /\ Unseals(Recipients(s), Identities(o))
<1>1. CASE s.noEncryption /\ o.noEncryption
  BY <1>1 DEF IdentitiesLoad, Recipients, Identities, Unseals
<1>2. CASE ~s.noEncryption
  <2>1. PICK k \in KeyPairs :
            /\ {s.keyFile, s.key} = {Public(k), NoKey}
            /\ {o.keyFile, o.key} = {Private(k), NoKey}
    BY <1>2 DEF Belong
  <2>2. Private(k) # NoKey /\ Public(k) # NoKey
    <3>1. Private(k) \in Key /\ Public(k) \in Key
      BY DEF Private, Public, Key
    <3> QED
      BY <3>1, KeysAssumption
  <2>3. ~o.noEncryption /\ OneGiven(o) /\ Given(o) = {Private(k)} /\ Given(s) = {Public(k)}
    BY <1>2, <2>1, <2>2 DEF Belong, OneGiven, Given
  <2>4. Identities(o) = {k} /\ Recipients(s) = {k}
    BY <1>2, <2>3 DEF Identities, Recipients, Private, Public
  <2> QED
    BY <2>3, <2>4 DEF IdentitiesLoad, Unseals, Private
<1> QED
  BY <1>1, <1>2 DEF Belong

LEMMA TypesStart == Init => Types
<1> SUFFICES ASSUME Init PROVE Types
  OBVIOUS
<1>1. case \in Case /\ CaseOK(case)
  BY ReceiveAssumption DEF Init
<1>2. Whole \in Nat
  BY ReceiveAssumption DEF Whole
<1>3. trailer \in Nat
  BY <1>2 DEF Init
<1> QED
  BY <1>1, <1>3 DEF Init, Types, Channels, Readings

LEMMA TypesStep ==
    ASSUME Types, [Next]_vars
    PROVE  Types'
<1> USE DEF Types, Channels, proxyVars
<1>1. CASE Send
  BY <1>1 DEF Send, Write, Room
<1>2. CASE SenderEnds
  BY <1>2 DEF SenderEnds
<1>3. CASE DataEnds
  BY <1>3 DEF DataEnds, Close
<1>4. CASE BtrfsCloses
  BY <1>4 DEF BtrfsCloses, Write, Room
<1>5. CASE BtrfsEnds
  BY <1>5 DEF BtrfsEnds, Close
<1>6. CASE Forward
  BY <1>6 DEF Forward, Write, Room
<1>7. CASE HandlerReturns
  BY <1>7 DEF HandlerReturns, Close
<1>8. CASE CallReturns
  BY <1>8 DEF CallReturns
<1>9. CASE Copy
  BY <1>9 DEF Copy, Write, Room
<1>10. CASE CopyEnds
  BY <1>10 DEF CopyEnds
<1>11. CASE PipeEnds
  BY <1>11 DEF PipeEnds, Close
<1>12. CASE LoadKeys
  BY <1>12 DEF LoadKeys, Read, Readings
<1>13. CASE ReadHeader
  BY <1>13 DEF ReadHeader, Read, Take, Readings
<1>14. CASE Unseal
  BY <1>14 DEF Unseal, Read, Readings
<1>15. CASE ReadContent
  BY <1>15 DEF ReadContent, Take, Readings
<1>16. CASE CopyToFile
  BY <1>16 DEF CopyToFile, Take, Readings
<1>17. CASE InputEnds
  BY <1>17 DEF InputEnds, Read, Readings
<1>18. CASE SenderFails
  BY <1>18 DEF SenderFails
<1>19. CASE SessionBreaks
  <2> PICK n \in written["pipe"] .. written["wire"] :
             written' = [written EXCEPT !["wire"] = n]
    BY <1>19 DEF SessionBreaks
  <2>1. n \in Nat
    OBVIOUS
  <2> QED
    BY <1>19, <2>1 DEF SessionBreaks, Close
<1>20. CASE UNCHANGED vars
  BY <1>20 DEF vars
<1> QED
  BY <1>1, <1>2, <1>3, <1>4, <1>5, <1>6, <1>7, <1>8, <1>9, <1>10, <1>11, <1>12, <1>13, <1>14, <1>15, <1>16, <1>17, <1>18, <1>19, <1>20
     DEF Next, Destination, Proxy, Reader, Faults

LEMMA InvStart == Init => IInv
<1> SUFFICES ASSUME Init PROVE IInv
  OBVIOUS
<1> QED
  BY TypesStart, ReceiveAssumption
     DEF FailsForAReason, Init, IInv, SenderInv, OrderInv, ProxyInv, ReaderInv, Stored, Whole, In, Channels,
         Case, CaseOK, Types

LEMMA InvStep ==
    ASSUME IInv, [Next]_vars
    PROVE  IInv'
<1>t. Types /\ Types'
  BY TypesStep DEF IInv
<1> USE <1>t, ReceiveAssumption
    DEF IInv, Types, SenderInv, OrderInv, ProxyInv, ReaderInv, Stored, Whole, In, Channels,
        proxyVars, FailsForAReason, Raw, Unexpected
<1>1. CASE Send
  <2>1. SenderInv'
    BY <1>1 DEF Send, Write, Case
  <2>2. OrderInv' /\ ProxyInv'
    BY <1>1 DEF Send, Write
  <2>3. ReaderInv'
    BY <1>1 DEF Send, Write
  <2> QED
    BY <2>1, <2>2, <2>3
<1>2. CASE SenderEnds
  BY <1>2 DEF SenderEnds
<1>3. CASE DataEnds
  BY <1>3 DEF DataEnds, Close
<1>4. CASE BtrfsCloses
  BY <1>4 DEF BtrfsCloses, Write, Room, Unread, TakenFrom
<1>5. CASE BtrfsEnds
  BY <1>5 DEF BtrfsEnds, Close
<1>6. CASE Forward
  BY <1>6 DEF Forward, Write, Room, Unread, TakenFrom
<1>7. CASE HandlerReturns
  BY <1>7 DEF HandlerReturns, Close, Unread, TakenFrom
<1>8. CASE CallReturns
  BY <1>8 DEF CallReturns
<1>9. CASE Copy
  BY <1>9 DEF Copy, Write, Room, Unread, TakenFrom
<1>10. CASE CopyEnds
  BY <1>10 DEF CopyEnds, Unread, TakenFrom
<1>11. CASE PipeEnds
  BY <1>11 DEF PipeEnds, Close
<1>k. /\ case.sealedWith \in KeyOptions /\ case.openedWith \in KeyOptions
  BY DEF Case
<1>12. CASE LoadKeys
  <2>1. ~IdentitiesLoad(case.openedWith) => ~Belong(case.sealedWith, case.openedWith)
    BY <1>k, BelongingKeysOpen
  <2> QED
    BY <1>12, <2>1 DEF LoadKeys, Read
<1>13. CASE ReadHeader
  <2>1. CASE case.proxied
    BY <1>13, <2>1 DEF ReadHeader, Read, Take, Unread, TakenFrom
  <2>2. CASE ~case.proxied
    BY <1>13, <2>2 DEF ReadHeader, Read, Take, Unread, TakenFrom
  <2> QED
    BY <2>1, <2>2
<1>14. CASE Unseal
  <2>1. CASE reading' = "failed"
    <3>1. ~Belong(case.sealedWith, case.openedWith)
      BY <1>14, <1>k, <2>1, BelongingKeysOpen DEF Unseal, Read
    <3> QED
      BY <1>14, <2>1, <3>1 DEF Unseal, Read
  <2>2. CASE reading' # "failed"
    BY <1>14, <2>2 DEF Unseal, Read
  <2> QED
    BY <2>1, <2>2
<1>15. CASE ReadContent
  <2>1. CASE case.proxied
    BY <1>15, <2>1 DEF ReadContent, Take, Unread, TakenFrom
  <2>2. CASE ~case.proxied
    BY <1>15, <2>2 DEF ReadContent, Take, Unread, TakenFrom
  <2> QED
    BY <2>1, <2>2
<1>16. CASE CopyToFile
  <2>1. CASE case.proxied
    BY <1>16, <2>1 DEF CopyToFile, Take, Unread, TakenFrom
  <2>2. CASE ~case.proxied
    BY <1>16, <2>2 DEF CopyToFile, Take, Unread, TakenFrom
  <2> QED
    BY <2>1, <2>2
<1>17. CASE InputEnds
  <2>0. UNCHANGED <<case, written, end, sender, trailer, session, handler, call, copied, got>>
    BY <1>17 DEF InputEnds, Read
  <2>1. SenderInv' /\ OrderInv' /\ ProxyInv'
    BY <2>0
  <2>2. end[In] # "open" /\ got = written[In]
    BY <1>17 DEF InputEnds, Unread, TakenFrom
  <2>3. CASE reading' = "done"
    BY <1>17, <2>0, <2>2, <2>3 DEF InputEnds, Read, Ended
  <2>4. CASE reading' = "failed" /\ end[In] = "error"
    BY <1>17, <2>0, <2>4
  <2>5. CASE reading' = "failed" /\ end[In] = "eof"
    <3>1. reading \in {"header", "content"}
      BY <1>17, <2>5 DEF InputEnds, Read, Ended
    <3>2. end["data"] = "eof" /\ written["data"] = got
      BY <2>2, <2>5
    <3>3. trailer # 0 => got < trailer
      BY <3>1
    <3>4. FailsForAReason'
      BY <2>0, <3>2, <3>3 DEF Case
    <3> QED
      BY <2>0, <2>1, <2>5, <3>4
  <2>6. reading' \in {"done", "failed"}
    BY <1>17 DEF InputEnds, Read
  <2> QED
    BY <1>17, <2>3, <2>4, <2>5, <2>6 DEF InputEnds, Read
<1>18. CASE SenderFails
  BY <1>18 DEF SenderFails
<1>19. CASE SessionBreaks
  BY <1>19 DEF SessionBreaks, Close
<1>20. CASE UNCHANGED vars
  BY <1>20 DEF vars
<1> QED
  BY <1>1, <1>2, <1>3, <1>4, <1>5, <1>6, <1>7, <1>8, <1>9, <1>10, <1>11, <1>12, <1>13, <1>14, <1>15, <1>16, <1>17, <1>18, <1>19, <1>20
     DEF Next, Destination, Proxy, Reader, Faults

LEMMA InvAlways == Spec => []IInv
BY InvStart, InvStep, PTL DEF Spec

(* No failure of a sender, a session or a remote handler makes a reader     *)
(* take a part for the whole, but for the two the code has: a btrfs send    *)
(* that failed, and a plain container that ends right after its header.     *)
THEOREM ReceivesWhole == Spec => []ReceivedWhole
<1>1. IInv => ReceivedWhole
  <2> SUFFICES ASSUME IInv, reading = "done" PROVE ReceivedWhole
    BY DEF ReceivedWhole
  <2> USE ReceiveAssumption DEF IInv, Types, Stored, In, Whole, Channels
  <2>0. case.size \in 0 .. Whole
    BY DEF Case
  <2>1. end[In] = "eof" =>
            /\ end["data"] = "eof" /\ written["data"] = got
            /\ case.kind # "btrfs" => got = case.size
    BY <2>0 DEF SenderInv, OrderInv, ProxyInv, ReaderInv
  <2>2. CASE case.reader = "fetch"
    BY <2>0, <2>1, <2>2 DEF ReceivedWhole, ReaderInv, SenderInv
  <2>3. CASE case.reader # "fetch" /\ got = trailer /\ trailer # 0
    BY <2>0, <2>3 DEF ReceivedWhole, SenderInv
  <2>4. CASE /\ case.reader # "fetch"
             /\ got = 1 /\ case.sealedWith.noEncryption /\ end[In] = "eof"
    BY <2>0, <2>1, <2>4 DEF ReceivedWhole, CutAfterHeader, SenderInv
  <2>5. CASE /\ case.reader # "fetch"
             /\ got = 1 /\ case.sealedWith.noEncryption /\ Unexpected
    BY <2>5 DEF ReceivedWhole, CutAfterHeader
  <2> QED
    BY <2>2, <2>3, <2>4, <2>5 DEF ReaderInv
<1> QED
  BY <1>1, InvAlways, PTL

(* Every variable keeps its type: no block is written twice.                *)
THEOREM ReceiveTypeCorrect == Spec => []TypeOK
<1>1. IInv => TypeOK
  <2> SUFFICES ASSUME IInv PROVE TypeOK
    OBVIOUS
  <2>1. Whole \in Nat /\ case.size \in 0 .. Whole
    BY ReceiveAssumption DEF IInv, Types, Whole, Case
  <2>2. trailer <= Whole /\ written["data"] <= Whole
    BY <2>1 DEF IInv, Types, SenderInv, Stored, Channels
  <2>3. written["wire"] <= Whole /\ written["pipe"] <= Whole /\ got <= Whole
    BY <2>1, <2>2 DEF IInv, Types, OrderInv, In, Channels, Case
  <2>4. written \in [Channels -> 0 .. Whole]
    BY <2>1, <2>2, <2>3 DEF IInv, Types, Channels
  <2> QED
    BY <2>1, <2>2, <2>3, <2>4 DEF IInv, Types, TypeOK
<1> QED
  BY <1>1, InvAlways, PTL

(* Nothing fails without a reason.                                          *)
THEOREM FailsOnlyForAReason == Spec => []FailsForAReason
<1>1. IInv => FailsForAReason
  BY DEF IInv, ReaderInv
<1> QED
  BY <1>1, InvAlways, PTL
=============================================================================

------------------------------- MODULE Receive -------------------------------
(***************************************************************************)
(* One backup on its way back: ReceiveBackup of every kind of destination,  *)
(* directly or through a proxy, and who reads it: uback restore and uback   *)
(* container extract, which open the container, and uback fetch, which      *)
(* copies it (destinations/*.go, cmd/proxy.go, container/container.go,      *)
(* cmd/fetch.go, cmd/container.go).                                         *)
(*                                                                         *)
(*   store -> data [-> wire -> pipe] -> reader                              *)
(*                                                                         *)
(* A container is a header block, Blocks blocks of content and a trailer.   *)
(* written[c] counts the blocks written to channel c, and got those the     *)
(* reader has taken.  A pipe holds one block, as the writer of an io.Pipe   *)
(* waits for its reader; a yamux stream holds up to Window, and reads as    *)
(* EOF when its session is gone.  Transfer has the way there.               *)
(***************************************************************************)
EXTENDS Integers, Keys

CONSTANTS
    Blocks,   \* blocks of content
    Window,   \* blocks the stream holds before its writer waits
    Cases     \* the destinations, readers and options considered

Kinds == {"fs", "ftp", "object-storage", "command", "btrfs", "zfs"}

Readers == {"restore", "fetch", "extract"}

Whole == Blocks + 2

(* size: blocks of the file in the store, less than Whole for a truncated   *)
(* one; sealedWith, openedWith: the options of the source when the backup   *)
(* was made, and those of this command.                                     *)
Case ==
    [kind : Kinds, proxied : BOOLEAN, size : 0 .. Whole, reader : Readers,
     sealedWith : KeyOptions, openedWith : KeyOptions]

(* A destination that unpacks containers takes plain ones only; extract     *)
(* reads a local file, and has no option for plain ones.                    *)
CaseOK(c) ==
    /\ RecipientsLoad(c.sealedWith)
    /\ c.kind \in {"btrfs", "zfs"} => c.sealedWith.noEncryption /\ c.size = Whole
    /\ c.reader = "extract" =>
           c.kind = "fs" /\ ~c.proxied /\ ~c.openedWith.noEncryption

ASSUME ReceiveAssumption ==
    /\ Blocks \in Nat \ {0}
    /\ Window \in Nat \ {0}
    /\ Cases \subseteq Case
    /\ \A c \in Cases : CaseOK(c)

Channels == {"data", "wire", "pipe"}

VARIABLES
    case,      \* chosen once
    written,   \* blocks written to each channel
    end,       \* how each channel ended: "open", "eof", "error"
    sender,    \* the command a destination reads from: "running", "ok", "failed"
    trailer,   \* number of the block that is the trailer, 0 if there is none yet
    session,   \* the proxy's session is alive
    handler,   \* the remote ReceiveBackup: "running", "ok", "failed"
    call,      \* what the local side knows of it: "pending", "ok", "failed",
               \* or "lost" with the session
    copied,    \* the local copy out of the stream is over
    got,       \* blocks the reader has taken
    reading    \* the reader: "keys", "header", "unseal", "content", "rest",
               \* "file", "done", "failed"

vars == <<case, written, end, sender, trailer, session, handler, call, copied,
          got, reading>>

proxyVars == <<session, handler, call, copied>>

Readings == {"keys", "header", "unseal", "content", "rest", "file", "done", "failed"}

TypeOK ==
    /\ case \in Case
    /\ written \in [Channels -> 0 .. Whole]
    /\ end \in [Channels -> {"open", "eof", "error"}]
    /\ sender \in {"running", "ok", "failed"}
    /\ trailer \in 0 .. Whole
    /\ session \in BOOLEAN
    /\ handler \in {"running", "ok", "failed"}
    /\ call \in {"pending", "ok", "failed", "lost"}
    /\ copied \in BOOLEAN
    /\ got \in 0 .. Whole
    /\ reading \in Readings

(* zfs sends no container but the stream that was in it.                    *)
Raw == case.kind = "zfs"

Init ==
    /\ case \in Cases
    /\ written = [c \in Channels |-> 0]
    /\ end = [c \in Channels |-> "open"]
    /\ sender = "running"
    /\ trailer = IF case.kind # "btrfs" /\ case.size = Whole THEN Whole ELSE 0
    /\ session = TRUE
    /\ handler = "running"
    /\ call = "pending"
    /\ copied = FALSE
    /\ got = 0
    /\ reading = IF case.reader = "restore" THEN "keys"
                 ELSE IF case.reader = "fetch" THEN "file" ELSE "header"

-----------------------------------------------------------------------------
(* The chain.                                                               *)

In == IF case.proxied THEN "pipe" ELSE "data"

TakenFrom(c) ==
    IF c = In THEN got ELSE IF c = "data" THEN written["wire"] ELSE written["pipe"]

Unread(c) == TakenFrom(c) < written[c]

Room(c) == written[c] - TakenFrom(c) < IF c = "wire" THEN Window ELSE 1

Write(c) ==
    /\ end[c] = "open"
    /\ Room(c)
    /\ written' = [written EXCEPT ![c] = @ + 1]

Close(c, how) == end' = [end EXCEPT ![c] = how]

-----------------------------------------------------------------------------
(* The destination: ReceiveBackup.                                          *)

(* How much there is to send before the sender is done.                     *)
Stored == IF case.kind = "btrfs" THEN Whole - 1 ELSE case.size

Send ==
    /\ sender = "running"
    /\ written["data"] < Stored
    /\ Write("data")
    /\ UNCHANGED <<case, end, sender, trailer, proxyVars, got, reading>>

(* The file or the command ends as it should ...                            *)
SenderEnds ==
    /\ sender = "running"
    /\ written["data"] = Stored
    /\ sender' = "ok"
    /\ UNCHANGED <<case, written, end, trailer, proxyVars, got, reading>>

(* ... or fails: it is not there, cannot be read, or exits with an error.   *)
SenderFails ==
    /\ sender = "running"
    /\ sender' = "failed"
    /\ UNCHANGED <<case, written, end, trailer, proxyVars, got, reading>>

(* CloseWithError(cmd.Wait()), or what a Read of the file returns.          *)
DataEnds ==
    /\ case.kind # "btrfs"
    /\ sender # "running"
    /\ end["data"] = "open"
    /\ Close("data", IF sender = "ok" THEN "eof" ELSE "error")
    /\ UNCHANGED <<case, written, sender, trailer, proxyVars, got, reading>>

(* Mutant: closing again writes a trailer again.                            *)
BtrfsClosesAgain ==
    /\ case.kind = "btrfs"
    /\ sender # "running"
    /\ written["data"] > 0
    /\ Write("data")
    /\ trailer' = written["data"] + 1
    /\ UNCHANGED <<case, end, sender, proxyVars, got, reading>>

(* btrfs makes a container around what its send command writes.  When that  *)
(* command fails the error is replaced by the one of closing the container, *)
(* which there is none; what fails before the header is reported.           *)
BtrfsCloses ==
    /\ case.kind = "btrfs"
    /\ sender # "running"
    /\ written["data"] > 0
    /\ trailer = 0
    /\ Write("data")
    /\ trailer' = written["data"] + 1
    /\ UNCHANGED <<case, end, sender, proxyVars, got, reading>>

BtrfsEnds ==
    /\ case.kind = "btrfs"
    /\ sender # "running"
    /\ end["data"] = "open"
    /\ \/ trailer # 0 /\ Close("data", "eof")
       \/ written["data"] = 0 /\ Close("data", "error")
    /\ UNCHANGED <<case, written, sender, trailer, proxyVars, got, reading>>

-----------------------------------------------------------------------------
(* The proxy: the remote handler copies into the stream and closes it when  *)
(* all went well; the local side copies the stream into the pipe, and ends  *)
(* that when both the copy and the call are over.                           *)

Forward ==
    /\ case.proxied /\ session
    /\ handler = "running"
    /\ Unread("data")
    /\ Write("wire")
    /\ UNCHANGED <<case, end, sender, trailer, proxyVars, got, reading>>

(* Mutant: the stream is left open.                                         *)
HandlerForgetsStream ==
    /\ case.proxied /\ session
    /\ handler = "running"
    /\ end["data"] # "open" /\ ~Unread("data")
    /\ handler' = IF end["data"] = "eof" THEN "ok" ELSE "failed"
    /\ UNCHANGED <<case, written, end, sender, trailer, session, call, copied, got, reading>>

HandlerReturns ==
    /\ case.proxied /\ session
    /\ handler = "running"
    /\ end["data"] # "open" /\ ~Unread("data")
    /\ IF end["data"] = "eof" THEN Close("wire", "eof") /\ handler' = "ok"
                              ELSE UNCHANGED end /\ handler' = "failed"
    /\ UNCHANGED <<case, written, sender, trailer, session, call, copied, got, reading>>

(* The answer comes after the data on the same connection.                  *)
CallReturns ==
    /\ case.proxied
    /\ call = "pending"
    /\ \/ session /\ handler # "running" /\ call' = handler
       \/ ~session /\ call' = "lost"
    /\ UNCHANGED <<case, written, end, sender, trailer, session, handler, copied,
                   got, reading>>

(* The connection breaks or the remote process dies: what has not arrived   *)
(* is lost, and the stream reads as EOF.                                    *)
SessionBreaks ==
    /\ case.proxied /\ session
    /\ session' = FALSE
    /\ \E n \in written["pipe"] .. written["wire"] :
           /\ call # "pending" => n = written["wire"]
           /\ written' = [written EXCEPT !["wire"] = n]
    /\ Close("wire", "eof")
    /\ UNCHANGED <<case, sender, trailer, handler, call, copied, got, reading>>

Copy ==
    /\ case.proxied
    /\ Unread("wire")
    /\ Write("pipe")
    /\ UNCHANGED <<case, end, sender, trailer, proxyVars, got, reading>>

CopyEnds ==
    /\ case.proxied /\ ~copied
    /\ end["wire"] # "open" /\ ~Unread("wire")
    /\ copied' = TRUE
    /\ UNCHANGED <<case, written, end, sender, trailer, session, handler, call,
                   got, reading>>

(* Mutant: only the copy is waited for.                                     *)
PipeEndsEarly ==
    /\ copied
    /\ end["pipe"] = "open"
    /\ Close("pipe", "eof")
    /\ UNCHANGED <<case, written, sender, trailer, proxyVars, got, reading>>

PipeEnds ==
    /\ copied /\ call # "pending"
    /\ end["pipe"] = "open"
    /\ Close("pipe", IF call = "ok" THEN "eof" ELSE "error")
    /\ UNCHANGED <<case, written, sender, trailer, proxyVars, got, reading>>

-----------------------------------------------------------------------------
(* The reader.                                                              *)

Read(next) ==
    /\ reading' = next
    /\ UNCHANGED <<case, written, end, sender, trailer, proxyVars, got>>

Take(next) ==
    /\ Unread(In)
    /\ got' = got + 1
    /\ reading' = next
    /\ UNCHANGED <<case, written, end, sender, trailer, proxyVars>>

(* restore loads its keys first, extract after the header.                  *)
LoadKeys ==
    /\ reading = "keys"
    /\ Read(IF IdentitiesLoad(case.openedWith) THEN "header" ELSE "failed")

(* NewReader.                                                               *)
ReadHeader ==
    /\ reading = "header"
    /\ IF Raw THEN Unread(In) /\ Read("failed") ELSE Take("unseal")

Unseal ==
    /\ reading = "unseal"
    /\ Read(IF /\ IdentitiesLoad(case.openedWith)
               /\ Unseals(Recipients(case.sealedWith), Identities(case.openedWith))
            THEN "content" ELSE "failed")

(* After the trailer the decoder still wants to see the end of its input.   *)
ReadContent ==
    /\ reading = "content"
    /\ Take(IF got + 1 = trailer THEN "rest" ELSE "content")

(* fetch copies whatever there is.                                          *)
CopyToFile == reading = "file" /\ Take("file")

(* Where the decoder may find its input at an end: after a container, but   *)
(* also right after the header of a plain one, of which it has read nothing *)
(* yet; age wants a header of its own first.                                *)
Ended ==
    \/ reading = "rest"
    \/ reading = "content" /\ got = 1 /\ case.sealedWith.noEncryption

(* The error of a call that was lost, or of an HTTP body that was cut, may  *)
(* be "unexpected EOF", which the decoder takes there for an EOF.           *)
Unexpected ==
    IF case.proxied THEN call = "lost"
    ELSE case.kind = "object-storage" /\ sender = "failed"

InputEnds ==
    /\ reading \in {"header", "content", "rest", "file"}
    /\ end[In] # "open" /\ ~Unread(In)
    /\ \/ end[In] = "eof" /\ (Ended \/ reading = "file") /\ Read("done")
       \/ end[In] = "error" /\ Ended /\ Unexpected /\ Read("done")
       \/ end[In] = "eof" /\ ~Ended /\ reading # "file" /\ Read("failed")
       \/ end[In] = "error" /\ Read("failed")

-----------------------------------------------------------------------------
Destination == Send \/ SenderEnds \/ DataEnds \/ BtrfsCloses \/ BtrfsEnds

Proxy == Forward \/ HandlerReturns \/ CallReturns \/ Copy \/ CopyEnds \/ PipeEnds

Reader ==
    LoadKeys \/ ReadHeader \/ Unseal \/ ReadContent \/ CopyToFile \/ InputEnds

Faults == SenderFails \/ SessionBreaks

Next == Destination \/ Proxy \/ Reader \/ Faults

Spec == Init /\ [][Next]_vars

(* Goroutines are scheduled; nothing has to fail.                           *)
FairSpec == Spec /\ WF_vars(Destination) /\ WF_vars(Proxy) /\ WF_vars(Reader)

-----------------------------------------------------------------------------
(* Properties.                                                              *)

(* A plain container that ends with its header, because it was stored so    *)
(* or because the connection broke just there.                              *)
CutAfterHeader ==
    got = 1 /\ case.sealedWith.noEncryption /\ (case.size = 1 \/ Unexpected)

(* A restore or an extraction that reaches the end of its container has the *)
(* whole content, and a fetch the whole file, whatever broke on the way.    *)
(* The code has two exceptions: a btrfs destination whose send command      *)
(* failed passes a short stream off as a whole one (destinations/btrfs.go   *)
(* ReceiveBackup), and a plain container cut right after its header is read *)
(* as one without content (container/container.go Unseal).                  *)
ReceivedWhole ==
    reading = "done" =>
        \/ case.kind = "btrfs" /\ sender = "failed"
        \/ case.reader # "fetch" /\ CutAfterHeader
        \/ case.reader = "fetch" /\ got = IF case.kind = "btrfs" THEN Whole ELSE case.size
        \/ case.reader # "fetch" /\ got = Whole /\ trailer = Whole

(* The options of a source and of a destination that belong together: none  *)
(* encrypts, or one gives the public key of a pair and the other the        *)
(* private one, each in one of the two ways there are.                      *)
Belong(sealed, opened) ==
    \/ sealed.noEncryption /\ opened.noEncryption
    \/ /\ ~sealed.noEncryption /\ ~opened.noEncryption
       /\ \E k \in KeyPairs :
              /\ {sealed.keyFile, sealed.key} = {Public(k), NoKey}
              /\ {opened.keyFile, opened.key} = {Private(k), NoKey}

(* Nothing fails without a reason: with the options that belong to those it *)
(* was made with, a backup comes back unless it was stored truncated, its   *)
(* sender or session failed, or it comes from a zfs destination             *)
(* (lib/utils.go LoadIdentities, LoadRecipients, container.go Unseal).      *)
FailsForAReason ==
    reading = "failed" =>
        \/ sender = "failed"
        \/ ~session
        \/ case.size # Whole
        \/ Raw
        \/ ~Belong(case.sealedWith, case.openedWith)

(* A command that receives a backup ends, unless the remote ReceiveBackup   *)
(* failed in a session that lives on: then nothing ends the data stream     *)
(* (cmd/proxy.go, destinations/proxy.go).                                   *)
EndsUnlessRemoteFails ==
    <>(reading \in {"done", "failed"} \/ (session /\ handler = "failed"))
=============================================================================

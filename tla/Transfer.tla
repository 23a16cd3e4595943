------------------------------ MODULE Transfer ------------------------------
(***************************************************************************)
(* One backup on its way from the command that produces it to the           *)
(* destination that keeps it (cmd/backup.go and everything CreateBackup and *)
(* SendBackup start): a chain of goroutines and processes joined by pipes   *)
(* and, for a proxied source or destination, by yamux streams to another    *)
(* uback.                                                                   *)
(*                                                                         *)
(*   command -> data [-> wireIn -> pipe] -> backup [-> wireOut]             *)
(*                             [-> stdin of a destination command] -> store *)
(*                                                                         *)
(* written[c] counts the blocks ever written to channel c; what its reader  *)
(* has not taken yet is the difference with the count of the next channel.  *)
(* A pipe holds one block and its writer waits until it is taken, as        *)
(* io.Pipe's does; a stream holds up to Window.  A channel ends with an EOF *)
(* or with an error (CloseWithError); a stream of a session that is gone    *)
(* reads as EOF too.  The container's trailer is one more block.            *)
(***************************************************************************)
EXTENDS Integers

CONSTANTS
    Blocks,   \* blocks the source command produces
    Window,   \* blocks a stream holds before its writer waits
    Routes    \* the ways a backup may take

Kinds == {"fs", "ftp", "object-storage", "command", "btrfs", "zfs"}

Route == [proxiedSource : BOOLEAN, proxiedDest : BOOLEAN, kind : Kinds]

(* Destinations that can tell the end of a backup from a failure: one that  *)
(* unpacks the container misses its trailer; a local one reads from a pipe. *)
SafeRoutes ==
    {r \in Route : \/ r.kind \in {"btrfs", "zfs"}
                   \/ r.kind # "command" /\ ~r.proxiedDest}

ASSUME TransferAssumption ==
    /\ Blocks \in Nat \ {0}
    /\ Window \in Nat \ {0}
    /\ Routes \subseteq Route

Whole == Blocks + 1

Channels == {"data", "wireIn", "pipe", "backup", "wireOut", "stdin"}

VARIABLES
    route,     \* chosen once
    written,   \* blocks written to each channel, and to the store
    end,       \* how each channel ended: "open", "eof", "error"
    cmd,       \* the source command, finalize included: "running", "ok", "failed"
    snapshot,  \* whether finalize has given the snapshot its final name
    transmit,  \* the remote TransmitBackup call: "running", "ok", "failed"
    cut,       \* sessions that broke: a subset of {"source", "dest"}
    fed,       \* copying into stdin is over: "no", "clean", "error"
    child,     \* the destination command: "running", "ok", "failed"
    handler,   \* the destination's own SendBackup: "running", "ok", "failed"
    dest,      \* "absent", "tmp": there but never listed, "final": listed
    outcome    \* of the backup command: "pending", "ok", "failed", "killed"

vars == <<route, written, end, cmd, snapshot, transmit, cut, fed, child,
          handler, dest, outcome>>

Results == {"running", "ok", "failed"}

TypeOK ==
    /\ route \in Route
    /\ written \in [Channels \cup {"store"} -> 0 .. Whole]
    /\ end \in [Channels -> {"open", "eof", "error"}]
    /\ cmd \in Results
    /\ snapshot \in BOOLEAN
    /\ transmit \in Results
    /\ cut \subseteq {"source", "dest"}
    /\ fed \in {"no", "clean", "error"}
    /\ child \in Results
    /\ handler \in Results
    /\ dest \in {"absent", "tmp", "final"}
    /\ outcome \in {"pending", "ok", "failed", "killed"}

Init ==
    /\ route \in Routes
    /\ written = [c \in Channels \cup {"store"} |-> 0]
    /\ end = [c \in Channels |-> "open"]
    /\ cmd = "running"
    /\ snapshot = FALSE
    /\ transmit = "running"
    /\ cut = {}
    /\ fed = "no"
    /\ child = "running"
    /\ handler = "running"
    /\ dest = "absent"
    /\ outcome = "pending"

-----------------------------------------------------------------------------
(* The chain.                                                               *)

(* btrfs, zfs and custom destinations hand the data to a command; the first *)
(* two unpack the container before.                                         *)
Piped == route.kind \in {"command", "btrfs", "zfs"}

Unpacks == route.kind \in {"btrfs", "zfs"}

DataOut == IF route.proxiedSource THEN "pipe" ELSE "data"

DestIn == IF route.proxiedDest THEN "wireOut" ELSE "backup"

Sink == IF Piped THEN "stdin" ELSE "store"

ReaderOf(c) ==
    CASE c = "data" /\ route.proxiedSource -> "wireIn"
      [] c = "wireIn" -> "pipe"
      [] c = DataOut -> "backup"
      [] c = "backup" /\ route.proxiedDest -> "wireOut"
      [] c = DestIn -> Sink
      [] OTHER -> "store"

Unread(c) == written[c] > written[ReaderOf(c)]

Room(c) ==
    written[c] - written[ReaderOf(c)] < IF c \in {"wireIn", "wireOut"} THEN Window ELSE 1

Ended(c) == end[c] # "open" /\ ~Unread(c)

Write(c) ==
    /\ end[c] = "open"
    /\ Room(c)
    /\ written' = [written EXCEPT ![c] = @ + 1]

Close(c, how) == end' = [end EXCEPT ![c] = how]

(* Which ends of the chain are still being served.                          *)
LocalUp == outcome = "pending"

SourceUp == LocalUp \/ route.proxiedSource

DestUp == handler = "running" /\ (LocalUp \/ route.proxiedDest)

(* The local uback process is gone.  Whoever reads from it sees EOF, and    *)
(* the blocks of wireOut that are still on their way may be lost.           *)
Leave(result) ==
    /\ outcome' = result
    /\ end' = [c \in Channels |->
                   IF /\ end[c] = "open"
                      /\ c = "wireOut" \/ (c = "stdin" /\ ~route.proxiedDest)
                   THEN "eof" ELSE end[c]]
    /\ \E n \in written[Sink] .. written["wireOut"] \cup {written["wireOut"]} :
           written' = [written EXCEPT !["wireOut"] = n]

(* The destination's SendBackup returns: to the local uback, which is done  *)
(* (logrus.Fatal if it failed), or to the one that serves the proxy.        *)
Return(result) ==
    /\ handler' = result
    /\ IF route.proxiedDest THEN UNCHANGED <<outcome, end, written>> ELSE Leave(result)

-----------------------------------------------------------------------------
(* The source.                                                              *)

Produce ==
    /\ cmd = "running" /\ SourceUp
    /\ written["data"] < Blocks
    /\ Write("data")
    /\ UNCHANGED <<route, end, cmd, snapshot, transmit, cut, fed, child,
                   handler, dest, outcome>>

(* Mutant: the result of finalize is dropped.                               *)
FinalizeResultDropped ==
    /\ cmd = "running" /\ SourceUp
    /\ written["data"] = Blocks /\ ~Unread("data")
    /\ \E finalized \in BOOLEAN :
           /\ cmd' = "ok"
           /\ snapshot' = finalized
           /\ Close("data", "eof")
    /\ UNCHANGED <<route, written, transmit, cut, fed, child, handler, dest, outcome>>

(* cmd.Wait, then finalize, then CloseWithError: the snapshot has its name  *)
(* before the reader can see EOF.  finalize may fail.                       *)
CommandExits ==
    /\ cmd = "running" /\ SourceUp
    /\ written["data"] = Blocks /\ ~Unread("data")
    /\ \E finalized \in BOOLEAN :
           /\ cmd' = IF finalized THEN "ok" ELSE "failed"
           /\ snapshot' = finalized
           /\ Close("data", IF finalized THEN "eof" ELSE "error")
    /\ UNCHANGED <<route, written, transmit, cut, fed, child, handler, dest, outcome>>

(* Source.TransmitBackup on the remote uback.  It closes the data stream    *)
(* when it has copied everything, and only then.                            *)
Transmit ==
    /\ route.proxiedSource /\ transmit = "running"
    /\ Unread("data")
    /\ Write("wireIn")
    /\ UNCHANGED <<route, end, cmd, snapshot, transmit, cut, fed, child,
                   handler, dest, outcome>>

TransmitReturns ==
    /\ route.proxiedSource /\ transmit = "running"
    /\ \/ /\ Ended("data") /\ end["data"] = "eof" /\ end["wireIn"] = "open"
          /\ transmit' = "ok"
          /\ Close("wireIn", "eof")
       \/ /\ \/ Ended("data") /\ end["data"] = "error"
             \/ end["wireIn"] # "open"
          /\ transmit' = "failed"
          /\ UNCHANGED end
    /\ UNCHANGED <<route, written, cmd, snapshot, cut, fed, child, handler,
                   dest, outcome>>

(* The goroutines of proxySource.CreateBackup: one copies the stream, one   *)
(* waits for the call, a third waits for both and then ends the pipe.       *)
Collect ==
    /\ route.proxiedSource /\ LocalUp
    /\ Unread("wireIn")
    /\ Write("pipe")
    /\ UNCHANGED <<route, end, cmd, snapshot, transmit, cut, fed, child,
                   handler, dest, outcome>>

(* Mutant: the pipe ends with the stream, whatever the call returned.       *)
CollectIgnoresCall ==
    /\ route.proxiedSource /\ LocalUp
    /\ end["pipe"] = "open" /\ ~Unread("pipe")
    /\ Ended("wireIn")
    /\ Close("pipe", "eof")
    /\ UNCHANGED <<route, written, cmd, snapshot, transmit, cut, fed, child,
                   handler, dest, outcome>>

CollectEnds ==
    /\ route.proxiedSource /\ LocalUp
    /\ end["pipe"] = "open" /\ ~Unread("pipe")
    /\ Ended("wireIn")
    /\ transmit # "running" \/ "source" \in cut
    /\ Close("pipe", IF transmit = "ok" /\ "source" \notin cut THEN "eof" ELSE "error")
    /\ UNCHANGED <<route, written, cmd, snapshot, transmit, cut, fed, child,
                   handler, dest, outcome>>

-----------------------------------------------------------------------------
(* The goroutine of the backup command that packs data into a container.    *)

(* Mutant: closing the container writes its trailer more than once.         *)
SealWritesTrailers ==
    /\ LocalUp
    /\ \/ Unread(DataOut)
       \/ Ended(DataOut) /\ end[DataOut] = "eof"
    /\ Write("backup")
    /\ UNCHANGED <<route, end, cmd, snapshot, transmit, cut, fed, child,
                   handler, dest, outcome>>

Seal ==
    /\ LocalUp
    /\ \/ Unread(DataOut)
       \/ Ended(DataOut) /\ end[DataOut] = "eof" /\ written["backup"] = written[DataOut]
    /\ Write("backup")
    /\ UNCHANGED <<route, end, cmd, snapshot, transmit, cut, fed, child,
                   handler, dest, outcome>>

(* Mutants: an error ends the pipe like EOF does; an error does not end it. *)
SealHidesError ==
    /\ LocalUp
    /\ end["backup"] = "open" /\ ~Unread("backup")
    /\ Ended(DataOut)
    /\ end[DataOut] = "eof" => written["backup"] > written[DataOut]
    /\ Close("backup", "eof")
    /\ UNCHANGED <<route, written, cmd, snapshot, transmit, cut, fed, child,
                   handler, dest, outcome>>

SealForgetsPipe ==
    /\ LocalUp
    /\ end["backup"] = "open" /\ ~Unread("backup")
    /\ Ended(DataOut)
    /\ end[DataOut] = "eof" /\ written["backup"] > written[DataOut]
    /\ Close("backup", end[DataOut])
    /\ UNCHANGED <<route, written, cmd, snapshot, transmit, cut, fed, child,
                   handler, dest, outcome>>

SealEnds ==
    /\ LocalUp
    /\ end["backup"] = "open" /\ ~Unread("backup")
    /\ Ended(DataOut)
    /\ end[DataOut] = "eof" => written["backup"] > written[DataOut]
    /\ Close("backup", end[DataOut])
    /\ UNCHANGED <<route, written, cmd, snapshot, transmit, cut, fed, child,
                   handler, dest, outcome>>

-----------------------------------------------------------------------------
(* proxyDestination.SendBackup.  It looks at the call only when it has      *)
(* written everything.                                                      *)

Forward ==
    /\ route.proxiedDest /\ LocalUp
    /\ Unread("backup")
    /\ Write("wireOut")
    /\ UNCHANGED <<route, end, cmd, snapshot, transmit, cut, fed, child,
                   handler, dest, outcome>>

(* Reading failed, or writing did: the deferred CloseProxy ends the session.*)
ForwardFails ==
    /\ route.proxiedDest /\ LocalUp
    /\ \/ Ended("backup") /\ end["backup"] = "error"
       \/ "dest" \in cut /\ (Unread("backup") \/ end["backup"] # "open")
    /\ Leave("failed")
    /\ UNCHANGED <<route, cmd, snapshot, transmit, cut, fed, child, handler, dest>>

ForwardCloses ==
    /\ route.proxiedDest /\ LocalUp
    /\ Ended("backup") /\ end["backup"] = "eof"
    /\ end["wireOut"] = "open"
    /\ Close("wireOut", "eof")
    /\ UNCHANGED <<route, written, cmd, snapshot, transmit, cut, fed, child,
                   handler, dest, outcome>>

(* Mutant: the call is not waited for.                                      *)
ForwardForgetsCall ==
    /\ route.proxiedDest /\ LocalUp
    /\ end["wireOut"] = "eof" /\ cut = {}
    /\ Leave("ok")
    /\ UNCHANGED <<route, cmd, snapshot, transmit, cut, fed, child, handler, dest>>

ForwardReturns ==
    /\ route.proxiedDest /\ LocalUp
    /\ end["wireOut"] = "eof" /\ "dest" \notin cut
    /\ handler # "running"
    /\ Leave(handler)
    /\ UNCHANGED <<route, cmd, snapshot, transmit, cut, fed, child, handler, dest>>

-----------------------------------------------------------------------------
(* SendBackup of fs, ftp and object-storage: write under a name that is not *)
(* listed, and give it its name after EOF.                                  *)

Receive ==
    /\ ~Piped /\ DestUp
    /\ Unread(DestIn)
    /\ written' = [written EXCEPT !["store"] = @ + 1]
    /\ dest' = "tmp"
    /\ UNCHANGED <<route, end, cmd, snapshot, transmit, cut, fed, child,
                   handler, outcome>>

Rename ==
    /\ ~Piped /\ DestUp
    /\ Ended(DestIn) /\ end[DestIn] = "eof"
    /\ dest' = "final"
    /\ Return("ok")
    /\ UNCHANGED <<route, cmd, snapshot, transmit, cut, fed, child>>

(* An error from the reader.  ftp leaves its temporary file behind.         *)
ReceiveFails ==
    /\ ~Piped /\ DestUp
    /\ Ended(DestIn) /\ end[DestIn] = "error"
    /\ dest' = IF route.kind = "ftp" THEN dest ELSE "absent"
    /\ Return("failed")
    /\ UNCHANGED <<route, cmd, snapshot, transmit, cut, fed, child>>

-----------------------------------------------------------------------------
(* SendBackup of btrfs, zfs and command.  os/exec copies the reader into    *)
(* the command's stdin and closes it when the reader ends, with an error or *)
(* not; Run returns the command's failure, else the copy's.                 *)

Feed ==
    /\ Piped /\ DestUp
    /\ fed = "no" /\ child = "running"
    /\ Unread(DestIn)
    /\ Write("stdin")
    /\ UNCHANGED <<route, end, cmd, snapshot, transmit, cut, fed, child,
                   handler, dest, outcome>>

(* A container that stops early is an error; a command that stops reading   *)
(* early is not.                                                            *)
FeedEnds ==
    /\ Piped /\ DestUp
    /\ fed = "no"
    /\ \/ /\ Ended(DestIn)
          /\ fed' = IF end[DestIn] = "eof" /\ (Unpacks => written["stdin"] = Whole)
                    THEN "clean" ELSE "error"
       \/ /\ child # "running" /\ Unread(DestIn)
          /\ fed' = "clean"
    /\ Close("stdin", "eof")
    /\ UNCHANGED <<route, written, cmd, snapshot, transmit, cut, child,
                   handler, dest, outcome>>

Digest ==
    /\ Piped /\ child = "running"
    /\ Unread("stdin")
    /\ written' = [written EXCEPT !["store"] = @ + 1]
    /\ dest' = "tmp"
    /\ UNCHANGED <<route, end, cmd, snapshot, transmit, cut, fed, child,
                   handler, outcome>>

(* btrfs receive leaves a _tmp- snapshot, which SendBackup renames; zfs     *)
(* receive takes a complete stream or nothing; a custom command, like the   *)
(* one in tests/, keeps what it was given.                                  *)
ChildExits ==
    /\ Piped /\ child = "running"
    /\ Unpacks => written["stdin"] > 0
    /\ Ended("stdin")
    /\ IF route.kind = "zfs" /\ written["store"] < Whole
       THEN child' = "failed" /\ dest' = "absent"
       ELSE /\ child' = "ok"
            /\ dest' = IF route.kind = "btrfs" THEN "tmp" ELSE "final"
    /\ UNCHANGED <<route, written, end, cmd, snapshot, transmit, cut, fed,
                   handler, outcome>>

(* Without a header to read, the command is not even started.               *)
ChildReturns ==
    /\ Piped /\ DestUp
    /\ fed # "no"
    /\ child # "running" \/ (Unpacks /\ written["stdin"] = 0)
    /\ \E renamed \in BOOLEAN :
           /\ renamed => child = "ok" /\ fed = "clean"
           /\ route.kind # "btrfs" /\ child = "ok" /\ fed = "clean" => renamed
           /\ dest' = IF renamed THEN "final" ELSE dest
           /\ Return(IF renamed THEN "ok" ELSE "failed")
    /\ UNCHANGED <<route, cmd, snapshot, transmit, cut, fed, child>>

-----------------------------------------------------------------------------
(* What may go wrong by itself: commands, disks, servers, sessions, and     *)
(* the local uback.                                                         *)

CommandFails ==
    /\ cmd = "running" /\ SourceUp
    /\ ~Unread("data")
    /\ cmd' = "failed"
    /\ Close("data", "error")
    /\ UNCHANGED <<route, written, snapshot, transmit, cut, fed, child,
                   handler, dest, outcome>>

(* Creating, writing or renaming fails.  A failed rename makes ftp delete   *)
(* its temporary file, a failed write does not.                             *)
StoreFails ==
    /\ ~Piped /\ DestUp
    /\ dest' \in IF route.kind = "ftp" THEN {"absent", dest} ELSE {"absent"}
    /\ Return("failed")
    /\ UNCHANGED <<route, cmd, snapshot, transmit, cut, fed, child>>

ChildFails ==
    /\ Piped /\ child = "running"
    /\ Unpacks => written["stdin"] > 0
    /\ child' = "failed"
    /\ dest' = IF route.kind = "zfs" THEN "absent" ELSE dest
    /\ UNCHANGED <<route, written, end, cmd, snapshot, transmit, cut, fed,
                   handler, outcome>>

(* A session breaks: streams read as EOF on both sides, calls fail.         *)
CutSource ==
    /\ route.proxiedSource /\ LocalUp /\ "source" \notin cut
    /\ cut' = cut \cup {"source"}
    /\ Close("wireIn", "eof")
    /\ UNCHANGED <<route, written, cmd, snapshot, transmit, fed, child,
                   handler, dest, outcome>>

CutDest ==
    /\ route.proxiedDest /\ LocalUp /\ "dest" \notin cut
    /\ cut' = cut \cup {"dest"}
    /\ Close("wireOut", "eof")
    /\ \E n \in written[Sink] .. written["wireOut"] :
           written' = [written EXCEPT !["wireOut"] = n]
    /\ UNCHANGED <<route, cmd, snapshot, transmit, fed, child, handler, dest,
                   outcome>>

Kill ==
    /\ LocalUp
    /\ Leave("killed")
    /\ UNCHANGED <<route, cmd, snapshot, transmit, cut, fed, child, handler, dest>>

-----------------------------------------------------------------------------
Progress ==
    \/ Produce \/ CommandExits
    \/ Transmit \/ TransmitReturns \/ Collect \/ CollectEnds
    \/ Seal \/ SealEnds
    \/ Forward \/ ForwardFails \/ ForwardCloses \/ ForwardReturns
    \/ Receive \/ Rename \/ ReceiveFails
    \/ Feed \/ FeedEnds \/ Digest \/ ChildExits \/ ChildReturns

Failure == CommandFails \/ StoreFails \/ ChildFails \/ CutSource \/ CutDest \/ Kill

Next == Progress \/ Failure

Spec == Init /\ [][Next]_vars

(* Goroutines that can run do run, commands produce, consume and exit; no   *)
(* failure has to happen.  A transfer only takes finitely many steps, so    *)
(* that no step can be overtaken for ever.                                  *)
FairSpec == Spec /\ WF_vars(Progress)

-----------------------------------------------------------------------------
(* Properties.                                                              *)

(* What a destination on a safe route lists is a whole backup, trailer      *)
(* included, whatever failed on the way: it never takes an error, a broken  *)
(* session or the death of the sender for the end of the data.              *)
CommittedWhole ==
    dest = "final" /\ route \in SafeRoutes => written["store"] = Whole

(* A backup that is listed there has its snapshot on the source under its   *)
(* final name, even if its command died right after: WrapSourceCommand      *)
(* calls finalize before the reader can see EOF, so the next backup has a   *)
(* base.                                                                    *)
CommittedHasSnapshot == dest = "final" /\ route \in SafeRoutes => snapshot

(* lib/interfaces.go: SendBackup stores a backup whose data is `data`: no   *)
(* destination at all lists a part of one.                                  *)
NothingTruncated == dest = "final" => written["store"] = Whole

(* The backup command only succeeds, hence only goes on to write the state  *)
(* file and to prune, when the whole backup is listed on the destination.   *)
SuccessMeansStored ==
    outcome = "ok" => dest = "final" /\ written["store"] = Whole /\ snapshot

(* On a safe route the transfer is an atomic send, on the others one that   *)
(* may leave a part of a backup behind but never reports it as stored.      *)
Atomic ==
    INSTANCE AtomicSend WITH
        exact <- route \in SafeRoutes,
        entry <- IF dest # "final" THEN "none"
                 ELSE IF written["store"] = Whole /\ snapshot THEN "whole"
                 ELSE "part"

AtomicSpec == Atomic!Spec

(* doc/custom-sources.md: a non-zero exit code indicates a failure.  When   *)
(* the source command fails, so does the backup command in the end.         *)
FailureReported == cmd = "failed" ~> outcome \in {"failed", "killed"}

(* The two calls whose failure can leave the backup command waiting for     *)
(* ever are the ones that carry the data of a proxied source or             *)
(* destination: in every other case it ends, broken sessions included.      *)
EndsUnlessRemoteFails ==
    <>(outcome # "pending" \/ transmit = "failed" \/ handler = "failed")
=============================================================================

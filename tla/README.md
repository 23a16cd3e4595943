# uback in TLA+

A specification of uback's backup cycle, of the way back, and of its options, checked with TLC and
proved, where the prover reaches, with TLAPS. Source references are to `src/` (the repository).

Contents: [the system](#1-the-system) ·
[the modules](#2-the-modules-and-the-code) · [the runs](#3-the-runs) ·
[the proofs](#4-the-proofs) · [disagreements](#5-where-code-and-documentation-disagree) ·
[limits](#6-what-is-not-modelled) · [plan](#7-plan)

## 1. The system

uback has no daemon. Every command is a process that evaluates its options, works on a
*source* and a *destination*, and exits. What survives is on disks:

| Where | State | Written by |
|---|---|---|
| source | *archives* (kept for their own sake, under retention policies) and *bookmarks* (kept only as bases of incremental backups) | `CreateBackup` and its finalize callback, `RemoveArchive`, `RemoveBookmark` |
| destination | one backup (file, object, subvolume, zfs snapshot) per snapshot, full or built on a base | `SendBackup`, `RemoveBackup` |
| `StateFile` of the source | for each destination ID the last snapshot backed up there | the backup command |
| presets directory | a file of key-value pairs per preset | `preset set`, `preset remove` |
| target directory of a restore or fetch | restored snapshots, backup files | the restore and fetch commands |

The parts, what they do, and what makes them correct:

* **Retention engine** (`lib/retention.go`, chains in `lib/utils.go`). Pure. From a
  listing sorted from the most recent down and a list of policies it computes what
  may go. Correct if it takes the greedy selection the policies describe, never
  breaks a chain, and repeats without effect. Policies and intervals are parsed from text.
* **backup command** (`cmd/backup.go`). Lists backups, bookmarks, archives; chooses
  a base; creates and sends the backup; rewrites the state file; prunes the source
  with the map it holds in memory; prunes the destination with the listing it made
  at its start. Correct if what the state file records exists on both sides, and
  what is on a destination can be restored. Hard: nothing is locked, and the process
  may die at any call.
* **prune commands** (`cmd/prune.go`). The same removals on their own, decided on
  fresh listings. Hard: they interleave with backup commands.
* **Sources** (`sources/`). tar and mariabackup keep bookmarks; btrfs keeps archives;
  zfs keeps archives and, with `UseBookmarks`, bookmarks; both can send one snapshot to
  several destinations (`ReuseSnapshots`). A snapshot gets its final
  name in the finalize callback of `WrapSourceCommand`, or (zfs) before the data.
  Correct if no backup is stored without its snapshot, and the base that was chosen
  is where the sending command looks for it. Hard: a snapshot that is sent again exists
  before the backup it becomes, under a name that changes while it is sent.
* **Data path**. The source command's pipe, a goroutine that packs a container, the
  destination's `SendBackup`. Correct if an error anywhere is never taken for the end
  of the data, and everybody ends. Hard: four goroutines and up to three processes.
* **Proxies** (`cmd/proxy.go`, `sources/proxy.go`, `destinations/proxy.go`). A remote
  uback over yamux: one stream of calls, one of data. Hard: the call's result and the
  data's end arrive separately, and the session may break.
* **Destinations** (`destinations/`). fs and ftp rename a `_tmp-` file; object-storage
  relies on an atomic put; btrfs and zfs unpack the container into a receive command;
  command hands the container to a script.
* **restore and fetch commands** (`cmd/restore.go`, `cmd/fetch.go`, with `ReceiveBackup` of
  the destinations and `RestoreBackup` of the sources). They walk a chain from the full
  backup on, and work in a directory that keeps what earlier commands left. Correct if
  success means that the directory of the snapshot has its content. Hard: every step of a
  restore changes a directory another step needs, and a kill leaves it half done.
* **Containers and keys** (`container/container.go`, `lib/utils.go`, `cmd/container.go`). A
  header, content that may be encrypted and is compressed, an end that can be told from a cut
  (except right after the header of one that is not encrypted).
  Correct if what is opened with the options it was made with comes back, and what is read to
  its end is whole. Hard: the writer, two goroutines of a proxy and the reader each see an end or
  an error of their own.
* **Options and presets** (`lib/options.go`, `cmd/preset.go`). A line of pairs is split at
  unescaped commas; a preset stands for the pairs in its file; values are templates over
  what was evaluated before. Correct if the pairs the user meant are those that are evaluated,
  in their order. Hard: escapes, presets that include presets, files that are rewritten
  meanwhile.
* **Listings, key generation, dispatch**: see [limits](#6-what-is-not-modelled).

Components meet through the files above (backup, prune and preset commands), through
callbacks (`finalize`), through pipes and streams (the data path), and through
errors: every failed call of the backup command before its prune is
`logrus.Fatal`, every one in the prune is a warning.

## 2. The modules and the code

```
Retention <- Source <- BackupCycle <- MCBackupCycle, BackupCycleProofs
Retention <- Reuse <- MCReuse, ReuseProofs
Retention <- Restore <- MCRestore, RestoreProofs
Retention <- Policies <- MCRetention <- MCRetentionProofs
Retention <- RetentionProofs <- MCRetentionProofs, PresetsProofs
Keys      <- Receive <- MCReceive, ReceiveProofs
Transfer  <- MCTransfer, TransferProofs
Presets   <- MCPresets, PresetsProofs
Transfer  implements AtomicSend, what BackupCycle and Reuse assume of a destination
Presets   implements PresetStore, what the user may assume of preset commands
```

**Retention** is pure: one operator per function. A snapshot is its instant (names
compare like times), a backup a pair `[snap, base]`. `GetFullChain` is written
declaratively, as the set every chain of the backup contains; `MCRetention` compares
it with the loop of the code. A sorted listing has at each place the backup with so many newer
ones (`Newer`). `ApplyRetentionPolicies` is a recursive function over the sorted listing, like
the `for` loop, one `Visit` for each subject, with the 0.9 factor as 10:9.

**Policies** has `ParseInterval` and `ParseRetentionPolicy`. A text is a sequence of tokens (a
digit, a unit, an alias, `=`, `:`, the word `full`), a result a value and whether there was an error; `Atoi` reads
figures from the left, a recursive function of the position. `MCRetention` says what
a text means, as a set that is empty if it means nothing: where its equals sign and the end of its count may be (`Readings`), and
what figures are worth by their places (`Decimal`). `DocumentedMeanings` has the form of `doc/reference.md`, with a positive interval and
at most one option, and the length of an hour as a parameter; `WiderMeanings` adds what else the code takes, an interval of zero and
an option that is repeated.

**Source** holds `archives`, `bookmarks` and its configuration `source` (kind and the two
options that decide what it keeps), chosen once in `SourceInit`, so that one run covers a
set of configurations. `CreateBackup` is split where another
process could look in between: the call itself (with the base fallbacks of tar and
mariabackup), zfs's separate bookmark command, the moment the sending command
opens the base, and finalize.

**BackupCycle** has, for each process, `pc` (the call it makes next) and the locals of
`cmdBackup` and the prune commands. Each call that touches shared state is one
action: `StartBackup` (list the destination), `ListBookmarks`, `ChooseBase` (list
archives and decide), `CreateBackupStep`, `BookmarkStep`, `OpenStep`, `FinalizeStep`,
`Commit` (`SendBackup` returns), `ReadState`, `TruncateState` and `WriteState` (the two
halves of `os.WriteFile`), the listings, decisions and single removals of
`PruneSnapshots` and `PruneBackups`, and the two prune commands. A listing of the
source that fails in a prune is a warning, and the command goes on to the destination. `Abort` is a kill or
a `logrus.Fatal` between any two of them. `Garbles` says when two interleaved writes of
the state file leave text that is not JSON: the longer one's tail stays behind.

**Transfer** opens up `Commit`: blocks flow along
`data [-> wireIn -> pipe] -> backup [-> wireOut] [-> stdin] -> store`, one action for
each goroutine's read-and-write and one for each way it may end. A container's
trailer is a block of its own (`Whole = Blocks + 1`). The route (proxied source,
proxied destination, kind of destination) is a variable chosen in `Init`, so that one
run covers a set of routes. Failures are actions: the source command, the disk or
server, the destination command, either session, the local process.
A stream of a yamux session that is gone reads as EOF: that is the library's
behaviour, and the reason for `transfer_truncated`.

**AtomicSend** is the promise: a backup appears whole or not at all, and success is
only reported for one that is there. A backup may appear and nobody report it. Where
`exact` is FALSE, a part of a backup may appear, but is not reported as a success. Transfer
implements it with `exact` for the routes in `SafeRoutes`: those on which the destination can
tell the end of a backup from a failure, because containers are unpacked (a missing trailer
shows), or because it is local and reads from a pipe that carries errors. A command
destination and a remote file destination are not among them.

**Reuse** is one backup command at a time with `ReuseSnapshots`. `CreateReusing` gives the
backup the name of the most recent archive if that is young enough, `CreateNew` takes
a snapshot; btrfs keeps what it sends under a `_tmp-` name (`tmps`), also a snapshot it had
already, until `Finalize` renames it. `FindsBase` says where the sending command looks for the
base. A send may break off at any time, or find no base (`Sent`). `Finalize` reports its failure except for a reused btrfs
snapshot, as the code does, so that a part of a stream may be listed; `short` remembers which backups that happened to, and why.
The two prunes remove a part of what they may remove, which covers a kill or failed removals;
the state file is one step, as BackupCycle has its steps. `Spacing` is how long an
administrator's schedule leaves between two backups to the same destination.

**Keys** says which keys the options of a command give and which seal they open. A key is one half of a pair. `LoadRecipients`
wants a public key and `LoadIdentities` a private one, and either fails on the other: nothing is derived (section 5).

**Receive** is Transfer's counterpart, the inside of Restore's `ReceiveBackup` and of
`ReadHeader`: a header, blocks of content and a trailer flow along
`store -> data [-> wire -> pipe] -> reader`. `case` is chosen in `Init`: the destination,
whether it is proxied, how much of the file it has, the options the container was
made with and those it is opened with, and the reader: `restore` and `extract` open the
container, `fetch` copies it. `InputEnds` is what a reader makes of the end of its input: the decoder may find it after the trailer,
but also right after the header of a plain container (`Ended`), where it takes an "unexpected EOF" for one as well (`Unexpected`). btrfs packs a container as it sends (`BtrfsCloses` writes the
trailer and lets the container's error take the send's place), zfs sends none.

**Restore** puts one restore command and one fetch command at a time into one target
directory, and a prune on the destination. `left` (`fleft`) is what the loop over
`GetFullChain` has not reached, `rpc` (`fpc`) the call the command makes next for the oldest
of it: `OpenLocal` or `ReceiveBackup`, `ReadHeader` (`NewReader` and `Unseal`), then
the steps of the source's `RestoreBackup`, one action for each that changes a directory
(`Clear`, `TarPlace`, `TarExtract`; `MariabackupPlace`, ..., `MariabackupRename`;
`BtrfsReceive`, `BtrfsRename`; `ZfsReceive`). `RestoreDies` is a kill, or the failure of any
of them: what was being written then holds anything. `dirs` says what each directory
holds: a snapshot's content, `NoBase` (nothing yet) or `Mixed` (anything else). A backup
extracted over the content of its base gives its snapshot's content, over anything else
`Mixed`. That is as fine as `doc/src-tar.md` lets one be: tar does not delete what
was deleted between the two. Streams are one value, `input`: `whole`, `cut` (an error before the
end), `empty` (a plain container cut right after its header), and what is particular to three destinations, `short`, `raw` and `hung`
(section 5). The source, the destination, whether it is proxied and whether backups are made without encryption are `route`, chosen in `Init`.

**Presets** has processes that run `preset set` and `preset remove`, and processes that run any
other command: `ListDirectory`, `OpenPreset` for each file, `StartEval`, then one step for
each pair. `stack` is the nest of calls of `evalOptions`. Text is a sequence of tokens, the characters the
code looks at and `Words`, so that
splitting (`Separates` is the regular expression), unescaping (`Kept`), the first equals sign and the
trimming of file names (`TrimName`) are what the code does to them, each loop a recursive function of the position; `LineText` writes a list of pairs
the way `doc/reference.md` tells the user to. What a line means (`Documented`) is said without a stack: the pairs with all presets put in
place (`Flat`), each option with the last or all of the values among them (`Meaning`). A file that is being rewritten is `Torn`, and
reads as a preset without pairs. `Untouched` keeps two set commands off the same preset.

**PresetStore** is the promise: a set adds all of its pairs or none, and one that is killed
spoils the preset in a way the next set notices.

Operators whose comment begins with "Mutant" are faulty variants of the definition
that follows them. Nothing uses them; they document which mistake in the code each
property would detect (`PROJECT.json`, "mutants").

## 3. The runs

| Run | What is asked | Result |
|---|---|---|
| `retention` | the pure engine on all inputs of the bounds, a new backup whose clock was set back among them, and the parsing of policies on all short texts: what is of the documented form is read as meant, with an hour of 3600 seconds, and but two forms more are accepted | hold |
| `serial` | one process at a time, killed anywhere, every configuration of a source: the destination never falls behind the state file, what it records stays on the source, the file itself forgets nothing, and nothing leaks on the source once a prune completes | hold |
| `per_destination` | two processes on different targets, of which one destination's removals may fail: every backup stored on the other restorable at every step, what a prune would keep restorable on both, prune decisions current | hold |
| `transfer` | every route, whatever fails: atomic send, success means stored, the command ends unless a proxied data call failed | hold |
| `restore` | restores and fetches over each other's leftovers: success means the right content, no impostor next to it, whole chains fetched | hold |
| `receive` | every destination, reader and set of options: what is read to its end is whole, with two exceptions, nothing fails without a reason, the reader ends unless the remote side failed | hold |
| `options` | presets set, removed, killed and read meanwhile: the presets and the evaluated options are what the user meant, and evaluation ends unless presets nest in themselves | hold |
| `reuse` | snapshots sent to two destinations, commands killed anywhere: no backup its own base, names unique, listed backups whole unless a reused btrfs snapshot's send broke off, recorded snapshots not lost | hold |
| the other four | one documented expectation each | [violated](#5-where-code-and-documentation-disagree) |

**Bounds, and why they are enough.**

* `retention`: instants 1, 10, 11, 20 and intervals 1 and 10 make differences below nine tenths,
  exactly nine tenths, just above, and far above the interval; counts 0 to 2 reach and miss the
  limit; two policies overlap; four backups form every chain shape up to length four, with missing
  bases. Texts of five tokens hold an interval of two, the equals sign, a count and one
  option, and every way to have one of them too few, too many or in the wrong place.
* `serial`, `per_destination`, `overlap`: `MaxTime` 4 or 5 lets three to four backups be made: a full
  one, one built on it, a forced full one, and one after that, with a prune after each.
  `FullInterval` 3 comes due within the run. In `per_destination` both destinations keep one backup, so
  that a full one and one built on it go at once when a third is made: where the removal of the second fails, it is an orphan. `AllSources` has the configurations
  that differ (an option that a kind does not read has one value); the interleaving runs take the one
  whose protocol they are about. Two destinations with different policies (one backup; two
  at a distance) are what the state file needs to go wrong; two processes are what an
  interleaving needs, and their names are interchangeable (the symmetry set of
  `per_destination`).
* `transfer`, `receive`: two or three blocks and a window of two fill every pipe and stream; header and
  trailer come on top. `transfer` has all routes. `receive` has stored files that are empty,
  cut right after the header, cut later and whole. Sources have no encryption, with and without a key that does not matter then, or a public key in a
  file or not; they are opened without encryption, with the private key in a file or not, with another private key, with the public one, with both
  options and with none, each against each.
* `restore`: a chain of three has a full backup, one that is both a base and built on one, and the
  last; an orphan stands for a chain that cannot be restored; three commands are one that dies,
  another that dies on its leftovers, and one that succeeds, in every mixture of restores and fetches.
  `SoundRoutes` takes each source from a destination of backup files and from one of its own
  kind, local and proxied, encrypted or not, except tar backups that are not encrypted and mariabackup ones without a version, on which the code reports
  a restore that was none (section 5). The listing of a proxied destination is taken to be complete.
* `options`: two presets can be set, extended to two pairs, include each other or themselves, and
  be removed; the lines have a comma, a backslash, both in a row, a backslash before a separator,
  templates with and without a value to read, one that fails, and a preset in the middle. `MaxDepth` 3 is one more
  than two presets can nest without repeating.
* `reuse`: six seconds, two destinations and a `Spacing` of two, one more than `ReuseInterval`, make
  every order of new and reused snapshots to both, three backups each.

The clock's limit, `MaxStarts`, `MaxPairs`, `MaxDepth` and `Blocks` are bounds of the models, not of
the code.

**Deadlock** is checked in the retention and cycle runs, where a process can always start
over. The other configurations say `CHECK_DEADLOCK FALSE`: a transfer and a reception end (what "it ends"
means is `EndsUnlessRemoteFails`); `restore` stops after `MaxStarts` commands, or when
everything is pruned or a proxied call hangs; `options` and `reuse` stop at their bounds, and a
prune of `reuse` would not return if a backup were its own base.

**Fairness** is only assumed where a run checks that something ends, and only of what computes or copies: no
failure, kill or new command has to happen.

* Transfer: `WF_vars(Progress)`, where `Progress` is what goroutines and commands do when they can run.
  The Go scheduler and the kernel run what is runnable, source commands produce and exit, destination
  commands read and exit. One condition for all of it suffices because every action of it increases a
  count that is bounded (blocks written, channels ended, results known): none can be repeated
  for ever while another waits.
* Receive: the same, for the destination, the proxy and the reader apart.
* Presets: `WF_vars(Evaluate(p))`, as an evaluation is a loop that waits for nobody.

The cycle, restore and reuse have no fairness: nobody guarantees that uback is run again.

**Configurations.** `Overlap` is the set of pairs of targets an administrator's
schedule lets run together: none (`Serial`) or any two different ones
(`OnePerTarget`). uback itself locks nothing, so what holds under a schedule and what
fails without it are different runs. `Unreliable` is the set of targets on which a removal may fail, a destination in
`per_destination`; the proofs cover the others.

## 4. The proofs

`tlapm` checks all of them, for every value of the constants the modules' named
assumptions allow.

**BackupCycleProofs**

* `TypeCorrect`: `Spec => []TypeOK`. `TypeOK` is inductive because it also says, in
  `PhaseOK`, which kind of target a process at a given call has and that a process
  past `CreateBackup` holds a backup; without that `Commit` and `ReadState` would not
  keep the types. One step per action.
* `AlwaysRestorable`: under `SeparateRuns` (no two commands on one destination at a time)
  `Spec => []StoreRestorable` (a property of the destinations on which removals work), for any source kind, policies, number of
  destinations and of processes working on other targets. `StoreRestorable` is not
  inductive. `StoreInv` adds: names are unique and lie in the past, a base is older than
  what is built on it (`DestOK`); what a process remembers of its destination is still
  true, its new backup's base is in the listing, and, while it removes, what it will
  keep is closed under bases (`HeldOK`); at most one process has a given destination
  (`Exclusive`). The argument for a removal: the backup removed is the most recent of
  the doomed, anything built on it is more recent, hence not doomed any more, hence kept,
  hence its base is not doomed: a contradiction. `KeptClosed` (what `GetPrunedBackups`
  leaves contains its bases) carries the retention part.
* `PrunesWhatIsThere`: under `SeparateRuns` (removals may fail and commands may be killed) `Spec => PruneIsCurrent`, from the part of `StoreInv` that says that all a
  prune has still to remove is what a prune of the destination as it is now would remove. That holds from one
  removal to the next because pruning is stable (`PruneStable`), also if it stops half way.
* `RetainedOutliveFailures`: under `SeparateRuns`, `Spec => RetainedStayRestorable`, for removals that fail in any
  pattern and kills. Since a removal takes only what a prune of the destination as it is would take, and what such a prune leaves contains
  its chains (`KeptClosed`, which asks nothing of what is there but distinct names), no chain that matters is touched.
* `RecordedIsCovered`: under `CleanRuns` (`SeparateRuns`, and removals on destinations work) and `KeepsNewest` (each destination with policies has one that counts
  incremental backups; see section 5 for what happens without) `Spec => []RecordedBackupPresent`, for commands on different
  destinations that race on the file. `CoverInv` adds to `StoreInv` that what a process is about
  to write is covered as well. A destination's newest backup is never pruned, so a destination never
  falls behind (`CoveredStays`), and what has fallen behind in the file does no harm here.
* `RecordedStays`: under `SerialRuns` (commands do not overlap) `Spec => []StateSnapshotsRetained`, with
  kills at any call and removals and listings that may fail. `RecordInv` adds: what a process is about to
  record is on the source; the map it prunes by covers the file; of what is recorded it removes nothing but archives
  whose bookmark it has seen; and only one process is not idle, so that the
  others' locals cannot be outdated.
* `StateMonotone`: under `SerialRuns`, `Spec => StateForgetsNothing`. `FileInv` adds that the snapshot a
  process is about to record is newer than all the file says, that a process which has read
  the file has read an unspoiled one, and that what it will write is at least as recent, entry by entry.
* `SourceIsPruned`: under `SerialRuns`, if removals on the source work, `Spec => []NothingLeaks`, whatever commands that died left
  behind. `LeakInv` adds: the prune's listings are what is on the source; its memory knows no more than the file; and
  what it will leave is recorded, or retained among what it will leave. The last is the stability of the policies' scan again: of the
  archives some are kept only because they are recorded, and the scan without the others retains what it retained.

**TransferProofs**, on every route

* `TransferTypeCorrect`, `SuccessIsStored`, `NeverTruncated`. The inductive invariant follows the
  data: an EOF on the source's side means the command finished (`SourceInv`), EOF on `backup`
  means the trailer was written after everything (`SealInv`, `BackupInv`), counts never
  increase along the chain (`OrderInv`), an EOF that reaches the destination comes after everything
  as long as the local side can still hear of it (`LinkInv`), a destination command that unpacks
  only exits well with a whole container (`ChildInv`), and only then is there a final name or
  a success (`FinalInv`).
* `ListedHasSnapshot`: from the same invariant, since all blocks and an EOF imply that
  finalize has succeeded.
* `TransferIsAtomic`: `Spec => AtomicSpec`, by a step lemma: each action is `Store`, `StorePart`,
  `Report` or a stutter of AtomicSend under the mapping in `Transfer`.

**ReceiveProofs**, on every case

* `ReceiveTypeCorrect`, `ReceivesWhole`, `FailsOnlyForAReason`. The invariant again follows the data:
  where the trailer is in what the destination sends (`SenderInv`), no channel ahead of the
  one before it (`OrderInv`), the call returns without an error only when all of it is through, and the
  pipe ends well only after that (`ProxyInv`), and what each phase of the reader has taken (`ReaderInv`). `ReceivesWhole` has the two exceptions of
  `ReceivedWhole`: a btrfs destination whose send failed, and a plain container cut right after its header. `FailsOnlyForAReason` is about options that
  belong together (`Belong`): no encryption on both sides, or the public and the private key of one pair.

**RestoreProofs**, all under `Noticed` (what cannot be restored is noticed: no route on which `PrepareSkipped` is possible, nor `TarExtractsNothing`)

* `RestoreTypeCorrect`, `RestoresExactly`, `LeavesNoImpostors`: for chains of any length, any
  destination and any number of commands. The lemma everything hangs on is
  `ChainLinear`: between a backup of `GetFullChain` and its base there is no other one of the
  chain. It follows from names being unique and bases older, without induction, because the chain
  is the smallest closed set (`ChainMinimal`): the backups for which the claim holds are
  themselves closed. Hence, when the loop comes to a backup, its base is the one it has
  just restored (`GoesToNext`). `RestoreInv` says for each call what the base's directory and the
  snapshot's own hold there (`InPlace`), and that what was restored before has been moved on or
  is as it was put (`Behind`). One lemma per kind of source.
* `FetchesWholeChains`: what is fetched and what is still to be fetched contain a chain at
  every step; `WalkClosed` says so of the start.

**ReuseProofs**

* `BasesAreOlder`, `NamesAreDistinct`, `ReusedFindTheirBase`: under `Spaced` (`ReuseInterval` is shorter than
  `Spacing`), sends may break off at any time. The argument: whatever is reused was taken less
  than `ReuseInterval` ago, every backup on the target dates from before the last command for it,
  at least `Spacing` ago, hence the backup being made is newer than all of them, the base among them; and
  the base was found under its own name and is not the snapshot being renamed, hence is there
  for the sending command. So a listed backup is short only if a send that had its base broke off, which nobody hears of when it is that of a reused
  btrfs snapshot (`reuse_send_fails`). Without `Spaced` none of the three holds.
* `ReuseTypeCorrect`, and `RecordedIsKept` without any such assumption: only a new snapshot is ever
  deleted by the command that made it, and what is recorded is not new (`LossInv`).

**RetentionProofs** and **MCRetentionProofs**, for every finite set of instants, all intervals and counts, every listing over
them, orphans included, and every list of policies (`RetentionAssumption`)

* `PruningKeepsChains`: what pruning leaves contains the whole chain of everything in it (`ChainClosed`, `KeptClosed`).
* `ScanIsGreedy`: the scan of a policy retains the one greedy selection there is under the code's nine tenths of the interval (section 5). The invariant of the loop is
  that after k subjects it has the greedy selection of those k; that there is only one (`GreedyUnique`)
  is shown at the newest name two selections would differ in.
* `PruningIsStable`: a second prune removes nothing. What is retained keeps its chain, so that it is still among the subjects, and
  the greedy selection of a set is the greedy selection of every subset that contains it.
* `NewestStays`: of the restorable backups that a policy considers, the most recent one stays, because no greedy selection lacks it.
* `NewBackupSurvives`: the backup command puts its new backup first, whatever its instant. In a list that is not sorted the
  selection is not greedy any more; but the first subject a policy considers is retained in any list (`FirstAmong`, `FirstRetained`), and no
  order matters to `KeptClosed`.
* `ChainIsLoop`: the loop of `GetFullChain` ends, because a base is older, says `ok` exactly if the
  backup is `Restorable`, and then has walked the smallest closed set.

* `PoliciesParsed`: for texts of any length over any tokens, `ParsesPolicies`. `ParseRetentionPolicy` splits at the colons, then the first part at the equals
  signs, and fails if it has not two halves. That a text with a reading is cut in this way is `PartsAre`, that it has only one is
  `OneReading`; a text without one is refused because the parts the code makes of it would be one (`OptionForm`, `NoReading`). What `Atoi` makes of figures
  from the left, ten times what it has plus the next, is what they are worth from the right (`AtoiDecimal`; `Carry` is the step).

`RetentionProofs` also has what takes the place of induction. The library's induction theorems take an operator, which no backend can
instantiate, but the well-foundedness of strict inclusion on finite sets is a theorem about a set. From it, every nonempty
set of naturals has a least element (`LeastElement`), hence a set that has 0 and with each number the next has all of them (`UpTo`): an
induction is an argument about the set of numbers a claim holds for. In the same way a loop over n elements has a run
(`LoopRuns`), so that the function a recursive definition chooses exists and satisfies its equation.

**PresetsProofs**

* `SplitInverts`: for every list of pairs, of any length, `SplitOptions(LineText(pairs)) = pairs`: a value may hold any tokens, commas
  and backslashes among them. A concatenation has each part at the place the parts before add up to (`FlattenAt`). In escaped text no
  comma separates, because an odd number of backslashes is before it, and none is left over at the end
  (`EscapedCommas`); the unescaping of an escaped text is the text (`UnescapeInverts`), and the first equals sign of a piece is the
  one after the key (`ParseInverts`). Hence the commas that separate are those `LineText` put between two pairs
  (`SeparatorsAre`), and each piece is one pair's (`PieceIs`).
* `PresetsTypeCorrect`: `Spec => []TypeOK`; `TypeInv` adds the domains of the locals. That what a set command writes is a list of pairs
  at all is `SplitInverts`.
* `EvaluatesDocumented`: under `PlainPresets`, `Spec => []EvaluatesAsDocumented`. `PlainPresets` says that the value of a `Preset` pair holds no template, and
  that the name of each preset comes back from its file's; without it the code renders the one and trims the other (`Render`, `TrimName`), and the two sides
  differ. TLC evaluates it on `options`. The invariant (`EvalInv`, with `Midway`) compares the nest of calls with the flat list: what is done, followed by what
  the frames of the stack have left, presets put in place, is the flat list of the whole line (`LeftPush`, `LeftPop`, `MidwayStep`), and the options so far
  have the meaning of what is done. It needs no induction over nested lists: the nest is at most `MaxDepth` deep, whatever
  that bound of the model is, and `Flat` unfolds once for each frame.
* `PresetsAreAStore`: `Spec => StoreSpec`, by a step lemma: each action is a step or a stutter of `PresetStore`. `StoreInv` adds to the types that
  set commands work on distinct presets, that the file of one that is about to write is `Torn`, and that what one
  has in memory is what its user meant, after the pairs the file still has unless they are cleared (`Intended`).

Only model-checked: the properties that say that something ends (`EndsUnlessRemoteFails` of a transfer and of a reception,
`EndsUnlessNested`). Liveness is out of the prover's reach. Every other property of a run that passes is stated by a theorem, which
names the schedule or the assumption it needs.

## 5. Where code and documentation disagree

Each is a run that expects a violation; `PROJECT.json` "findings" quotes both sides.

| Run | In short |
|---|---|
| `overlap` | backups of one source at the same time lose recorded snapshots |
| `transfer_truncated` | a proxied file destination lists a truncated backup |
| `transfer_source_hang` | a source that fails behind a proxy hangs the backup command |
| `reuse_send_fails` | a failed send of a reused btrfs snapshot is recorded as a successful backup |

`overlap` is a race of two processes over the state file. In `reuse_send_fails`,
`sources/btrfs.go:177` looks at the send's error only if the snapshot is new, and
returns what renaming it back returned.

Preconditions the models state, and what the code does outside them:

* `lib/retention.go:132` accepts nine tenths of the interval, so two retained items may be
  closer than the `interval` of `doc/reference.md:54`. `RetainsGreedily` has the factor.
* `doc/reference.md:31` says "`h` for one hour (60 seconds)"; `lib/retention.go:58` takes 3600. `ParsesPolicies` says that
  every text of the documented form is read with 3600, and that with the 60 of the reference only texts that name hours mean something else.
* `lib/retention.go:35` and `:78` take more than `doc/reference.md:27` and `:48` describe: a zero, where "a positive number" is asked for, and
  `:full` more than once. `ParsesPolicies` says that they take nothing else (of texts without signs and spaces), and read these two as one would.
* `lib/utils.go:249` returns what `age.ParseRecipients` says of the text, which refuses a private key. The comment
  at `lib/utils.go:233` and `doc/reference.md:89-91` say that the public key is derived from it: with a private key given to a source the backup command fails
  before it lists or writes anything. `RecipientsLoad` has the code's way, and `FailsForAReason` is about options as the code wants them.
* `container/container.go:149` puts the decoder on what follows the header of a plain container, and an input that ends there is an empty
  one for it, as is one that fails there with "unexpected EOF", the error of a call whose connection broke. mariabackup, btrfs and zfs
  fail on an empty stream; tar does not, and the restore succeeds without content (`TarExtractsNothing`, which `SoundRoutes`
  leaves out). `ReceivedWhole` excepts such a cut by name (`CutAfterHeader`).
* `lib/retention.go:126`: when all policies have the full option, an incremental backup is
  pruned by the very command that made and recorded it. `serial` has a policy without it for
  each destination, and `RecordedBackupPresent` needs one. `MostRecentRetained` says what stays otherwise: the
  most recent full one.
* `lib/retention.go:248`: a removal that fails is a warning, and the base of what stayed is removed all
  the same. `cmd/backup.go:84` may then take the orphan for its base, and the state file records a backup
  nobody can restore. `StoreRestorable` and `RecordedBackupPresent` need removals that work; `RetainedStayRestorable` is
  what holds without.
* `cmd/backup.go:185` puts the new backup in front of the sorted listing. If the clock was set
  back it is not the most recent, and the scan may drop one that is. `NewBackupStays` says what holds all the
  same. The clock of `BackupCycle` and `Reuse` never goes back.
* `cmd/backup.go:180` prunes by what the state file says. The bookmark of a backup that was
  stored by a process that died before it recorded it goes with the next backup to another
  destination, and the next backup to the first one is built on an older base, or full.
* `destinations/command.go:113`: a command sees its standard input end, not why. A script that
  keeps what it got, like the one in `tests/`, keeps a truncated backup; this is why command
  destinations are not among `SafeRoutes`. `SuccessMeansStored` holds on them as well: the
  backup command reports the failure.
* `sources/btrfs.go:144`, `sources/zfs.go`: if `ReuseSnapshots` is not shorter than the time between two backups to one
  destination, the snapshot that is reused may be the base that was chosen. A backup that is its own
  base makes `GetFullChain` (`lib/utils.go:205`), hence every later command on that destination, loop for ever; the
  documentation speaks of an empty backup. `Spacing > ReuseInterval` in `reuse`.
* `lib/options.go:196`: a preset that includes itself is expanded until the stack is full. `EndsUnlessNested` excepts it.
* `cmd/preset.go:55`: two set commands on one preset at the same time may lose pairs (`Untouched`).

Found while modelling, in the models, but no run of its own:

* `destinations/proxy.go:94`: a remote `SendBackup` that refuses the backup leaves the local side
  writing to a stream nobody reads. `EndsUnlessRemoteFails` excepts `handler = "failed"` for it.
* `cmd/proxy.go:65`: a remote `ReceiveBackup` that fails without closing the stream leaves
  restore and fetch reading for ever (`input = "hung"`, `fpc = "hung"` in Restore; `handler = "failed"` in Receive).
* `destinations/zfs.go:124` sends a raw stream where the restore command wants a container, so
  no restore from a zfs destination succeeds (`input = "raw"`, `HeaderFails`, `Raw`); `doc/dest-zfs.md:20`
  says only "On restoration, send a raw stream".
* `destinations/btrfs.go:138` has its condition the wrong way round: the error of a send that
  failed is replaced by that of closing the container, and a short stream arrives
  as a whole one (`input = "short"`). `RestoredExactly`, `NoImpostors` and `ReceivedWhole` except it.
* `sources/zfs.go:233`: with `UseBookmarks` a base known only as an archive is chosen, but cannot be sent
  from, and such a backup fails (`OpenStep`, `FindsBase`).
* `sources/btrfs.go:160`: a kill while a recorded snapshot is sent again leaves it under its `_tmp-` name, where
  nothing finds it; the next backup to its destination is built on an older base, or full.
* `sources/mariabackup.go:318` returns a nil error when it finds no server version, so that an
  unprepared backup is reported as restored (`PrepareSkipped`). `SoundRoutes` leaves it out.
* `cmd/restore.go:27` reads local files whether or not `--local` ("use local backup files if
  present", `cmd/restore.go:114`) is given. One that a killed fetch truncated makes
  the restore fail although the destination has the backup; it is taken for whole only where it was cut right after the header of a plain container (above).
* A killed btrfs restore leaves a `_tmp-` subvolume, and a zfs restore its dataset, on which
  every later restore of the same backup fails.
* `lib/options.go:168`: a preset a killed set has left empty is a warning and then a preset without pairs, also when
  it is the one that holds the key or the destination's options.
* `lib/options.go:172`: `TrimRight` takes a set of characters, so that the preset `json` has an empty name, and
  `persons` is found as `per` (`TrimName`).

Found while reading, outside the models: `container extract in out` and `container create type in out` shadow `out`
(`cmd/container.go:64`, `:119`) and write to a nil writer; `container extract` has no option for a container
without encryption; an interval or a count with a minus sign is accepted where "a positive number" is asked for.

## 6. What is not modelled

* `BackupCycle` and `Reuse` take the transfer as atomic. `TransferIsAtomic` justifies it on safe
  routes, except that a destination command may finish after its uback was killed and
  store a backup that the cycle's `Abort` has given up.
* The cycle's destinations store files, whose names record the base. btrfs and zfs destinations
  list every backup as full.
* Overlapping commands with `ReuseSnapshots`.
* Snapshot names are unique and increase, but for those that are reused.
* Work in progress under `_tmp-` names is not listed by anything and is not state of
  `BackupCycle`. Nothing in the code removes what a kill leaves.
* An object-storage put is atomic, as on S3, and fails when its reader does, whatever the error (that of a call lost with its
  connection is `io.ErrUnexpectedEOF`).
* A destination command that exits with 0 before its standard input ends (`ChildExits`): what it keeps is its script's affair.
* Two commands on one destination at the same time: uback locks nothing, and a prune may then take the base of a backup that is
  on its way. The schedules of the runs (`OnePerTarget`, `Serial`) exclude it, and every property of a destination holds under them.
* tar's exit code 1 counts as success (it does in the code). The command source has no
  finalize and no archives uback knows of; its scripts, that of restores included, are the user's.
* Restore: restores of different destinations into one directory, two restores in it at the
  same time, a source kind other than the one that made the backup.
* Cryptography and compression: an opened container has the content that was sealed, and a
  foreign one, or one cut elsewhere than right after the header of a plain one, is refused. `keygen` is one call of a library.
* Options: the typed getters (booleans, numbers, commands split like a shell does), the defaults of sources and destinations, and what a proxy
  passes on of the options. Texts start with no comma and keys have one token.
* Intervals and policies with signs or spaces in them.
* `list`, `container type`, `container create` and dispatch over type names: output, and calls that are steps of
  modelled ones, without state or interleaving of their own.

## 7. Plan

What is left, in this order.

1. **Cycle, further**: btrfs and zfs destinations, whose listings forget bases.
2. **Restore, further**: an abstract "the target holds exactly the backup's content or the restore
   fails", its refinement, and a mapping of Receive's outcomes onto Restore's `input`.
3. **Reuse, further**: commands that overlap, and the state file in steps.
4. **Options, further**: what a proxy passes on, typed options, two set commands on one preset.
5. **Cycle, further**: what a failed removal means for `RecordedBackupPresent`: which policies keep an orphan from becoming a base.

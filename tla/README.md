# Verification of torrent-builder

TLA+ specifications of `torrent-builder`, a C++ command-line program that
creates, checks, modifies and inspects `.torrent` files, and that updates itself
from GitHub releases. Paths below are relative to the repository.

`PROJECT.json` maps every definition to the lines it models, and lists the runs,
the mutants that show each property can fail, the findings, the hazards and the
theorems.

## The system

| component | state it keeps | operations | talks to | what makes it hard |
| --- | --- | --- | --- | --- |
| batch worker pool (`batch.cpp`) | atomic `next_job`, vector of results, threads | claim, `execute_job`, store, join, exit code | creator, naming, presets, rules, terminal | threads share counter, directory and terminal; failures of single jobs |
| terminal guard (`terminal.cpp`) | mode of the terminal, saved mode | construct, destroy, poll a key | creator | process-wide state saved per object |
| output naming (`utils.cpp`) | none; looks at the directory | `generate_auto_output_path`, `resolve_collision` | batch, CLI | looks before hashing, file is created after; names cut inside UTF-8 |
| torrent creator (`torrent_creator.cpp`) | progress, hashing threads, `cancel`, the output stream | choose files, hash, poll for `q`, write | libtorrent, guard, disk | threads, cancellation, 30 s limit, full disk |
| update and rollback (`updater.cpp`) | the binary, `.old`, `.rbtmp`, the download | `perform_update`, `perform_rollback` | GitHub, file system | three renames that must not lose the program; kills; overlapping commands |
| startup update check (`updater.cpp`) | `update_check.state` and its temporary files | `should_check_for_updates`, `record_update_check` | GitHub, clock, disk | overlapping runs clean up each other's files |
| release lookup and download (`updater.cpp`) | none | curl, JSON, checksums, magic bytes | update | parsing and I/O; damaged downloads |
| torrent modifier (`torrent_modifier.cpp`) | the torrent in memory | load, modify, save through `atomic_write` | inspector | info dictionary must stay byte-identical |
| atomic write (`utils.cpp`) | temporary file | write, fsync, rename, fall back | modifier | crash points, cross-device fallback |
| torrent checker (`torrent_checker.cpp`) | verification counts | v1 and v2 piece verification, extra files | disk | pieces that span files; names in two letter cases |
| tracker rules (`tracker_rules.cpp`) | rule list | load, match, enforce | batch, CLI | boundaries of piece sizes and overrides |
| presets and configuration (`preset.cpp`, `batch.cpp`, `torrent_builder.cpp`) | preset map | load, resolve, merge, configure | batch, CLI | four pieces of code for one precedence |
| season packs (`season_pack.cpp`) | none | detect, missing episodes | batch, CLI | gaps, specials, ranges |
| inspector (`torrent_inspector.cpp`) | none | read, magnet link | modifier | what other programs wrote |
| command line and prompts (`torrent_builder.cpp`) | none | options, questions, subcommands | all | three ways to the same configuration |
| logger, output | a stream and a level | write | all | wording |

What each of them promises:

- *batch*: every job runs once, a failing job fails alone, the exit code speaks of
  all jobs, successful jobs have their torrent, the terminal is as before;
- *update, rollback*: a usable binary is left at every moment, and the command says
  what it did;
- *update check*: at most one check a day, a failed check does not count, and no
  litter is left behind;
- *creator*: hashing ends, every piece hash is that of the piece, an old output is
  not lost for nothing, and a success is a torrent that is whole;
- *modifier*: the old torrent or the new one is on disk at every moment, an edit
  that was reported is there, and nothing else has changed;
- *configuration*: the strongest setting wins, the same way in every front end, and
  is in the torrent at the end;
- *naming, checker, rules, season packs*: functions with a definition to compare with.

## Modules

| module | models |
| --- | --- |
| `BatchJobs` | the abstract promise of a batch: jobs, start in order, one end each, exit code |
| `Batch` | worker threads, collision search, terminal guard and output files; implements `BatchJobs` |
| `BatchProofs` | inductive invariants of pool, terminal and output files, refinement theorem |
| `EditRegister` | the abstract promise of `modify`: whole edits of a content that was read |
| `Modify` | `modify` in place with `atomic_write` at the level of system calls; implements `EditRegister` |
| `ModifyProofs` | inductive invariants of torrent, temporary files and reports, refinement theorem |
| `HashFile` | `hash_large_file`: buffers, pieces, time limit, key poll |
| `HashFileProofs` | inductive invariant of buffer, hasher, stored hashes and key poll |
| `Create` | a run of `create` around that hashing; implements `HashFile` |
| `CreateProofs` | the refinement, and what success and failure mean for the output |
| `HashBlocks` | `hash_large_file_parallel` and `hash_block`: workers, `cancel`, monitor thread |
| `UpdateInstall` | `update` and `update --rollback` at the level of system calls |
| `UpdateInstallProofs` | inductive invariant of the three files around the binary |
| `UpdateCheck` | the throttle of the startup check at the level of system calls |
| `UpdateCheckProofs` | inductive invariant of state file and temporary files |
| `TrackerRules` | choice of the piece size: automatic size, target count, `enforce`, batch and CLI |
| `TrackerEdit` | what `modify` does to `announce` and `announce-list` |
| `Config` | presets, rules of trackers, and the configuration each front end makes of them |
| `Metainfo` | what `create` puts into a torrent, `modify` edits and `inspect` shows |
| `Naming` | the automatic output name |
| `Selection` | which files of a directory go into a torrent, and which are extra to `check` |
| `Checker` | which pieces `check` reports, and its verdict |
| `SeasonPack` | the search for missing episodes |
| `Tools` | calls of all these computations on everything they may be asked |
| `ToolsLemmas` | what the functions compute, for inputs of every length: inductions over sequences, folds and recursive functions |
| `ToolsProofs` | the safety properties of `Tools` for every input |
| `MCBatch`, `MCModify`, `MCCreate`, `MCUpdateInstall`, `MCUpdateCheck`, `MCTools` | model checking: constants, inputs and symmetry |

`Create` EXTENDS `HashFile`. `Config` EXTENDS `TrackerRules` and `TrackerEdit`,
`Metainfo` EXTENDS `Config`, and `Tools` EXTENDS these and the other modules of
functions. Definitions whose comment starts with FAULT are mutants: a plausible bug
next to the definition it replaces. No specification uses them.

### Batch

Shared accesses of different threads are separate steps: `fetch_add`, each
`exists()` of the collision search, `tcgetattr` and `tcsetattr`, opening
(truncating) and writing the output, storing the result. Between two shared
accesses a thread only computes, and that is one step which succeeds or throws:
`ResolveJob`/`ThrowBeforeGuard` stand for preset, merging, size, rules and
configuration, `SeasonOk` for the season warning, `Hash`/`ThrowUnderGuard` for
all of hashing, `q` included. A throw under the guard passes through `RestoreTty`
as unwinding does. A file name is a base and a collision number; a file holds the
set of jobs that wrote into it since it was truncated, `Old` for what was there
before. `Stdins` says what stdin may be: a terminal, an idle pipe or nothing. The
look for a key is a plain `read(2)`, so `Hash` goes through only when such a read
returns at once; otherwise the thread is in `wait_key` until `KeyTyped`, a step of
the user on which no fairness is assumed. The output directory has room.

### Modify

`Load`, `ApplyModifications`, the system calls of `atomic_write` and the report of
the result are steps; `mkstemp` makes the temporary names distinct, so each process
has its own. A file holds the set of edits that went into it and whether it is
complete. Short writes are continued, as the loop does. `cross_device` is a property
of the machine: with it `rename` answers EXDEV and `direct_write` truncates the
torrent. What an edit does is in `TrackerEdit` and `Metainfo`.

### HashFile, Create and HashBlocks

A byte is its position, so a hash is the sequence of positions the hasher was fed,
and `HashesRight` compares it with the positions of the piece. Beside the thread
there are a clock (`Tick`, between any two steps), a user and a disk that may
return less than there is (`ReadFails`). `idle` is a stdin that never answers.

`Create` adds the question about an existing output in the five modes (plain,
`--quiet`, `--json`, the questions of `-i`, batch), then hashes, then opens, writes
and closes the output, and reports. The output is what was there, empty, a part or
the whole of a torrent; `Close` writes the last buffer and nobody looks whether
that worked.

In `HashBlocks` only what decides about control is kept: the offset in the buffer,
`remaining`, the position in the block and in the piece. Beyond the buffer the
behaviour is undefined, and the model lets the process die or go on. The mutexes
protect single statements and are part of the step that holds them.

### UpdateInstall

The directory maps the binary's path, extended by any suffixes, to the version a
file holds and whether it is complete. A process resolves its path through
`/proc/self/exe`, so it follows the file it was started from: that is why names
like `.rbtmp.old` exist. Every rename, remove and copy is a step. With `Faults`,
any call may fail and any process may be killed after any step; without it a call
fails only where the system must refuse it (no such file). `cross_device` and
`checksums` are properties of the machine and the release: `checksums` says that
`checksums.txt` is published, can be fetched and lists the download, since the code
looks at magic bytes only where one of these fails (`Trusted`). `overlap` records
that two commands have been running at once. The module is about POSIX.

### UpdateCheck

State file and temporary files hold times. A run reads the file, compares with the
clock, asks, lists the directory, removes every temporary file it finds, creates,
writes and renames its own. `directory_iterator` is modelled by what readdir
guarantees: what was there at the start is returned unless it is gone, what
appears later may be. `faulty` allows failing calls and the unchecked write.

### Tools

`Tools` answers a call in one step. The configuration a front end has made may be
written as a torrent, a torrent may be edited again and again and inspected, and a
directory that was selected from may be checked.

- `TrackerRules`: piece sizes are in units of `Unit` bytes, all else in bytes. The
  rule that applies is an input. It sees the size of everything under the path
  (`measured`), while the creator chooses for what patterns leave (`hashed`).
  Overrides have different bounds, and a piece size asked for is an allowed one, as
  both front ends see to. The loops over the ascending table of sizes are the least
  or greatest element of a set.
- `Config`: settings are a function on the names of those that are set, so that
  merging is `Over`, what the first says and what only the second says. A file of presets or rules is read until an entry throws
  (`Loaded`); a batch goes on with what was read, the command line mostly does not.
  `execute_job`, `get_commandline_config` and `get_interactive_config` are the three
  front ends. A host name is a sequence of labels, a rule is for a suffix of it. Where
  the files are looked for is left out.
- `Metainfo`: a torrent beside its files and hashes. The info dictionary has a `form`,
  sorted or not, since an edit that rewrites it changes the info hash even where no
  key differs. What libtorrent does is modelled by its result.
- `TrackerEdit`: tiers are sequences of sequences of URLs; `listed` says whether there
  is an `announce-list` at all.
- `Naming`: a name is the sequence of its bytes, of which only the role in UTF-8 is
  kept (the first byte of a character of so many bytes, or one that continues it).
  The domain is what `extract_domain` gives and parts are as `sanitize_filename_part`
  leaves them.
- `Selection`: a path is the sequence of its names; a glob is given by the sets of
  names its parts fit and what is around them, and `GlobMatches` is what
  `glob_to_regex` makes of it. Directories are pruned on the way down, as libtorrent
  asks the filter. Symbolic links are followed into a torrent and passed over by
  `check`.
- `Checker`: a byte is 0 or 1, a hash stands for what was hashed, a file that cannot be
  opened leaves zeros in the buffer. `LayerHash` is what a v2 torrent holds for a
  piece (BEP 52), since the code only compares with it. The cache of open streams is
  left out.
- `SeasonPack`: a file is what the patterns find in its name. A range is its first and
  second number; the order of the files is that of the directory, since only the first
  `Sampled` are asked for the season.

## Runs

| run | what it shows | bounds |
| --- | --- | --- |
| `batch` | types, `ClaimedOnce`, `DistinctOutputsIntact`, `TerminalRestoredSerial`, refinement of `BatchJobs`, every job answered when reads from stdin return | 3 jobs, 2 workers, 1 base name, 1 collision: more jobs than workers, every pair of jobs may collide, the search can be exhausted |
| `batch_hang` | *violated*: a job waits for a key because another job's guard restored line mode | 2 jobs, 2 workers, a terminal |
| `batch_names` | *violated*: two automatically named jobs find the same name free, and the second truncates the first one's torrent | 2 jobs, 2 workers |
| `modify` | types, `AlwaysWhole`, `EditsKept`, refinement of `EditRegister` | 3 invocations: one may overtake another while a third fails or is killed |
| `create` | types, `HashesRight`, `QuitHeeded`, `OutputKept`, `SuccessWhole`, `Ends` | all five modes, with and without an old output; buffers of 4 bytes, pieces of 2, 4 and 8, every file up to 10 bytes: full and short last buffers and pieces in every combination; the limit is 1 tick and the clock reaches 2, so every test of the time goes both ways; 2 keys |
| `create_asked` | *violated*: the private flag, a comment or a web seed that was asked for is not in the torrent | as `tools` |
| `hash_blocks` | *violated*: a `q` does not end workers that run past their buffers | 2 threads, blocks of more than one buffer |
| `update_install` | types, `Recoverable`, `NeverDamaged`, `HonestAnswers` | 3 commands, suffix chains up to 3: update, rollback and a third in every order, each failing or killed anywhere |
| `update_rollback_race` | *violated*: two rollbacks at once delete every version | 2 commands, no faults |
| `update_check` | types, `ChecksCovered`, `Throttled`, `SkipJustified`, `TidyRecord` | 3 runs, interval 2, clock 2 to 5: an interval and the boundary between due and not due; three runs are needed for one to overtake another while a third cleans up |
| `tools` | answers have the right shape, `KeptOrWarned`, `NoLargerThanNeeded`, `EditedAsAsked`, `StrongestWins`, `FrontEndsAgree`, `LeftOutIsExtra`, `CorruptedExactly`, `GapsRejected` | see below |
| `check_v2` | *violated*: an intact v2 content whose pieces have more than one block is reported as corrupted | as `tools` |

The inputs of `tools`, chosen so that every branch of the functions is taken:

- *piece sizes*: 1, 2, 4 and 8 units of 2 bytes, contents up to 50 bytes, so that each
  size is the automatic one somewhere; caps and limits around each boundary, none, and
  too small for any size; up to 2 overrides, one of a size that is not allowed;
- *configuration*: settings in groups that compete (a size and a number of pieces, a
  creator and `no_creator`, a source and a tracker's rule), each in all ways of setting
  it in default section, preset and job; four files of rules, one of which breaks off;
  preset files that are missing or break off;
- *torrents and edits*: 3 URLs and one that is not valid, up to 2 tiers, edits in
  sequence while 4 URLs are listed, torrents that this program did not write; `Tried` says
  which options are tried on which torrent: those about trackers on one kind, the others
  on another, since trackers and other keys do not meet in the code;
- *names*: 32 bytes to a directory entry, 6 left for the number, characters of one to
  four bytes on both sides of the cut, up to 1000 numbers taken (the code's own limit);
- *directories*: subsets of 6 paths with names in both cases and files that built-in
  patterns leave out, with and without a link; no or one exclude pattern, up to two
  include patterns, built-in ones on and off;
- *contents*: up to 3 files of up to 3 bytes, or one of 5, with pads, pieces of 2 and 4
  bytes, each file intact, missing, short, long or damaged;
- *season packs*: up to 3 episode files with specials, ranges, reversed and unbelievable
  ranges.

Deadlock is checked in the `batch` runs (the only state without a step of the program
is the exited one, which stutters) and not in the others, whose processes end.
Symmetry is used over processes only, with safety properties only.

Restrictions stated in properties, and why:

- `AutoNamesFresh` is refuted with two workers, so `DistinctOutputsIntact` leaves out
  jobs that ended up with the same output; with one worker it leaves out explicit names
  only, since an automatic one must then be free.
- `TerminalRestoredSerial` speaks of one worker because overlapping guards restore
  what they found, which may be the raw mode of another guard (under *Creating* below).
- `AnsweredWhenReadsReturn` leaves out a pipe and several workers on a terminal
  because of `batch_hang`, and `Ends` an idle stdin for the same reason.
- `AlwaysWhole`, `EditsKept` and the refinement of `EditRegister` leave out
  `cross_device`, where the fallback truncates. That a saved edit stays is said of
  invocations that do not overlap, since the code takes no lock; that a failed edit is
  not there, of all.
- `Recoverable`, `HonestAnswers` and `NeverDamaged` speak of commands that do not
  overlap because of `update_rollback_race`; `NeverDamaged` also of downloads that are
  compared with a checksum, and of commands that were not killed in the middle of a copy.
- `Throttled`, `TidyRecord` and the second half of `ChecksCovered` are stated for a disk
  with room, because the unchecked write of `record_update_check` may replace a time by an
  empty file.
- `OutputKept` leaves out the questions of `-i`, which go on with the output the user
  did not want to overwrite, and a batch, which does not ask.
- `SuccessWhole` allows for a lost last buffer, which only `--json` notices because it
  reads the torrent again.
- `KeptOrWarned` speaks of a limit on the torrent's size only where the rule saw the
  content that is hashed.
- `StrongestWins` leaves out trackers beside `--default-trackers` (both are used),
  versions other than 1, 2 and 3, and sizes that are not allowed, which the front ends
  treat differently. `FrontEndsAgree` speaks of settings that every front end accepts and
  can express (`Ordinary`, `IsCommandLine`), and of the questions only where no preset
  and no rule has a part, since they know neither.
- `EditedAsAsked` speaks of torrents whose `announce` is in their list, others may lose
  it.
- `LeftOutIsExtra` speaks of a directory that is alone in its parent, which is where
  `check` looks for extra files.
- `CorruptedExactly` leaves out v2 pieces of more than one block because of `check_v2`.
- `GapsRejected` speaks of names with one episode or a range, since a third number is
  not read.

**Fairness.** `batch`, `create`, `batch_hang` and `hash_blocks` need it: weak fairness of
each thread and of the main thread. The operating system schedules every thread, no step
waits for another thread but a join, and a disk answers every read, with data or an
error; in `create` the question about the output is answered, unless stdin is idle.
Nothing is assumed of clocks, of keys pressed and of the writers of pipes. In `Batch`
hashing is one step that ends; that it does is shown by `Ends` for files up to 1 GiB and
refuted by `hash_blocks` for larger ones, so `AnsweredWhenReadsReturn` speaks of batches
without these.

## Proofs

All theorems hold for every value of the constants that satisfies the module's
named assumption (naturals where counts are meant, processes that are not the
names of the initial versions, a directory entry that has room for a name).

- **Batch.** `IInv == TypeOK /\ ClaimedOnce /\ PoolOrder`. `ClaimedOnce` says that
  a busy thread holds a drawn, unanswered job, that no two hold the same and that
  every drawn, unanswered job is held. `PoolOrder` (threads are born and joined in
  order, and leave only past the end of the list) is what makes the refinement go
  through: when the exit code is computed all threads have left, so `next_job` has
  passed the end, and a job still unanswered would have to be held by somebody.
  `TidyAlone` adds, for one worker, that a guard has saved a mode that is not raw and
  that raw mode is under a guard; it rests on `OnlyOneRuns`. `OutputInv` is about the
  files: targets move until a job has left the collision search, so it speaks of jobs
  that are settled. All authors of a file are settled on it, and a job that has
  written its file is among them unless another that is settled there has truncated it
  since; with one worker no automatic job opens a file somebody has. `Typed`,
  `JobsClaimedOnce`, `PoolKeepsPromise`, `TerminalIsRestored`, `OutputsIntact`.
- **Modify.** `IInv == TypeOK /\ AlwaysWhole /\ TempReady`. `TempReady` says what
  makes the rename safe: a temporary file that is to be renamed is complete and is
  its owner's edit of what the owner read. The refinement maps a process to the
  content it may have read, which it gives up when it ends or dies. For `EditsKept`
  the invariant adds `EditsFrom`: what a process works from holds no failed edit, and
  is still what the torrent holds when nobody else is at work. `Typed`,
  `TorrentAlwaysWhole`, `EditsAreAtomic`, `EditsAreKept`.
- **HashFile.** `IInv` adds to `HashesRight` that there is no gap: the stored
  pieces and the hasher's content are together exactly what has been taken from the
  buffers (`NoGap`), pieces are stored in order (`StoredInOrder`), and a stream that
  has ended uncut has been read to its end (`EndReached`). The arithmetic of piece
  boundaries is in lemmas of its own. For `QuitHeeded`, `Waiting` bounds the
  buffers begun since the key and the keys still queued, together, by `MaxKeys`. `Typed`, `EveryHashRight`,
  `QuitSoon`.
- **Create.** Every step of a run is a step of `HashFile` or leaves its state alone
  (`CreateHashes`), so that what is proved of the hashing holds of a run
  (`CreatedHashesRight`). `InOrder` says what is known in each phase: nothing is opened
  before the last hash, and nothing hashed before the user has agreed.
  `CreateTyped`, `KeptUntilHashed`, `SuccessIsWhole`.
- **UpdateInstall.** `Recoverable` is not inductive: it says nothing of where a
  command stands. `IInv` adds, for executions without overlap, that at most one
  command runs (`Alone`), that no two files hold the same version
  (`VersionsUnique`, so `/proc/self/exe` is unambiguous), that a download is a new
  version until it is placed (`DownloadUnused`), that a backup is complete
  (`BackupWhole`) and, for each program point, what lies under the three names
  (`Layout`). A file is then complete under one of the names at every program
  point, which makes kills harmless; and at the end of a command `Layout` says what
  its answer claims. `NeverDamaged` needs `DownloadsWhole` beside it: a download that
  was compared with its checksum is whole until it is placed. `Typed`,
  `AlwaysRecoverable`, `AnswersHonest`, `ProgramUndamaged`.
- **UpdateCheck.** The heart is `CleanedIsFresh`: once a run has read past another
  run's temporary file in the directory, that file is gone or was written after the
  run began. Hence whatever is renamed over its record is not older than its start
  (`StampCoversRecorded`), a later run reads a time that covers all that recorded
  before it (`SeenCoversBefore`), and the throttle follows from arithmetic.
  `TimesAnswered` traces every stored time to an answer. That somebody records
  although runs delete each other's files needs `WillRecord` and `AnswersCovered`: a
  run whose file is deleted was swept by one that recorded, still will or was killed.
  `TidyRecord`
  follows from `OneAtATime` and `Swept`, what a run has removed so far. `Typed`,
  `RecordedCovered`, `NoCheckLost`, `ThrottleHolds`, `OnlyAnswersThrottle`,
  `RecordTidy`.
- **Tools.** `AnswerOfCall` (an answer is the function of its call, and the input one of
  the given) is the invariant; the rest is about the functions, for every set of allowed
  sizes that has a largest one. `Min` and `Max` of sets of numbers exist because `<` is
  well-founded (`LeastExists`, `GreatestExists`); `CappedRight`, `ShrunkRight` and
  `EnforceRight` follow the steps of `enforce`, `ChoiceRight` adds who asked for a size.
  An automatic name is put together of whole characters (`AsciiWhole`, `JoinedWhole`), the
  cut goes back to the beginning of one (`TruncatedWhole`) and leaves room for every number
  (`AutomaticNameRight`). Patterns do not see the case of letters, nor do the lists of
  files that `check` compares (`GlobLowered`, `LeftOutLowered`), so that what was left
  out is not hidden by what was chosen (`ChosenAreKept`, `ExtraAreLeftOut`). `Typed`,
  `RuleKeptOrWarned`, `SizeNoLargerThanNeeded`, `LeftOutReported`.
- **Tools, over sequences.** Induction over data is out of reach as a rule with a
  predicate for a parameter, but not as a statement about a set of numbers:
  `NatSetInduction` (a set that holds 0 and the successor of each of its numbers holds
  all) follows from `LeastExists`, and each induction is about the set of the lengths its
  claim holds for. With it a recursive function and a fold are shown to exist, which is
  what makes their equations usable, and then to compute what they should (`ToolsLemmas`):
  - *season packs*: `EpisodesRight` and `SeasonRight` say which numbers a fold over the
    files collects. `GapsAreRejected`.
  - *presets*: `LoadedRight` says what is left of a file that breaks off, `SettingOver`
    that merging looks up the first before the second, and `StrongestRight` puts the two
    together for three layers; `JobStrongest` and `CommandStrongest` follow each front end
    to its configuration. `StrongestLayerWins`.
  - *front ends*: the three go through the same computations in different order, with
    their own defaults. `QuestionsAgree` needs in addition that answers are distinct URLs
    and no comment is empty (`CanBeAnswers`). `FrontEndsDoAgree`.
  - *edits*: `Remaining` and `Asked` say what removing and adding make of the URLs in any
    number of tiers. That `announce` stays in the list, and what `inspect` shows, needs
    an invariant of its own, that every torrent that is edited or written is well-formed
    (`AllShaped`): what an edit leaves is what the next one finds. `EditsAreAsAsked`.
  - *contents*: files follow each other without gaps (`FilesLaid`, `StartsGrow`), so that
    every position is in one file (`OneFileAt`). A step of the bisection loses nothing of
    what is looked for (`Bisected`) and halves its range, so it finds the first file of
    the piece (`FoundRight`); from there on nothing with content in the piece is passed
    over (`ReadRight`), the buffer holds what is on disk (`BufferRight`), and both ways of
    verifying compare all of it (`Verified1`, `Verified2`: what is left of a v2 piece
    behind its file is padding). `ReportsAreExact`, and `IntactFlatPasses`: a complete
    content passes unless a v2 piece is longer than a block, so the trees are the whole
    reason of finding 1.

  What these assume of the constants is in `ToolsAssumption`: settings have values of
  their types, names of presets differ, a v2 file begins a piece and padding is zero (as
  libtorrent lays contents out), a file that is missing has no bytes. TLC evaluates it on
  the inputs of every run.

Some definitions have the form they have because of the provers, which do not look into
the operators of the module TLC, into `SelectSeq` or a nested `@`: settings are merged by
`Over`, elements selected by `Only`, offsets added up and the bisection written as
recursive functions, and the edits of the info dictionary are `EditedInfo`.

Only model-checked: `AnsweredWhenReadsReturn` and `Ends`. They are liveness under
fairness, which is out of the provers' reach.

## Findings

1. A complete v2 content with pieces of more than 16 KiB does not pass the check
   (`check_v2`).
2. Two automatically named jobs of a batch, whose trackers and contents give the same
   name, find it free before either creates it; the second truncates the torrent of the
   first (`batch_names`).
3. A job waits for a key press because another job has put the terminal back into
   line mode, or because stdin is an idle pipe (`batch_hang`).
4. A torrent that is asked to be private is not; comment and web seeds are not written
   either (`create_asked`).
5. The threads that hash a file of more than 1 GiB run past the ends of their
   buffers and cannot be interrupted (`hash_blocks`).
6. Two rollbacks at once may delete every version of the program
   (`update_rollback_race`).

Seen while reading. Where a property has to allow for one of these, its restriction says
so above; the others have no property.

*Creating.* A batch with several workers may leave the terminal raw: a guard that is
created while another one is alive takes raw mode for the original one, and puts it back
when it is destroyed last (`terminal.cpp:27`, `49`). A read error while hashing is taken
for the end of the file (`torrent_creator.cpp:249`). The 30 s limit counts from the
start of the hashing and not from its last progress (`torrent_creator.cpp:289`, against
`terminal.hpp:11`); for a directory it is never reached, since its loop runs after
hashing is done (`torrent_creator.cpp:477-516`). `hardware_concurrency()` may be 0 and
is divided by (`torrent_creator.cpp:116`). The disk-space check throws into its own
catch and becomes a warning (`torrent_creator.cpp:350-364`). The old output is truncated
before `generate` and the entropy, which may fail (`torrent_creator.cpp:525-547`), and a
torrent whose last bytes do not fit on the disk is reported as made
(`torrent_creator.cpp:551`, also `utils.cpp:721`). An exclude pattern `*` or `?` prunes
the whole directory, whose relative path is `.`, and exclude patterns have no effect
beside include patterns.

*Front ends.* Declining to overwrite in the interactive flow keeps the path
(`torrent_builder.cpp:174-177`), so that the file is overwritten all the same, and the
prompts loop for ever at the end of input; a batch overwrites without asking. `.torrent`
is appended to `job.output` only (`batch.cpp:221-227`), while `values.output` is used.
`no_creator` and `no_date` of a weaker layer win over a creator and a date of a stronger
one. A version other than 2 and 3 is 1 on the command line and hybrid in a batch; an
invalid piece size in a preset is ignored by one and refused by the other; a batch goes
on without the rules, or with part of the presets, that could not be read. A rule is
applied to the size of all that is under the path, not of what patterns leave
(`batch.cpp:312`). Overrides are sorted from the largest `size_below` down and the first
that matches is taken, so that the largest bound wins over every smaller one
(`tracker_rules.cpp:41-44`, `190-199`, against `tracker_rules.hpp:14`). The estimate
behind `max_torrent_size` adds the piece size, so that a violation may be reported where
there is none (`tracker_rules.cpp:234`). Of three episodes in one name the third is not
seen (`season_pack.cpp:45-49`).

*Editing and showing.* `mkstemp` leaves an edited torrent readable by its owner only
(`utils.cpp:799`). Removing any tracker drops an `announce` that is not in
`announce-list` (`torrent_modifier.cpp:371-429`). The magnet link of a pure v2 torrent
has an empty `btih` and no `btmh` (`torrent_inspector.cpp:87-97`).

*Updating.* Where `checksums.txt` cannot be fetched or does not list the asset, a
download is installed on its magic bytes (`torrent_builder.cpp:1566-1597`, against
`README.md:124`). A failed update loses the backup it found (`updater.cpp:957`, against
`updater.hpp:199-201`). A clock set back suspends update checks (`updater.cpp:649`).
Development versions are recognised in two ways (`updater.cpp:565`,
`torrent_builder.cpp:1428`).

## Plan

Done: the pool with naming and terminal, hashing and the run around it, update and
rollback, the update check, modify, configuration, metadata, names, selection of files
and the other functions in `Tools`; proofs of every safety property that a passing
run checks. What could follow:

1. `BatchProcessor::parse`, as the source of the jobs that `Config` takes.
2. Hashing of directories and hybrid torrents inside libtorrent, whose callback looks for
   a key after every piece, as a second implementation of what `Create` needs.
3. A release as a list of assets, and the order of versions, to replace the outcome that
   `UpdateInstall` and `UpdateCheck` assume.

## Not modelled

- The Windows helper scripts and the macOS zip run outside the program.
- curl, JSON and YAML as formats, the parsing of versions and of `argv`, help texts:
  parsing and I/O whose results are inputs of the models.
- `sanitize_filename_part`, `extract_domain` and the regular expressions of season packs:
  character by character; the models take their results.
- `utils::escape_json`, sizes, times, progress bars, logger and verbosity: layout and
  wording.
- libtorrent is third party; what the code relies on is in definitions marked external.
- The cache of open streams in the checker, which changes no answer, and its report.

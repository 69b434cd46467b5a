---------------------------------- MODULE Tools ----------------------------------
(***************************************************************************)
(* The computations behind create, modify, inspect and check, on           *)
(* everything they may be asked: the choice of a piece size under a        *)
(* tracker's rule, what the front ends make of presets and options, the    *)
(* torrent that is written, edited again and again, and shown, the verdict *)
(* on a content, and the search for missing episodes.  A call is answered  *)
(* in one step.                                                            *)
(***************************************************************************)
EXTENDS Metainfo, Naming, Selection, Checker, SeasonPack

CONSTANTS Creates,      \* calls of create: [job, rule, measured, hashed]
          Jobs, Commands, Answers,  \* what the three front ends are given
          Torrents,     \* torrents that somebody else has made
          Edits,        \* options of modify
          Tried(_),     \* bound: the options that are tried on a torrent
          Unnamed,      \* calls of create without an output:
                        \* [content, domain, skip_prefix, taken]
          Directories,  \* calls of create for a directory:
                        \* [files, excludes, includes, builtin]
          Checks,       \* calls of check: [torrent, disk]
          Seasons,      \* calls of evaluate_season_warning: [dir, fail_on_warning]
          MaxUrls,      \* bound: no torrent is edited that lists more URLs
          MaxEpisode    \* 999: names hold at most three digits

\* Settings have values of their types, as they do when they have been read.
IsSettings(settings) ==
    /\ \A key \in {"private", "entropy", "no_creator", "no_date", "creation_date",
                   "builtin_excludes"} : Setting(settings, key, TRUE) \in BOOLEAN
    /\ \A key \in {"piece_size", "target_piece_count", "torrent_version"} :
            Setting(settings, key, 0) \in Int
    /\ \A key \in {"comment", "name", "source", "creator"} :
            Sets(settings, key) => settings[key] \in STRING
    /\ \A key \in {"trackers", "web_seeds"} : Setting(settings, key, <<>>) \in Seq(STRING)

\* A preset file names its presets, and no two alike.
IsInput(in) ==
    LET entries == in.preset_file.entries
    IN  /\ IsSettings(in.values) /\ IsSettings(in.preset_file.default)
        /\ in.preset \in STRING \cup {None}
        /\ entries \in Seq(ToSet(entries))
        /\ \A i \in DOMAIN entries :
            /\ entries[i].name \in STRING /\ IsSettings(entries[i].section)
            /\ \A j \in DOMAIN entries : entries[i].name = entries[j].name => i = j

\* Options are flags, which are given or not, and some settings have none.
IsCommandLine(values) ==
    /\ DOMAIN values \cap {"creator", "creation_date"} = {}
    /\ \A key \in {"private", "entropy", "no_creator", "no_date"} : Setting(values, key, TRUE)
    /\ ~Setting(values, "builtin_excludes", FALSE)

\* What is hashed is part of what is there.  Names are made of whole characters, and
\* a path has at least one name.  Patterns find numbers of at most three digits.
ASSUME ToolsAssumption ==
    /\ \A c \in Creates : /\ c \in [job : Requests, rule : Rules, measured : Nat, hashed : Nat]
                          /\ c.hashed <= c.measured
    /\ \A c \in Unnamed : Whole(c.content) /\ Whole(c.domain)
    /\ \A c \in Directories :
        /\ \A f \in c.files : f.path \in Seq(DOMAIN Lower) \ {<<>>}
        /\ c.excludes \subseteq Globs /\ c.includes \subseteq Globs
    /\ Torrents \subseteq TorrentMetainfo
    /\ \A e \in Edits : \A key \in {"tracker", "add_tracker", "remove_tracker"} :
            Setting(e, key, <<>>) \in Seq(STRING)
    /\ DefaultTrackers \in Seq(STRING)
    /\ \A in \in Jobs \cup Commands \cup Answers : IsInput(in)
    /\ \A in \in Jobs : ~Sets(in.values, "default_trackers")
    /\ \A in \in Commands : IsCommandLine(in.values)
    /\ BlockSize \in Nat
    /\ \A c \in Checks : IsContent(c.torrent) /\ IsDisk(c.torrent, c.disk)
    /\ MaxSpan \in Nat /\ MaxEpisode \in Nat
    /\ \A c \in Seasons :
        c.dir.files \in Seq([video : BOOLEAN, season : Nat, listed : Seq(0..MaxEpisode),
                            alt : {<<>>} \cup Nat \X (0..MaxEpisode)])

VARIABLES call, answer
vars == <<call, answer>>

Pending == [pending |-> TRUE]

Init ==
    /\ answer = Pending
    /\ \/ \E c \in Creates : call = [command |-> "create", input |-> c]
       \/ \E c \in Jobs : call = [command |-> "job", input |-> c]
       \/ \E c \in Commands : call = [command |-> "command", input |-> c]
       \/ \E c \in Answers : call = [command |-> "questions", input |-> c]
       \/ \E t \in Torrents : \E e \in Edits \cap Tried(t) :
            call = [command |-> "modify", input |-> [torrent |-> t, options |-> e]]
       \/ \E c \in Unnamed : call = [command |-> "name", input |-> c]
       \/ \E c \in Directories : call = [command |-> "select", input |-> c]
       \/ \E c \in Checks : call = [command |-> "check", input |-> c]
       \/ \E c \in Seasons : call = [command |-> "season", input |-> c]

Called(command) == answer = Pending /\ call.command = command

Create ==
    /\ Called("create")
    /\ LET in == call.input
       IN  answer' = ChoosePieceSize(in.job, in.rule, in.measured, in.hashed)
    /\ UNCHANGED call

ExecuteJob ==
    /\ Called("job")
    /\ answer' = execute_job(call.input)
    /\ UNCHANGED call

Command ==
    /\ Called("command")
    /\ answer' = get_commandline_config(call.input)
    /\ UNCHANGED call

Questions ==
    /\ Called("questions")
    /\ answer' = get_interactive_config(call.input)
    /\ UNCHANGED call

FrontEnds == {"job", "command", "questions"}

\* The configuration is carried out.
Write ==
    /\ answer # Pending /\ call.command \in FrontEnds /\ ~answer.refused
    /\ call' = [command |-> "write", input |-> answer]
    /\ answer' = create_torrent(answer)

Modify ==
    /\ Called("modify")
    /\ answer' = handle_modify_command(call.input.torrent, call.input.options)
    /\ UNCHANGED call

ThereIsTorrent == answer # Pending /\ call.command \in {"write", "modify"}

\* The torrent is edited, once more if it has been.
EditTorrent ==
    /\ ThereIsTorrent
    /\ Len(FlattenSeq(answer.trackers.tiers)) <= MaxUrls
    /\ \E e \in Edits \cap Tried(answer) :
        call' = [command |-> "modify", input |-> [torrent |-> answer, options |-> e]]
    /\ answer' = Pending

Inspect ==
    /\ ThereIsTorrent
    /\ call' = [command |-> "inspect", input |-> answer]
    /\ answer' = inspect(answer)

\* A torrent without an output gets an automatic one.
Name ==
    /\ Called("name")
    /\ answer' = generate_auto_output_path(call.input)
    /\ UNCHANGED call

\* The files of a directory are put into a torrent.
Select ==
    /\ Called("select")
    /\ answer' = add_files_to_storage(call.input)
    /\ UNCHANGED call

\* The directory, alone in its parent, is compared with the torrent made of it.
Compare ==
    /\ answer # Pending /\ call.command = "select" /\ ~answer.refused
    /\ call' = [command |-> "compare",
                input |-> [content |-> call.input, torrent_files |-> answer.files]]
    /\ answer' = [extra |-> find_extra_files(call.input.files, answer.files)]

Check ==
    /\ Called("check")
    /\ answer' = check(call.input.torrent, call.input.disk)
    /\ UNCHANGED call

Season ==
    /\ Called("season")
    /\ answer' = evaluate_season_warning(call.input.dir, call.input.fail_on_warning)
    /\ UNCHANGED call

Next ==
    \/ Create \/ ExecuteJob \/ Command \/ Questions \/ Write
    \/ Modify \/ EditTorrent \/ Inspect \/ Name \/ Select \/ Compare \/ Check \/ Season

Spec == Init /\ [][Next]_vars
--------------------------------------------------------------------------------
Answered(command) == answer # Pending /\ call.command = command

\* Answers are what the callers expect: an allowed piece size, a list of trackers
\* where and only where there are tiers, a name that a directory can hold, in whole
\* characters, pieces and files of the torrent.
TypeOK ==
    /\ Answered("create") => answer.kb \in Allowed /\ answer.warned \in BOOLEAN
    /\ Answered("modify") =>
            \/ answer.trackers.listed = (answer.trackers.tiers # <<>>)
            \/ answer.trackers = call.input.torrent.trackers
    /\ Answered("name") /\ ~answer.refused =>
            Whole(FileName(answer.name)) /\ Len(FileName(answer.name)) <= MaxName
    /\ Answered("check") => /\ answer.corrupted \subseteq PieceIndices(call.input.torrent)
                            /\ answer.missing \subseteq DOMAIN call.input.torrent.files

\* The rule of a tracker is kept or the user is warned: a cap on the piece size in
\* every case, a limit on the size of the torrent when the rule saw the content
\* that is hashed (batch.cpp:309-350).
KeptOrWarned ==
    Answered("create") /\ ~answer.warned =>
        LET in == call.input
        IN  /\ ~OverCap(in.rule, answer.kb)
            /\ in.measured = in.hashed => ~TooLarge(in.rule, in.hashed, answer.kb)

\* A size chosen for the user exceeds the cap only where every size does, and,
\* without overrides, is above the automatic one only as far as the limit on the
\* size of the torrent makes it necessary (tracker_rules.cpp:210-270).
NoLargerThanNeeded ==
    Answered("create") /\ Current(call.input.job, call.input.measured) = Unset =>
        LET in   == call.input
            auto == auto_piece_size(in.measured)
        IN  /\ OverCap(in.rule, answer.kb) => \A a \in Allowed : OverCap(in.rule, a)
            /\ in.rule.overrides = {} =>
                 \A a \in Allowed : auto <= a /\ a < answer.kb =>
                    TooLarge(in.rule, in.measured, a)

Shown(t) == inspect(t).trackers

\* A client that looks at announce only finds a tracker of the list.
Consistent(t) == t.listed /\ t.announce # None => t.announce \in ToSet(FlattenSeq(t.tiers))

InfoOptions == {"private", "public", "source", "name", "entropy"}

\* After an edit inspect shows the trackers it showed before without the removed and
\* with the added, announce and announce-list still agree, and the info hash is the
\* old one unless an option is about the info dictionary, however many edits follow
\* each other; a torrent whose announce was not in its list may lose it
\* (torrent_modifier.cpp:20-198).
EditedAsAsked ==
    LET options == call.input.options
        before  == call.input.torrent
        Urls(key) == ToSet(Setting(options, key, <<>>))
    IN  /\ Answered("modify") /\ DOMAIN options \cap InfoOptions = {} =>
            answer.info = before.info
        /\ Answered("modify") /\ ~RefusedOptions(options) /\ ~Sets(options, "dry_run")
           /\ Consistent(before.trackers) =>
            /\ Consistent(answer.trackers)
            /\ Shown(answer) =
                IF Sets(options, "tracker") THEN Urls("tracker")
                ELSE (Shown(before) \ Urls("remove_tracker")) \cup Urls("add_tracker")

\* Settings by strength, as the preset's and the default section are in the file.
Layers(in) ==
    LET entries == in.preset_file.entries
        Named   == {i \in DOMAIN entries : entries[i].name = in.preset}
    IN  <<in.values,
          IF Named = {} THEN NoSettings ELSE entries[CHOOSE i \in Named : TRUE].section,
          IF in.preset = None THEN NoSettings ELSE in.preset_file.default>>

Speaking(in, key) == {i \in DOMAIN Layers(in) : Sets(Layers(in)[i], key)}

\* What the strongest layer that sets a key says of it.
Strongest(in, key, default) ==
    IF Speaking(in, key) = {} THEN default ELSE Layers(in)[Min(Speaking(in, key))][key]

VersionOf == <<"v1", "v2", "hybrid">>

HasStrongest(in, config) ==
    LET Says(key, default) == Strongest(in, key, default)
        kb == Says("piece_size", Unset)
        version == Says("torrent_version", 3)
    IN  /\ config.comment = Says("comment", None)
        /\ config.name = Says("name", None)
        /\ config.web_seeds = Says("web_seeds", <<>>)
        /\ config.is_private = Says("private", FALSE)
        /\ config.entropy = Says("entropy", FALSE)
        /\ config.builtin = Says("builtin_excludes", TRUE)
        /\ config.excludes = Says("exclude_patterns", <<>>)
        /\ config.includes = Says("include_patterns", <<>>)
        /\ ~Sets(in.values, "default_trackers") => config.trackers = Says("trackers", <<>>)
        /\ Says("source", "") # "" => config.source = Says("source", "")
        /\ version \in DOMAIN VersionOf => config.version = VersionOf[version]
        /\ kb \in Allowed => config.piece_size.kb = kb
        /\ config.creator =
            IF Says("no_creator", FALSE) THEN None ELSE Says("creator", TheCreator)
        /\ config.include_creation_date =
            (~Says("no_date", FALSE) /\ Says("creation_date", TRUE))

\* A job or a command that is not refused has every setting from the strongest layer
\* that sets it, also if other layers set others that compete with it: a size beside
\* a number of pieces, a creator beside no_creator (which wins, from any layer that
\* is not overruled itself), a source beside that of a tracker's rule
\* (preset.cpp:72-97, torrent_builder.cpp:499-818).
StrongestWins ==
    (Answered("job") \/ Answered("command")) /\ ~answer.refused =>
        HasStrongest(call.input, answer)

\* Settings that no front end finds fault with or reads in a way of its own.
IsOrdinary(settings) ==
    /\ Setting(settings, "torrent_version", 3) \in 1..3
    /\ Setting(settings, "piece_size", Min(Allowed)) \in Allowed
    /\ Setting(settings, "target_piece_count", 1) > 0
    /\ Setting(settings, "source", None) # ""
    /\ Setting(settings, "name", None) \notin {"", " "}

\* Nor with the files, as far as they are asked for.
Ordinary(in) ==
    /\ \A i \in DOMAIN Layers(in) : IsOrdinary(Layers(in)[i])
    /\ in.preset # None => LoadedPresets(in.preset_file).complete
    /\ \/ LoadedRules(in.rules_file).complete
       \/ ~in.rules_file.found /\ ~in.rules_named

NoRuleFor(in, trackers) ==
    LET rule == RuleFor(LoadedRules(in.rules_file), trackers)
    IN  rule.source = None /\ ~Constrained(rule.limits)

\* An answer cannot be an empty comment, nor a tracker that is there already.
CanBeAnswers(values) ==
    /\ Setting(values, "comment", None) # ""
    /\ IsInjective(Setting(values, "trackers", <<>>))

\* What a batch refuses or makes of a job, the command line refuses or makes of the
\* same settings given as options, with the same preset and rules; and so do the
\* questions of settings that can be answers, where no preset is asked for and no rule
\* applies (batch.cpp:251-374, torrent_builder.cpp:111-927).
FrontEndsAgree ==
    LET in == call.input
    IN  Answered("job") /\ Ordinary(in) /\ IsCommandLine(in.values) =>
        /\ get_commandline_config(in) = answer
        /\ /\ in.preset = None /\ CanBeAnswers(in.values)
           /\ ~answer.refused /\ NoRuleFor(in, answer.trackers)
           => get_interactive_config(in) = answer

\* What the user has asked for is in the torrent that is written
\* (torrent_creator.hpp:60-72).
AskedIsWritten ==
    Answered("write") =>
        /\ call.input.is_private => answer.info.private = 1
        /\ answer.comment = call.input.comment
        /\ answer.web_seeds = call.input.web_seeds

\* By the patterns: no include pattern fits, where there are any; or an exclude pattern
\* does, the file itself or a directory above it.
LeftOut(content, path) ==
    LET excludes == apply_builtin_excludes(content.excludes, content.builtin)
        Fits(glob) == GlobMatches(glob, path, FALSE)
        Above(glob) == \E dir \in DirectoriesOf(path), slash \in BOOLEAN :
                            GlobMatches(glob, dir, slash)
    IN  IF content.includes # {} THEN \A glob \in content.includes : ~Fits(glob)
        ELSE \E glob \in excludes : Fits(glob) \/ Above(glob)

\* When a directory is checked against the torrent that was made of it, the files that
\* its patterns have left out are reported as extra, and no others: an include pattern
\* reaches into directories that are excluded, and it does no harm that check compares
\* names without regard to case on a disk that tells them apart, since patterns do so
\* too (torrent_creator.cpp:42-106, torrent_checker.cpp:400-455).
LeftOutIsExtra ==
    Answered("compare") =>
        answer.extra = {f.path : f \in {g \in call.input.content.files :
                                    LeftOut(call.input.content, g.path) /\ ~g.linked}}

\* What the disk holds at a position of the content, 0 where it holds nothing.
OnDisk(torrent, disk, p) ==
    LET i == CHOOSE i \in DOMAIN torrent.files :
                p \in FileStart(torrent, i)..(FileEnd(torrent, i) - 1)
        q == p - FileStart(torrent, i) + 1
    IN  IF torrent.files[i].pad \/ q > Len(disk[i].bytes) THEN 0 ELSE disk[i].bytes[q]

FlatHashes(torrent) == torrent.v2 => torrent.piece_length <= BlockSize

\* A piece is reported exactly if one of its bytes differs on disk, whichever files
\* it spans and whichever of them are missing, short, empty or padding; said of v2
\* for pieces of one block (torrent_checker.cpp:178-259).
CorruptedExactly ==
    LET in == call.input
    IN  Answered("check") /\ FlatHashes(in.torrent) =>
            answer.corrupted = {k \in PieceIndices(in.torrent) :
                \E p \in PieceStart(in.torrent, k)..(PieceEnd(in.torrent, k) - 1) :
                    OnDisk(in.torrent, in.disk, p) # in.torrent.content[p]}

\* A content that is complete passes the check (torrent_checker.cpp:270-322).
IntactPasses ==
    LET in == call.input
    IN  /\ Answered("check")
        /\ \A i \in DOMAIN in.torrent.files :
            in.torrent.files[i].pad \/
                /\ in.disk[i].exists
                /\ Len(in.disk[i].bytes) = in.torrent.files[i].size
        /\ \A p \in DOMAIN in.torrent.content :
            OnDisk(in.torrent, in.disk, p) = in.torrent.content[p]
        => answer.passed

\* Names that list one episode, or the first and the last of a range.
WellNamed(file) ==
    \/ Len(file.listed) < 2
    \/ /\ Len(file.listed) = 2 /\ file.listed[1] <= file.listed[2]
       /\ file.listed[2] - file.listed[1] < MaxSpan

\* A special may have its number in the season as a 1x01 beside its own.
InFile(file, n) ==
    /\ file.video
    /\ IF file.listed # <<>> /\ ~(file.listed = <<0>> /\ file.alt # <<>>)
       THEN file.listed[1] <= n /\ n <= Last(file.listed)
       ELSE file.alt # <<>> /\ n = file.alt[2]

\* A job that asks for the check is rejected exactly if the directory shows a season
\* and has an episode below its highest one in no video, whatever ranges, specials,
\* other files and doubles there are; these episodes are named, and no others
\* (season_pack.cpp:160-352).
GapsRejected ==
    Answered("season") /\ (\A f \in ToSet(call.input.dir.files) : WellNamed(f)) =>
        LET There(n) == \E f \in ToSet(call.input.dir.files) : InFile(f, n)
            numbers  == 1..MaxEpisode
            Gaps     == {n \in numbers : ~There(n) /\ \E high \in numbers :
                                                        n < high /\ There(high)}
        IN  /\ answer.rejected <=>
                /\ call.input.fail_on_warning /\ answer.season # 0
                /\ \E low, high \in numbers : low < high /\ There(low) /\ There(high)
                /\ Gaps # {}
            /\ answer.rejected => answer.missing = Gaps
=================================================================================

--------------------------------- MODULE Config ---------------------------------
(***************************************************************************)
(* What a torrent is to be made of: the settings of a preset file, the     *)
(* rules of the trackers, and how a job of a batch, the options of the     *)
(* create command and the answers to its questions become a TorrentConfig. *)
(*                                                                         *)
(* Settings are a function on the names of those that are set.  A tracker  *)
(* or a web seed is a URL; the host name of a URL is a sequence of labels;  *)
(* None is an optional that is empty.                                      *)
(***************************************************************************)
EXTENDS TrackerRules, TrackerEdit

CONSTANTS DomainOf,         \* the host name of every URL that is_valid_url accepts
          DefaultTrackers   \* the URLs of --default-trackers

Sets(settings, key) == key \in DOMAIN settings

Setting(settings, key, default) == IF Sets(settings, key) THEN settings[key] ELSE default

Valid(urls) == ToSet(urls) \subseteq DOMAIN DomainOf

NoSettings == <<>>

\* What the first says, and what only the second says.
Over(first, second) ==
    [key \in DOMAIN first \cup DOMAIN second |->
        IF key \in DOMAIN first THEN first[key] ELSE second[key]]

\* FAULT: what is set already stays.
MergedUnder(base, overlay) == Over(base, overlay)

\* What the overlay sets replaces what the base sets.
merge_config_values(base, overlay) == Over(overlay, base)

\* A section with an invalid URL throws.
parse_yaml_config(section) ==
    Valid(Setting(section, "trackers", <<>>)) /\ Valid(Setting(section, "web_seeds", <<>>))

\* A file that is missing, too large or of another version is not found.  Of one
\* that is, the default is read first, then the entries, until one of them throws:
\* reads says which of them read, the default as number 0.
Loaded(file, empty, reads) ==
    LET begun == file.found /\ reads[0]
        read  == {k \in 0..Len(file.entries) : \A i \in 1..k : reads[i]}
    IN  [complete |-> begun /\ Len(file.entries) \in read,
         default  |-> IF begun THEN file.default ELSE empty,
         entries  |-> IF begun THEN SubSeq(file.entries, 1, Max(read)) ELSE <<>>]

\* The entries of a preset file are [name, section].
LoadedPresets(file) ==
    Loaded(file, NoSettings,
           [i \in 0..Len(file.entries) |->
                parse_yaml_config(IF i = 0 THEN file.default ELSE file.entries[i].section)])

has_preset(presets, name) == \E i \in DOMAIN presets.entries : presets.entries[i].name = name

\* Names are different from each other.
resolve(presets, name) ==
    LET i == CHOOSE i \in DOMAIN presets.entries : presets.entries[i].name = name
    IN  merge_config_values(presets.default, presets.entries[i].section)
--------------------------------------------------------------------------------
(* Rules of trackers are [domain, source, limits, reads]: the domain is empty  *)
(* where there is none, the limits are those of TrackerRules, and a rule that  *)
(* does not read throws.                                                       *)

NoRule == [domain |-> <<>>, source |-> None, reads |-> TRUE,
           limits |-> [cap |-> Unset, max_size |-> Unset, overrides |-> {}]]

NoRules == [complete |-> FALSE, default |-> NoRule, entries |-> <<>>]

LoadedRules(file) ==
    Loaded(file, NoRule,
           [i \in 0..Len(file.entries) |->
                IF i = 0 THEN file.default.reads ELSE file.entries[i].reads])

\* A rule is for its domain and the domains below it.
Matches(rule, url) == rule.domain # <<>> /\ IsSuffix(rule.domain, DomainOf[url])

\* The first tracker a rule is for decides, and of its rules the first.
find_matching_rule(rules, urls) ==
    LET For(i)   == {j \in DOMAIN rules.entries : Matches(rules.entries[j], urls[i])}
        matching == {i \in DOMAIN urls : For(i) # {}}
    IN  IF matching = {} THEN rules.default
        ELSE rules.entries[Min(For(Min(matching)))]

RuleFor(rules, trackers) ==
    IF trackers = <<>> THEN NoRule ELSE find_matching_rule(rules, trackers)
--------------------------------------------------------------------------------
(* A front end is given [preset_file, preset, rules_file, rules_named, values,   *)
(* measured, hashed]: preset is None where no preset is asked for, and values    *)
(* are the settings of the job, of the command line or of the answers.  It       *)
(* refuses, or makes a configuration.                                            *)

Refused == [refused |-> TRUE]

\* What a rule says comes last: it gives a source where none is set, and sees to the
\* piece size.  The job is None for what it does not ask for.
Configured(asked, request, rule, in) ==
    Over([refused    |-> FALSE,
          source     |-> IF asked.source = None THEN rule.source ELSE asked.source,
          piece_size |-> ChoosePieceSize(request, rule.limits, in.measured, in.hashed)],
         asked)

\* Without a number the version is hybrid, and with any that is not 1 or 2.
resolve_version(v) == CASE v = 1 -> "v1" [] v = 2 -> "v2" [] OTHER -> "hybrid"

TheCreator == "Torrent Builder"

\* What the front ends look up alike.
Plain(settings, preset) ==
    LET LookUp(key, default) == Setting(settings, key, Setting(preset, key, default)) IN
    [web_seeds  |-> LookUp("web_seeds", <<>>),
     comment    |-> LookUp("comment", None),
     name       |-> LookUp("name", None),
     is_private |-> LookUp("private", FALSE),
     entropy    |-> LookUp("entropy", FALSE),
     builtin    |-> LookUp("builtin_excludes", TRUE),
     excludes   |-> LookUp("exclude_patterns", <<>>),
     includes   |-> LookUp("include_patterns", <<>>)]

\* The settings of a job are merged into its preset's.
ResolvedJob(presets, in) ==
    merge_config_values(
        IF in.preset = None THEN NoSettings ELSE resolve(presets, in.preset), in.values)

\* FAULT: a preset's number of pieces counts, although the job has set a piece size.
TargetKept(settings) ==
    LET kb == Setting(settings, "piece_size", 0)
    IN  [refused    |-> kb > 0 /\ kb \notin Allowed,
         piece_size |-> IF kb > 0 /\ ~Sets(settings, "target_piece_count") THEN kb ELSE Unset,
         target     |-> Setting(settings, "target_piece_count", Unset)]

\* A size of 0 or less asks for the automatic one, but may not be set beside a
\* number of pieces.
JobRequest(settings) ==
    LET kb     == Setting(settings, "piece_size", 0)
        target == Setting(settings, "target_piece_count", Unset)
    IN  [refused    |-> \/ Sets(settings, "piece_size") /\ Sets(settings, "target_piece_count")
                        \/ target # Unset /\ target <= 0
                        \/ kb > 0 /\ kb \notin Allowed,
         piece_size |-> IF kb > 0 THEN kb ELSE Unset,
         target     |-> target]

build_torrent_config(settings) ==
    Over(Plain(settings, NoSettings),
         [source   |-> Setting(settings, "source", None),
          trackers |-> Setting(settings, "trackers", <<>>),
          version  |-> resolve_version(Setting(settings, "torrent_version", 3)),
          creator  |-> IF Setting(settings, "no_creator", FALSE) THEN None
                       ELSE Setting(settings, "creator", TheCreator),
          include_creation_date |->
            IF Setting(settings, "no_date", FALSE) THEN FALSE
            ELSE Setting(settings, "creation_date", TRUE)])

\* A job goes on with what could be read of the presets and of the rules.
execute_job(in) ==
    LET presets  == LoadedPresets(in.preset_file)
        settings == ResolvedJob(presets, in)
        request  == JobRequest(settings)
        asked    == build_torrent_config(settings)
        rule     == RuleFor(LoadedRules(in.rules_file), asked.trackers)
    IN  IF \/ ~parse_yaml_config(in.values)
           \/ in.preset # None /\ ~has_preset(presets, in.preset)
           \/ request.refused
        THEN Refused ELSE Configured(asked, request, rule, in)
--------------------------------------------------------------------------------
\* Trackers of the command line come after the default ones, if these are asked for;
\* a preset's are used where there are neither.
ChosenTrackers(flags, preset) ==
    IF ~Sets(flags, "trackers") /\ ~Sets(flags, "default_trackers") /\ Sets(preset, "trackers")
    THEN preset["trackers"]
    ELSE (IF Sets(flags, "default_trackers") THEN DefaultTrackers ELSE <<>>)
            \o Setting(flags, "trackers", <<>>)

\* A custom tracker may be given twice, but not one of the default ones.
RefusedTrackers(flags) ==
    LET custom == Setting(flags, "trackers", <<>>)
    IN  \/ ~Valid(custom)
        \/ Sets(flags, "default_trackers") /\ ToSet(custom) \cap ToSet(DefaultTrackers) # {}

\* 1, and any other number, is version 1.
CommandVersion(v) == CASE v = 2 -> "v2" [] v = 3 -> "hybrid" [] OTHER -> "v1"

\* What is wrong on the command line is refused; what is wrong in a preset is as if
\* it were not there.
CommandRequest(flags, preset) ==
    LET kb     == Setting(preset, "piece_size", 0)
        target == Setting(preset, "target_piece_count", 0)
        size   == CASE Sets(flags, "piece_size") -> flags["piece_size"]
                    [] ~Sets(flags, "piece_size") /\ kb \in Allowed -> kb
                    [] OTHER -> Unset
        number == CASE Sets(flags, "target_piece_count") -> flags["target_piece_count"]
                    [] ~Sets(flags, "target_piece_count") /\ target > 0 -> target
                    [] OTHER -> Unset
    IN  [refused    |-> \/ size # Unset /\ size \notin Allowed
                        \/ number # Unset /\ number <= 0
                        \/ size # Unset /\ number # Unset,
         piece_size |-> size,
         target     |-> number]

\* An empty --source sets none, whatever the preset says.
CommandSource(flags, preset) ==
    IF Sets(flags, "source") /\ flags["source"] = "" THEN None
    ELSE Setting(flags, "source", Setting(preset, "source", None))

\* Creator and date can be left out by an option, and set by a preset only.
CommandCreator(flags, preset) ==
    IF Sets(flags, "no_creator") \/ Setting(preset, "no_creator", FALSE) THEN None
    ELSE Setting(preset, "creator", TheCreator)

CommandDate(flags, preset) ==
    IF Sets(flags, "no_date") \/ Setting(preset, "no_date", FALSE) THEN FALSE
    ELSE Setting(preset, "creation_date", TRUE)

\* A preset must be there, and its file be whole; so must rules that are named, and
\* of others all are used or none.
get_commandline_config(in) ==
    LET flags   == in.values
        presets == LoadedPresets(in.preset_file)
        preset  == IF in.preset = None THEN NoSettings ELSE resolve(presets, in.preset)
        request == CommandRequest(flags, preset)
        loaded  == LoadedRules(in.rules_file)
        rules   == IF loaded.complete THEN loaded ELSE NoRules
        asked   ==
            Over(Plain(flags, preset),
                 [source   |-> CommandSource(flags, preset),
                  trackers |-> ChosenTrackers(flags, preset),
                  version  |-> CommandVersion(Setting(flags, "torrent_version",
                                                Setting(preset, "torrent_version", 3))),
                  creator  |-> CommandCreator(flags, preset),
                  include_creation_date |-> CommandDate(flags, preset)])
    IN  IF \/ in.preset # None /\ ~(presets.complete /\ has_preset(presets, in.preset))
           \/ RefusedTrackers(flags)
           \/ ~Valid(Setting(flags, "web_seeds", <<>>))
           \/ Setting(flags, "name", None) \in {"", " "}
           \/ request.refused
           \/ in.rules_named /\ ~loaded.complete
        THEN Refused
        ELSE Configured(asked, request, RuleFor(rules, asked.trackers), in)
--------------------------------------------------------------------------------
\* A tracker that is not valid or is there already is asked for again.
AnsweredTrackers(answers) ==
    WithNew(IF Sets(answers, "default_trackers") THEN DefaultTrackers ELSE <<>>,
            Only(Setting(answers, "trackers", <<>>), DOMAIN DomainOf))

\* An answer that is not accepted is asked for again, and then left blank; the
\* number of pieces is asked for only where no size is given.
AnsweredRequest(answers) ==
    LET kb     == Setting(answers, "piece_size", 0)
        target == Setting(answers, "target_piece_count", 0)
    IN  [piece_size |-> IF kb \in Allowed THEN kb ELSE Unset,
         target     |-> IF kb \notin Allowed /\ target > 0 THEN target ELSE Unset]

prompt_optional_string(answers, key) ==
    IF Setting(answers, key, "") = "" THEN None ELSE answers[key]

\* Neither presets nor the rules of the trackers have a part in it.
get_interactive_config(in) ==
    LET answers == in.values
        given   == Over(
            [web_seeds |-> Only(Setting(answers, "web_seeds", <<>>), DOMAIN DomainOf),
             comment   |-> prompt_optional_string(answers, "comment"),
             name      |-> IF Setting(answers, "name", "") = " " THEN None
                           ELSE prompt_optional_string(answers, "name")],
            answers)
        asked   ==
            Over(Plain(given, NoSettings),
                 [source   |-> prompt_optional_string(answers, "source"),
                  trackers |-> AnsweredTrackers(answers),
                  version  |-> resolve_version(Setting(answers, "torrent_version", 3)),
                  creator  |-> IF Sets(answers, "no_creator") THEN None ELSE TheCreator,
                  include_creation_date |-> ~Sets(answers, "no_date")])
    IN  Configured(asked, AnsweredRequest(answers), NoRule, in)
=================================================================================

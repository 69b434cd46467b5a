--------------------------------- MODULE MCTools ---------------------------------
EXTENDS Tools

CONSTANTS a, b, c, bad

Overrides == [below : {7, 20}, kb : {1, 3, 4}]
MCRules ==
    [cap : {Unset, 1, 2, 5, 8}, max_size : {Unset, 19, 26, 34},
     overrides : {{}} \cup {{o} : o \in Overrides}
                      \cup {{o, p} : o \in {x \in Overrides : x.below = 7},
                                     p \in {x \in Overrides : x.below = 20}}]
Asked == [piece_size : {1, 4}, target : {Unset}] \cup [piece_size : {Unset}, target : {Unset, 1, 3}]
Sizes == {<<n, n>> : n \in (0..9) \cup (14..24) \cup {31, 32, 33, 40, 50}}
            \cup {<<n + 2, n>> : n \in {5, 11, 23}}
MCCreates ==
    {[job |-> j, rule |-> r, measured |-> s[1], hashed |-> s[2]] :
        j \in Asked, r \in MCRules, s \in Sizes}

\* c is a default tracker, a and b are on hosts of which one is below the other.
MCDomainOf == (a :> <<"x", "org">>) @@ (b :> <<"t", "x", "org">>) @@ (c :> <<"net">>)

MCDefaultTrackers == <<c>>

URLs == {a, b, c}
Trackerless(announce) == [announce |-> announce, listed |-> FALSE, tiers |-> <<>>]
TrackersHad ==
    {Trackerless(x) : x \in URLs \cup {None}}
    \cup {[announce |-> x, listed |-> TRUE, tiers |-> t] :
            x \in URLs \cup {None},
            t \in {<<>>, <<<<a>>>>, <<<<a>>, <<b>>>>, <<<<a, b>>>>, <<<<a>>, <<b, a>>>>}}
Torrent(trackers, form) ==
    [trackers |-> trackers, web_seeds |-> <<>>, comment |-> None, creator |-> None,
     date |-> FALSE,
     info |-> [name |-> None, private |-> None, source |-> None, entropy |-> None,
               version |-> "v1", piece_length |-> 1, form |-> form]]
MCTorrents ==
    {Torrent(t, "sorted") : t \in TrackersHad} \cup {Torrent(Trackerless(a), "unsorted")}
UrlLists == {<<a>>, <<c>>, <<b, c>>, <<a, b>>}
TrackerEdits ==
    [tracker : UrlLists] \cup [add_tracker : UrlLists] \cup [remove_tracker : UrlLists]
    \cup [add_tracker : UrlLists, remove_tracker : UrlLists]
    \cup [tracker : {<<a>>}, remove_tracker : {<<b>>}] \cup [add_tracker : {<<bad>>}]
OtherEdits ==
    {[comment |-> "x"], [comment |-> "", source |-> "x"], [private |-> 1],
     [public |-> 1, name |-> "x"], [private |-> 1, public |-> 1], [entropy |-> 1],
     [source |-> ""], [remove_tracker |-> <<a>>, entropy |-> 1], [dry_run |-> 1, name |-> "x"]}
UnsortedEdits == OtherEdits \cup {[comment |-> "x", add_tracker |-> <<b>>]}
MCEdits == TrackerEdits \cup UnsortedEdits
\* The trackers or the other keys of a torrent are edited.
MCTried(t) ==
    CASE t.info.form = "unsorted" -> UnsortedEdits
      [] t.info.form = "sorted" /\ t.creator = None /\ t.info.entropy = None -> TrackerEdits
      [] OTHER -> OtherEdits

Optional(key, values) == {NoSettings} \cup {key :> v : v \in values}
Both(one, other) == {x @@ y : x \in one, y \in other}
\* Settings that have to do with each other.
Groups ==
    {Both(Optional("piece_size", {0, 2, 3}), Optional("target_piece_count", {0, 1})),
     Both(Optional("creator", {"x"}), Optional("no_creator", BOOLEAN)),
     Both(Optional("creation_date", BOOLEAN), Optional("no_date", BOOLEAN)),
     Optional("torrent_version", 0..3),
     Both(Optional("trackers", {<<>>, <<b, a>>, <<b, b>>, <<bad>>}), Optional("source", {"", "x"})),
     Optional("private", BOOLEAN), Optional("entropy", BOOLEAN),
     Both(Optional("comment", {"x", ""}), Optional("web_seeds", {<<a>>})),
     Optional("name", {"x", " "}),
     Both(Optional("builtin_excludes", BOOLEAN),
          Optional("exclude_patterns", {<<"x">>, <<"y">>})),
     Optional("include_patterns", {<<"x">>, <<"y">>})}
Absent == [found |-> FALSE, default |-> NoSettings, entries |-> <<>>]
PresetFile(default, section, other) ==
    [found |-> TRUE, default |-> default,
     entries |-> <<[name |-> "o", section |-> other], [name |-> "p", section |-> section]>>]
Input(values, preset, file, rules, named) ==
    [preset_file |-> file, preset |-> preset, rules_file |-> rules, rules_named |-> named,
     values |-> values, measured |-> 9, hashed |-> 9]
NoRulesFile == [found |-> FALSE, default |-> NoRule, entries |-> <<>>]
Rule(domain, source, cap) ==
    [domain |-> domain, source |-> source, reads |-> TRUE,
     limits |-> [cap |-> cap, max_size |-> Unset, overrides |-> {}]]
Broken == [NoRule EXCEPT !.reads = FALSE]
RulesFiles ==
    {NoRulesFile,
     [found |-> TRUE, default |-> Rule(<<>>, "d", 2), entries |-> <<>>],
     [found |-> TRUE, default |-> NoRule,
      entries |-> <<Rule(<<"x", "org">>, "r", 4), Rule(<<"t", "x", "org">>, "s", Unset)>>],
     [found |-> TRUE, default |-> NoRule,
      entries |-> <<Rule(<<"t", "x", "org">>, "s", 2), Broken, Rule(<<"x", "org">>, "r", 2)>>]}
\* Every way of setting a group in three layers; the rules where there may be trackers.
Layerings ==
    UNION {{Input(v, "p", PresetFile(d, p, NoSettings), NoRulesFile, FALSE) :
                v \in g, p \in g, d \in g} : g \in Groups}
Ruled ==
    {Input(v, "p", PresetFile(NoSettings, p, NoSettings), r, named) :
        v \in Both(Optional("trackers", {<<a>>, <<b, a>>, <<c, b>>}),
                   Optional("piece_size", {4})),
        p \in Both(Optional("trackers", {<<c>>}), Optional("source", {"x"})),
        r \in RulesFiles, named \in BOOLEAN}
\* No preset, one that is not known, and files that are missing or break off.
Files ==
    {Input(v, preset, file, r, FALSE) :
        v \in Both(Optional("trackers", {<<b>>, <<c>>}), Optional("comment", {"x"})),
        preset \in {None, "p", "q"}, r \in RulesFiles,
        file \in {Absent} \cup {PresetFile(d, p, o) :
                    d \in {("comment" :> "y"), ("web_seeds" :> <<bad>>)},
                    p \in {("name" :> "y")}, o \in {NoSettings, ("trackers" :> <<bad>>)}}}
Alone == {Input(v, None, Absent, NoRulesFile, FALSE) : v \in UNION Groups}
MCJobs == Layerings \cup Ruled \cup Files \cup Alone
WithDefaults == {[in EXCEPT !.values = ("default_trackers" :> TRUE) @@ @] : in \in Ruled}
MCCommands == {in \in MCJobs \cup WithDefaults : IsCommandLine(in.values)}
MCAnswers == {in \in MCCommands : in.preset_file = Absent /\ in.preset = None}

Char(bytes) == [i \in 1..bytes |-> IF i = 1 THEN bytes ELSE 0]
\* One-byte characters, then some of several bytes about where a name is cut, and more.
MCContentNames ==
    {<<>>, Ascii(3)}
    \cup {Ascii(k) \o Char(x) \o Char(y) \o Ascii(n) :
            k \in 8..20, x, y \in 1..4, n \in {0, 9}}
MCUnnamed ==
    [content : MCContentNames, domain : {<<>>, Ascii(3), Ascii(30)}, skip_prefix : {FALSE},
     taken : {{}}]
    \cup {[content |-> long, domain |-> <<>>, skip_prefix |-> TRUE,
           taken |-> {Candidate(truncate_filename(long), n) : n \in 0..top}] :
            long \in {Ascii(16), Ascii(17) \o Char(2), Ascii(30)}, top \in {0, 9, 99, 999, 1000}}

MCLower == [n \in {"a", "A", "d", "D", "e", "j", "."} |->
                CASE n = "A" -> "a" [] n = "D" -> "d" [] OTHER -> n]
Glob(deep, parts, below, slash) ==
    [deep |-> deep, parts |-> parts, below |-> below, slash |-> slash]
Exactly(name) == <<{name}>>
Star == <<{"a", "d", "e", "j", "."}>>
\* Like those for @eaDir, what is in it, and Thumbs.db.
MCBuiltin == {Glob(TRUE, Exactly("e"), FALSE, FALSE), Glob(TRUE, Exactly("e"), TRUE, FALSE),
              Glob(TRUE, Exactly("j"), FALSE, FALSE)}
SomeGlobs ==
    {Glob(FALSE, Star, FALSE, FALSE), Glob(TRUE, Exactly("a"), FALSE, FALSE),
     Glob(FALSE, Exactly("a"), FALSE, FALSE), Glob(FALSE, <<>>, TRUE, FALSE),
     Glob(FALSE, Exactly("d"), FALSE, TRUE), Glob(FALSE, Exactly("d") \o Star, FALSE, FALSE)}
    \cup {Glob(deep, Exactly("d"), below, FALSE) : deep \in BOOLEAN, below \in BOOLEAN}
Paths == {<<"a">>, <<"A">>, <<"d", "a">>, <<"D", "a">>, <<"d", "e", "A">>, <<"d", "j">>}
Linked(path) == [path |-> path, linked |-> TRUE]
Plainly(path) == [path |-> path, linked |-> FALSE]
MCDirectories ==
    [files : {{Plainly(p) : p \in paths} \cup links :
                paths \in SUBSET Paths, links \in {{}, {Linked(<<"d", "d">>)}}},
     excludes : {{}} \cup {{g} : g \in SomeGlobs},
     includes : {{}} \cup {{g, h} : g, h \in {x \in SomeGlobs : ~x.below \/ x.deep}},
     builtin : BOOLEAN]

File(size) == [size |-> size, pad |-> FALSE]
Pad(size)  == [size |-> size, pad |-> TRUE]
Unpadded == {<<File(k)>> : k \in 0..5}
            \cup {<<File(k), File(l)>> : k, l \in 0..3}
            \cup {<<File(k), File(l), File(m)>> : k, l \in 0..3, m \in 0..2}
Aligned(length) ==
    {<<File(k)>> : k \in 1..5}
    \cup {<<File(k), Pad(length - (k % length)), File(l)>> :
            k \in {x \in 1..5 : (x % length) # 0}, l \in 1..3}
    \cup {<<File(length), File(l)>> : l \in 0..3}
Metas ==
    {[files |-> f, piece_length |-> 2, v1 |-> TRUE, v2 |-> FALSE] : f \in Unpadded}
    \cup UNION {{[files |-> f, piece_length |-> n, v1 |-> one, v2 |-> TRUE] :
                    f \in Aligned(n), one \in BOOLEAN} : n \in {2, 4}}
InPad(m, p) == \E i \in DOMAIN m.files :
    m.files[i].pad /\ p \in FileStart(m, i)..(FileEnd(m, i) - 1)
Contents(m) ==
    {[p \in 0..(TotalSize(m) - 1) |->
        IF InPad(m, p) \/ (zeros /\ (p % 2) = 1) THEN 0 ELSE 1] : zeros \in BOOLEAN}
Full(m) == {[content |-> x] @@ m : x \in Contents(m)}
Bytes(t, i) == [q \in 1..t.files[i].size |-> t.content[FileStart(t, i) + q - 1]]
Missing == [exists |-> FALSE, bytes |-> <<>>]
\* A file as it should be, longer, shorter, with another last byte, or missing.
Damaged(t, i, kind) ==
    LET bytes == Bytes(t, i)
        Copy(s) == [exists |-> TRUE, bytes |-> s]
    IN  CASE kind = "none" -> Copy(bytes)
          [] kind = "longer" -> Copy(Append(bytes, 1))
          [] kind = "shorter" /\ bytes # <<>> -> Copy(Front(bytes))
          [] kind = "other" /\ bytes # <<>> -> Copy([bytes EXCEPT ![Len(bytes)] = 1 - @])
          [] OTHER -> Missing
Disks(t) ==
    {[i \in DOMAIN t.files |-> IF t.files[i].pad THEN Missing ELSE Damaged(t, i, kind[i])] :
        kind \in [DOMAIN t.files -> {"none", "longer", "shorter", "other", "missing"}]}
MCChecks ==
    {[torrent |-> td[1], disk |-> td[2]] :
        td \in UNION {{<<t, d>> : d \in Disks(t)} : t \in UNION {Full(m) : m \in Metas}}}

Named(season, listed) == [video |-> TRUE, season |-> season, listed |-> listed, alt |-> <<>>]
Names ==
    {Named(1, <<k>>) : k \in {0, 1, 2, 3}} \cup {Named(2, <<4>>), Named(0, <<>>)}
    \cup {Named(1, l) : l \in {<<1, 2>>, <<0, 1>>, <<2, 4>>, <<3, 1>>, <<1, 9>>, <<1, 2, 3>>}}
    \cup {[Named(s, IF s = 0 THEN <<>> ELSE <<0>>) EXCEPT !.alt = <<1, k>>] :
            s \in {0, 1}, k \in {1, 3}}
    \cup {[Named(1, <<2>>) EXCEPT !.video = FALSE]}
Dirs ==
    [directory : {TRUE}, named : {0, 1}, path : {0, 1}, files : SeqOf(Names, 3)]
    \cup [directory : {FALSE}, named : {1}, path : {1}, files : {<<>>}]
MCSeasons == [dir : Dirs, fail_on_warning : BOOLEAN]
=================================================================================

-------------------------------- MODULE Metainfo --------------------------------
(***************************************************************************)
(* What is in a torrent beside its files and hashes: what `create` puts    *)
(* there, `modify` edits and `inspect` shows.                              *)
(*                                                                         *)
(* A torrent is [trackers, web_seeds, comment, creator, date, info]; its   *)
(* info dictionary, which the info hash is computed from, has a `form`:    *)
(* "sorted" as bencode writes it, or as somebody else did.  None is a key  *)
(* that is absent.                                                         *)
(***************************************************************************)
EXTENDS Config

OrNone(values) == values \cup {None}

Infos ==
    [name : OrNone(STRING), private : OrNone({0, 1}), source : OrNone(STRING),
     entropy : OrNone({0, 1}), version : {"v1", "v2", "hybrid"}, piece_length : Nat,
     form : {"sorted", "unsorted"}]

TorrentMetainfo ==
    [trackers : TorrentTrackers, web_seeds : Seq(STRING), comment : OrNone(STRING),
     creator : OrNone(STRING), date : BOOLEAN, info : Infos]

\* libtorrent's create_torrent::add_tracker passes over a URL it has, and generate
\* writes a list only of several, each a tier of its own.
GeneratedTrackers(urls) ==
    LET once == WithNew(<<>>, urls)
    IN  IF Len(once) > 1 THEN rebuild_trackers(once)
        ELSE [announce |-> HeadOr(once, None), listed |-> FALSE, tiers |-> <<>>]

\* An entropy is drawn that is not the old one.
Drawn(old) == IF old = 0 THEN 1 ELSE 0

\* The hashed files become a torrent.  Comment, web seeds and private flag of the
\* configuration are not looked at; a version 2 or hybrid torrent is no different
\* here.  The default name is that of the path.
create_torrent(config) ==
    [trackers  |-> GeneratedTrackers(config.trackers),
     web_seeds |-> <<>>,
     comment   |-> None,
     creator   |-> config.creator,
     date      |-> config.include_creation_date,
     info      |-> [name         |-> config.name,
                    private      |-> None,
                    source       |-> config.source,
                    entropy      |-> IF config.entropy THEN Drawn(None) ELSE None,
                    version      |-> config.version,
                    piece_length |-> config.piece_size.kb,
                    form         |-> "sorted"]]

\* The bytes of the info dictionary are taken from the old file when no option is
\* about it, and written anew otherwise.
InfoBytes(info, options) ==
    IF DOMAIN options \cap {"private", "public", "source", "name", "entropy"} = {}
    THEN info ELSE [info EXCEPT !.form = "sorted"]

\* Options that are "" remove the key, except for the name.
Edited(options, key, old) ==
    CASE ~Sets(options, key) -> old
      [] Sets(options, key) /\ options[key] = "" -> None
      [] OTHER -> options[key]

EditedInfo(info, options) ==
    InfoBytes([info EXCEPT
                !.private = CASE Sets(options, "private") -> 1
                              [] Sets(options, "public") -> 0
                              [] OTHER -> @,
                !.source  = Edited(options, "source", @),
                !.name    = Setting(options, "name", @),
                !.entropy = IF Sets(options, "entropy") THEN Drawn(@) ELSE @], options)

apply_modifications(t, options) ==
    [t EXCEPT
        !.trackers =
            IF Sets(options, "tracker") THEN rebuild_trackers(options["tracker"])
            ELSE add_trackers(remove_trackers(@, Setting(options, "remove_tracker", <<>>)),
                              Setting(options, "add_tracker", <<>>)),
        !.comment = Edited(options, "comment", @),
        !.info = EditedInfo(@, options)]

\* Options that exclude each other, or name what is not a URL, and none at all.
RefusedOptions(options) ==
    \/ Sets(options, "tracker") /\ (Sets(options, "add_tracker") \/ Sets(options, "remove_tracker"))
    \/ Sets(options, "private") /\ Sets(options, "public")
    \/ DOMAIN options = {}
    \/ \E key \in {"tracker", "add_tracker", "remove_tracker"} :
            ~Valid(Setting(options, key, <<>>))

\* The torrent as the command leaves it; --dry-run shows what would be done.
handle_modify_command(t, options) ==
    IF RefusedOptions(options) \/ Sets(options, "dry_run") THEN t
    ELSE apply_modifications(t, options)
--------------------------------------------------------------------------------
\* libtorrent's torrent_info: the trackers of the list, or else the announced one.
TrackersOf(t) ==
    IF t.trackers.tiers # <<>> THEN ToSet(FlattenSeq(t.trackers.tiers))
    ELSE {t.trackers.announce} \ {None}

\* A flag that is 0 is one that is not there.  The link has the hash of version 1,
\* and that of version 2 only beside it.
inspect(t) ==
    [trackers   |-> TrackersOf(t),
     web_seeds  |-> t.web_seeds,
     is_private |-> t.info.private = 1,
     comment    |-> t.comment,
     created_by |-> t.creator,
     dated      |-> t.date,
     source     |-> t.info.source,
     entropy    |-> t.info.entropy,
     name       |-> t.info.name,
     magnet     |-> [v1 |-> t.info.version # "v2", v2 |-> t.info.version = "hybrid",
                     trackers |-> TrackersOf(t), web_seeds |-> t.web_seeds]]
=================================================================================

------------------------------- MODULE TrackerEdit -------------------------------
(***************************************************************************)
(* What `modify` does to the trackers of a torrent: TorrentModifier's      *)
(* rebuild_trackers, add_trackers and remove_trackers on the keys announce *)
(* and announce-list, the latter a list of tiers of URLs.                  *)
(*                                                                         *)
(* The trackers of a torrent are [announce, listed, tiers]: announce is    *)
(* None and listed FALSE where the key is absent.  Tiers are lists and     *)
(* URLs are strings; what else a torrent may hold there is passed over.    *)
(***************************************************************************)
EXTENDS SequencesExt

CONSTANT None

ASSUME TrackerAssumption == None \notin STRING

\* There are tiers in a list only.
TorrentTrackers ==
    {t \in [announce : STRING \cup {None}, listed : BOOLEAN, tiers : Seq(Seq(STRING))] :
        ~t.listed => t.tiers = <<>>}

\* The elements of a sequence that are in S, in their order.
Only(seq, S) == FoldLeft(LAMBDA kept, x : IF x \in S THEN Append(kept, x) ELSE kept, <<>>, seq)

\* URLs are appended that are not there already.
WithNew(urls, more) ==
    FoldLeft(LAMBDA all, url : IF Contains(all, url) THEN all ELSE Append(all, url), urls, more)

Trackers(announce, tiers) ==
    [announce |-> announce, listed |-> tiers # <<>>, tiers |-> tiers]

HeadOr(s, default) == IF s = <<>> THEN default ELSE Head(s)

\* --trackers: every URL has a tier of its own, the first is announced.
rebuild_trackers(urls) ==
    Trackers(HeadOr(urls, None), [i \in DOMAIN urls |-> <<urls[i]>>])

\* FAULT: a list is made of the new URLs alone.
AddTrackersAlone(t, urls) ==
    IF urls = <<>> THEN t
    ELSE Trackers(IF t.announce = None THEN Head(urls) ELSE t.announce,
                  IF t.tiers = <<>> THEN <<urls>>
                  ELSE [t.tiers EXCEPT ![Len(t.tiers)] = @ \o urls])

\* --add-trackers: the URLs go into the last tier; a torrent without a list gets
\* one that begins with its announce.
add_trackers(t, urls) ==
    LET first == IF t.listed \/ t.announce = None THEN <<>> ELSE <<t.announce>>
    IN  IF urls = <<>> THEN t
        ELSE Trackers(IF t.announce = None THEN Head(urls) ELSE t.announce,
                      IF t.tiers = <<>> THEN <<first \o urls>>
                      ELSE [t.tiers EXCEPT ![Len(t.tiers)] = @ \o urls])

\* Tiers that are left empty go, too.
remove_url_from_tiers(tiers, urls) ==
    LET kept == [i \in DOMAIN tiers |-> Only(tiers[i], ToSet(tiers[i]) \ ToSet(urls))]
    IN  Only(kept, ToSet(kept) \ {<<>>})

\* --remove-trackers: the first URL that remains is announced.
remove_trackers(t, urls) ==
    LET tiers == remove_url_from_tiers(t.tiers, urls)
        alone == IF t.announce \in ToSet(urls) THEN None ELSE t.announce
    IN  IF urls = <<>> THEN t
        ELSE Trackers(IF t.listed THEN HeadOr(FlattenSeq(tiers), None) ELSE alone, tiers)
=================================================================================

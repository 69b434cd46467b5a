-------------------------------- MODULE Selection --------------------------------
(***************************************************************************)
(* Which files of a directory go into a torrent, given the patterns of     *)
(* --exclude and --include and the built-in ones, and which files `check`  *)
(* finds beside those of the torrent.                                      *)
(*                                                                         *)
(* A path is the sequence of its names below the directory.  A glob is     *)
(* [deep, parts, below, slash]: a part is the set of names it fits, deep   *)
(* stands for a leading double-star-slash, below for a trailing            *)
(* slash-double-star, slash for a trailing slash.  Names are compared      *)
(* without regard to case, so that parts hold lower-case names.            *)
(***************************************************************************)
EXTENDS Integers, SequencesExt, FiniteSetsExt

CONSTANTS Lower,                    \* the lower-case form of every name
          builtin_exclude_patterns  \* a set of globs

Globs == [deep : BOOLEAN, parts : Seq(SUBSET {Lower[name] : name \in DOMAIN Lower}),
          below : BOOLEAN, slash : BOOLEAN]

ASSUME SelectionAssumption == builtin_exclude_patterns \subseteq Globs

Lowered(path) == [i \in DOMAIN path |-> Lower[path[i]]]

\* What std::regex_match says of a path, written with a slash at its end or without.
\* The star of slash-double-star may stand for nothing.
GlobMatches(glob, path, slash) ==
    LET n == Len(glob.parts)
        At(k) == /\ k + n <= Len(path)
                 /\ \A i \in 1..n : Lower[path[k + i]] \in glob.parts[i]
    IN  \E k \in IF glob.deep THEN 0..Len(path) ELSE {0} :
            /\ At(k)
            /\ IF glob.below THEN k + n < Len(path) \/ slash
               ELSE k + n = Len(path) /\ slash = glob.slash

AnyMatches(globs, path, slash) == \E glob \in globs : GlobMatches(glob, path, slash)

\* Include patterns decide alone where there are any.
should_include_file(path, excludes, includes) ==
    IF includes # {} THEN AnyMatches(includes, path, FALSE)
    ELSE ~AnyMatches(excludes, path, FALSE)

apply_builtin_excludes(user_excludes, enabled) ==
    IF enabled THEN builtin_exclude_patterns \cup user_excludes ELSE user_excludes

\* FAULT: a directory is left out by its name, whatever is to be included.
PrunedAlways(path, excludes, includes) ==
    AnyMatches(excludes, path, TRUE) \/ AnyMatches(excludes, path, FALSE)

\* A directory is left out with all that is in it, unless there are include patterns:
\* then each file is looked at.
Pruned(path, excludes, includes) ==
    /\ includes = {}
    /\ AnyMatches(excludes, path, TRUE) \/ AnyMatches(excludes, path, FALSE)

\* The directories that lead to a file; the torrent's own is called "." there.
DirectoriesOf(path) ==
    {<<".">>} \cup {SubSeq(path, 1, k) : k \in 1..(Len(path) - 1)}

\* Files are [path, linked]: linked says that one of its names is a symbolic link,
\* which libtorrent follows.  A torrent without files is an error.
add_files_to_storage(in) ==
    LET excludes == apply_builtin_excludes(in.excludes, in.builtin)
        files    == {f.path : f \in in.files}
        kept     ==
            {path \in files :
                /\ \A dir \in DirectoriesOf(path) : ~Pruned(dir, excludes, in.includes)
                /\ should_include_file(path, excludes, in.includes)}
        chosen   == IF excludes = {} /\ in.includes = {} THEN files ELSE kept
    IN  IF chosen = {} THEN [refused |-> TRUE] ELSE [refused |-> FALSE, files |-> chosen]

\* Of what is on disk: files that are not in the torrent, in no letter case.  Links
\* are not looked at, nor are directories entered through them.
find_extra_files(disk, torrent_files) ==
    LET torrent_paths == {Lowered(path) : path \in torrent_files}
    IN  {f.path : f \in {g \in disk : ~g.linked /\ Lowered(g.path) \notin torrent_paths}}
=================================================================================

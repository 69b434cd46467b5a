------------------------------- MODULE SeasonPack -------------------------------
(***************************************************************************)
(* season_pack: does a directory hold a season of a series, and is one of  *)
(* its episodes missing?                                                   *)
(*                                                                         *)
(* A file is what the patterns find in its name: [video, season, listed,   *)
(* alt], the number behind the first S (0: none), the numbers of the first *)
(* SxxExx.., and the pair of a 1x01 (<<>>: none).  A directory is          *)
(* [directory, named, path, files]: the season found in its name, that in  *)
(* its whole path, and its files in the order of the directory.            *)
(***************************************************************************)
EXTENDS Integers, FiniteSets, SequencesExt

CONSTANTS Sampled,      \* files whose names are asked for the season: 5
          MaxSpan       \* 100: a longer range of episodes is not believed

\* A 1x01 counts only where SxxExx gives no episode.
extract_season_episode(file) ==
    LET episode == IF file.listed = <<>> THEN 0 ELSE Head(file.listed)
    IN  IF episode = 0 /\ file.alt # <<>> THEN file.alt ELSE <<file.season, episode>>

\* The pattern ends after two numbers, and so does the range.
extract_multi_episodes(file) ==
    IF Len(file.listed) > 1 /\ file.listed[2] - file.listed[1] < MaxSpan
    THEN file.listed[1]..file.listed[2] ELSE {}

\* FAULT: episode 0, a special, is counted with the others.
EpisodesAndSpecials(file) ==
    IF ~file.video THEN {}
    ELSE IF extract_multi_episodes(file) # {} THEN extract_multi_episodes(file)
    ELSE {extract_season_episode(file)[2]}

EpisodesOf(file) ==
    IF ~file.video THEN {}
    ELSE (IF extract_multi_episodes(file) # {} THEN extract_multi_episodes(file)
          ELSE {extract_season_episode(file)[2]}) \ {0}

\* From the directory's name, its path, or the first names that show a season.
DetectedSeason(input) ==
    LET n == IF Len(input.files) < Sampled THEN Len(input.files) ELSE Sampled
        found == SelectSeq([i \in 1..n |-> extract_season_episode(input.files[i])[1]],
                           LAMBDA s : s > 0)
    IN  CASE input.named # 0 -> input.named
          [] input.named = 0 /\ input.path # 0 -> input.path
          [] input.named = 0 /\ input.path = 0 /\ Len(input.files) > 1 /\ found # <<>> ->
                Head(found)
          [] OTHER -> 0

NoPack == [season |-> 0, is_season_pack |-> FALSE, is_suspicious |-> FALSE, missing |-> {}]

analyze(input) ==
    LET season   == DetectedSeason(input)
        episodes == UNION {EpisodesOf(f) : f \in ToSet(input.files)}
        pack     == Cardinality(episodes) > 1
    IN  IF ~input.directory \/ input.files = <<>> \/ season = 0 THEN NoPack
        ELSE [season |-> season,
              is_season_pack |-> pack,
              is_suspicious |-> pack /\ Cardinality(episodes) < Max(episodes),
              missing |-> IF pack THEN 1..Max(episodes) \ episodes ELSE {}]

\* Rejected is a job that asks for the check and whose pack is suspicious.
evaluate_season_warning(input, fail_on_warning) ==
    LET info == analyze(input)
    IN  [season |-> info.season, missing |-> info.missing,
         rejected |-> /\ fail_on_warning /\ input.directory
                      /\ info.is_season_pack /\ info.is_suspicious]
=================================================================================

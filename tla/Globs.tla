--------------------------------- MODULE Globs ---------------------------------
(***************************************************************************)
(* The globs a rule names its files by (domain/path_match.py): what they   *)
(* say, and the table that reads one against a path.                       *)
(***************************************************************************)
EXTENDS Integers, Sequences, SequencesExt

Star  == "*"
Mark  == "?"
Deep  == <<"*", "*">>     \* the segment that crosses directories

(* What a segment of a glob says, without the walk: how much of the word   *)
(* its first i characters may stand for.                                   *)
Says(glob, word) ==
  LET ends[i \in 0..Len(glob)] ==
        IF i = 0 THEN {0}
        ELSE IF glob[i] = Star THEN {j \in 0..Len(word) : \E k \in ends[i - 1] : k <= j}
        ELSE {j \in 1..Len(word) : j - 1 \in ends[i - 1] /\ glob[i] \in {Mark, word[j]}}
  IN  Len(word) \in ends[Len(glob)]

(* ... and what a whole glob says of a path: ** stands for any segments.   *)
Covers(glob, path) ==
  LET says[i \in 0..Len(glob), j \in 0..Len(path)] ==
        IF i = 0 THEN j = 0
        ELSE IF glob[i] = Deep THEN \E k \in 0..j : says[i - 1, k]
        ELSE j > 0 /\ Says(glob[i], path[j]) /\ says[i - 1, j - 1]
  IN  says[Len(glob), Len(path)]

-----------------------------------------------------------------------------
(* _matches_segments: one row for each segment of the glob.                *)
RowAfter(row, segment, path) ==
  IF segment = Deep THEN {j \in 0..Len(path) : \E i \in row : i <= j}
  ELSE {j \in 1..Len(path) : j - 1 \in row /\ Says(segment, path[j])}

Matches(path, glob) ==
  /\ path # <<>>
  /\ Len(path) \in FoldLeft(LAMBDA row, segment : RowAfter(row, segment, path), {0}, glob)

=============================================================================

------------------------------- MODULE PathMatch -------------------------------
(***************************************************************************)
(* How one segment of a path is matched (domain/path_match.py,             *)
(* _segment_matches): a walk with two pointers that resumes behind the     *)
(* last * it met.                                                          *)
(***************************************************************************)
EXTENDS Globs

CONSTANTS
  Letters,      \* the characters of a segment; a * may be one of a name
  MaxText,      \* BOUND: characters in a segment
  MaxPattern    \* BOUND: characters in a segment of a glob

VARIABLES text, pattern, t, p, star, resume, answer, steps

vars == <<text, pattern, t, p, star, resume, answer, steps>>

-----------------------------------------------------------------------------
(* _segment_matches *)
Init ==
  /\ text \in SeqOf(Letters, MaxText) \ {<<>>}
  /\ pattern \in SeqOf(Letters \cup {Star, Mark}, MaxPattern) \ {<<>>}
  /\ t = 0 /\ p = 0 /\ star = -1 /\ resume = 0 /\ answer = "none" /\ steps = 0

Reading == answer = "none" /\ t < Len(text)
Ahead   == p < Len(pattern)
Letter  == Ahead /\ pattern[p + 1] \in {Mark, text[t + 1]}
Walks   == steps' = steps + 1 /\ UNCHANGED <<text, pattern>>

Match ==
  /\ Reading /\ Letter /\ Walks
  /\ t' = t + 1 /\ p' = p + 1 /\ UNCHANGED <<star, resume, answer>>

(* Slip: the walk resumes at the first * of the pattern.                   *)
MeetStarOnce ==
  /\ Reading /\ ~Letter /\ Ahead /\ pattern[p + 1] = Star /\ Walks
  /\ star' = (IF star = -1 THEN p ELSE star) /\ resume' = (IF star = -1 THEN t ELSE resume)
  /\ p' = p + 1 /\ UNCHANGED <<t, answer>>

MeetStar ==
  /\ Reading /\ ~Letter /\ Ahead /\ pattern[p + 1] = Star /\ Walks
  /\ star' = p /\ resume' = t /\ p' = p + 1 /\ UNCHANGED <<t, answer>>

Stuck == Reading /\ ~Letter /\ ~(Ahead /\ pattern[p + 1] = Star)

(* Slip: the text is taken up where it got stuck.                          *)
ResumeThere ==
  /\ Stuck /\ star # -1 /\ Walks
  /\ p' = star + 1 /\ resume' = t + 1 /\ t' = t + 1 /\ UNCHANGED <<star, answer>>

Resume ==
  /\ Stuck /\ star # -1 /\ Walks
  /\ p' = star + 1 /\ resume' = resume + 1 /\ t' = resume + 1 /\ UNCHANGED <<star, answer>>

Fail == /\ Stuck /\ star = -1 /\ answer' = "no" /\ UNCHANGED <<text, pattern, t, p, star, resume, steps>>

TextRead ==
  /\ answer = "none" /\ t = Len(text)
  /\ LET ends == \A i \in p + 1..Len(pattern) : pattern[i] = Star IN answer' = IF ends THEN "yes" ELSE "no"
  /\ UNCHANGED <<text, pattern, t, p, star, resume, steps>>

Next == Match \/ MeetStar \/ Resume \/ Fail \/ TextRead
Spec == Init /\ [][Next]_vars

-----------------------------------------------------------------------------
(* The walk says of a segment what its pattern says of it, but that a name *)
(* with a * in it may be passed over: the walk takes that * for the letter *)
(* the pattern has there, and has nowhere to resume.  It never takes more  *)
(* steps than the two lengths allow: no glob, however many stars it        *)
(* stacks, holds a worker.                                                 *)
WalkRight ==
  /\ answer = "yes" => Says(pattern, text)
  /\ answer = "no"  => ~Says(pattern, text) \/ Star \in Range(text)
  /\ steps <= (Len(text) + 1) * (Len(pattern) + 1)
=============================================================================

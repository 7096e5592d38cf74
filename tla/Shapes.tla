--------------------------------- MODULE Shapes --------------------------------
(***************************************************************************)
(* Whether a target that only the running shell can name could be a file a *)
(* rule covers (domain/shell_writes.py, pattern_matches_glob).  The target *)
(* and the glob of the rule are searched together, segment by segment, for *)
(* one path that both match; two segments are searched the same way,       *)
(* character by character.                                                 *)
(***************************************************************************)
EXTENDS Globs, FiniteSets

CONSTANTS
  Targets,   \* the targets: sequences of segments, read from a command
  Rules,     \* the globs of rules
  Paths,     \* BOUND: the paths there are
  MaxSeen    \* MAX_SHAPE_STATES

X       == "${}"      \* EXPANSION: any text, slashes included
AnyName == "any"      \* _ANY_NAME: any run, a leading dot included
Rest    == <<>>       \* None: any number of whole segments

VARIABLES target, rule, seen, stack, answer, capped

vars == <<target, rule, seen, stack, answer, capped>>

-----------------------------------------------------------------------------
(* A segment as tokens, and whether the shell keeps it from a leading dot. *)
Glob(tokens, dots) == [tokens |-> tokens, dots |-> dots]

(* _glob_of *)
Run == {Star, AnyName}
FromShell(segment) == Glob(segment, segment[1] \in {Star, Mark})
FromRule(segment)  == Glob(segment, FALSE)

(* _target_shape: a segment with an expansion in it is any segments, and   *)
(* then one that ends as it ends.                                          *)
Unit(segment) ==
  IF X \notin Range(segment) THEN <<FromShell(segment)>>
  ELSE LET last == CHOOSE i \in DOMAIN segment :
                     segment[i] = X /\ \A j \in i + 1..Len(segment) : segment[j] # X
           tail == SubSeq(segment, last + 1, Len(segment))
       IN  <<Glob(Rest, FALSE)>> \o (IF tail = <<>> THEN <<>> ELSE <<FromShell(<<AnyName>> \o tail)>>)

TargetShape == FlattenSeq([i \in DOMAIN target |-> Unit(target[i])])
RuleShape   == [i \in DOMAIN rule |-> IF rule[i] = Deep THEN Glob(Rest, FALSE) ELSE FromRule(rule[i])]
IsRest(unit) == unit.tokens = Rest

-----------------------------------------------------------------------------
(* _globs_meet: one name that both segments match.                         *)

(* Slip: the shell's * matches a leading dot.                              *)
HiddenNever(one, two, started, letter) == FALSE

Hidden(one, two, started, letter) == (one.dots \/ two.dots) /\ ~started /\ letter = {"."}

Letters(glob, i) == IF glob.tokens[i] \in Run \cup {Mark} THEN {} ELSE {glob.tokens[i]}
Over(glob, i)    == IF glob.tokens[i] \in Run THEN i ELSE i + 1

After(one, two, at) ==
  LET i == at[1]  j == at[2]
      skips == {s \in {<<i + 1, j, at[3]>>, <<i, j + 1, at[3]>>} :
                  \/ s[1] # i /\ i <= Len(one.tokens) /\ one.tokens[i] \in Run
                  \/ s[2] # j /\ j <= Len(two.tokens) /\ two.tokens[j] \in Run}
      both  == i <= Len(one.tokens) /\ j <= Len(two.tokens)
      wants == IF both THEN Letters(one, i) \cup Letters(two, j) ELSE {}
  IN  skips \cup (IF both /\ Cardinality(wants) <= 1 /\ ~Hidden(one, two, at[3], wants)
                  THEN {<<Over(one, i), Over(two, j), TRUE>>} ELSE {})

GlobsMeet(one, two) ==
  LET size == Len(one.tokens) + Len(two.tokens) + 2
      reach[n \in 0..2 * size] ==
        IF n = 0 THEN {<<1, 1, FALSE>>}
        ELSE LET near == reach[n - 1] IN near \cup UNION {After(one, two, at) : at \in near}
  IN  <<Len(one.tokens) + 1, Len(two.tokens) + 1, TRUE>> \in reach[2 * size]

-----------------------------------------------------------------------------
(* _shapes_meet *)

Following(at) ==
  LET one == TargetShape  two == RuleShape  i == at[1]  j == at[2]
      both  == i <= Len(one) /\ j <= Len(two)
      moved == <<IF IsRest(one[i]) THEN i ELSE i + 1, IF IsRest(two[j]) THEN j ELSE j + 1>>
      meet  == CASE IsRest(one[i]) /\ IsRest(two[j]) -> FALSE
                 [] IsRest(one[i]) \/ IsRest(two[j]) -> GlobsMeet(IF IsRest(one[i]) THEN two[j] ELSE one[i], Glob(<<AnyName>>, FALSE))
                 [] OTHER -> GlobsMeet(one[i], two[j])
  IN  (IF i <= Len(one) /\ IsRest(one[i]) THEN {<<i + 1, j>>} ELSE {}) \cup
      (IF j <= Len(two) /\ IsRest(two[j]) THEN {<<i, j + 1>>} ELSE {}) \cup
      (IF both /\ meet THEN {moved} ELSE {})

Init ==
  /\ target \in Targets /\ rule \in Rules
  /\ seen = {<<1, 1>>} /\ stack = <<<<1, 1>>>> /\ answer = "none" /\ capped = FALSE

Answers(what, why) == answer = "none" /\ answer' = what /\ capped' = why /\ UNCHANGED <<target, rule, seen, stack>>

GiveUp == Cardinality(seen) > MaxSeen /\ stack # <<>> /\ Answers("yes", TRUE)

Arrive ==
  /\ Cardinality(seen) <= MaxSeen /\ stack # <<>>
  /\ Last(stack) = <<Len(TargetShape) + 1, Len(RuleShape) + 1>> /\ Answers("yes", FALSE)

Exhaust == stack = <<>> /\ Answers("no", FALSE)

Search ==
  /\ answer = "none" /\ Cardinality(seen) <= MaxSeen /\ stack # <<>>
  /\ LET at == Last(stack)  fresh == Following(at) \ seen IN
     /\ at # <<Len(TargetShape) + 1, Len(RuleShape) + 1>>
     /\ seen' = seen \cup fresh /\ stack' = Front(stack) \o SetToSeq(fresh)
  /\ UNCHANGED <<target, rule, answer, capped>>

Next == GiveUp \/ Arrive \/ Exhaust \/ Search
Spec == Init /\ [][Next]_vars

-----------------------------------------------------------------------------
(* The files the shell could make of the target: an expansion may hold any *)
(* names, and what is written around it stays.                             *)
Spans(segment, names) ==
  LET tail == SelectSeq(segment, LAMBDA c : c # X)
      name == Last(names)
  IN  IF X \in Range(segment)
      THEN tail = <<>> \/ (names # <<>> /\ \E k \in 0..Len(name) : Says(tail, SubSeq(name, k + 1, Len(name))))
      ELSE Len(names) = 1 /\ Says(segment, name) /\ ~(segment[1] \in {Star, Mark} /\ name[1] = ".")

Could(path) ==
  LET after(from, segment) == {j \in 0..Len(path) : \E k \in from : k <= j /\ Spans(segment, SubSeq(path, k + 1, j))}
  IN  Len(path) \in FoldLeft(after, {0}, target)

(* A target that could be a file a rule covers is never passed over, and   *)
(* one that could not be any the rule speaks of is never taken for one     *)
(* unless the search gave up.                                              *)
MeetsWhatItCould ==
  /\ answer = "no"  => \A path \in Paths : ~(Could(path) /\ Matches(path, rule))
  /\ answer = "yes" /\ ~capped => \E path \in Paths : Could(path) /\ Covers(rule, path)
=============================================================================

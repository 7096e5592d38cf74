------------------------------- MODULE HookScope -------------------------------
(***************************************************************************)
(* Whether a command may be sent where an include list says what may leave *)
(* the machine (hooks/threefold_hook.py: _command_included): the hook      *)
(* reads it word by word and keeps the folders it may stand in, beside the *)
(* shell that will run it.  The shell is external: a change of folder may  *)
(* fail, be skipped, or happen in a process of its own.                    *)
(***************************************************************************)
EXTENDS Integers, FiniteSets, SequencesExt

CONSTANTS
  Names,           \* of folders and files
  Root,            \* the folder the list is kept in; a place is the names on the way to it
  Home,
  Listed,          \* the folders its globs cover with all they hold, from Root
  Starts,          \* where a command may run
  Words,           \* what it may say
  Values,          \* what a variable may hold: a name
  MaxDirectories,  \* MAX_COMMAND_DIRECTORIES
  MaxNested, MaxMoves

(* A word says where a path starts ("nothing" is a cd's missing or unusual *)
(* operand, "computed" what an expansion makes of the folder), how far it  *)
(* climbs from there and what it descends to; its climb may be cut by      *)
(* quotes, or it may be joined to an option (an @ or a list reads alike).  *)
Origins == {"here", "pwd", "home", "top", "variable", "computed", "nothing"}
Forms   == {"plain", "cut", "joined"}
Word    == [from : Origins, up : Nat, down : Seq(Names), form : Forms]

ScopeAssumption ==
  /\ Root \in Seq(Names) /\ Home \in Seq(Names)
  /\ Listed \subseteq Seq(Names) /\ Starts \subseteq Seq(Names)
  /\ Words \subseteq Word /\ Values \subseteq Names

VARIABLES
  current,    \* the folders the hook thinks it may stand in
  subshells,  \* ... and where each subshell began
  pushed,     \* ... and before each pushd
  verdict,
  cwd,        \* where the shell stands
  stack,      \* its directory stack
  outer,      \* what each subshell will be left for
  strayed,    \* a move before && did not take place: the shell is where the hook does not follow
  paired,     \* every push and pop so far took place, and in the outermost shell
  leaves,     \* an outer path was named
  moved       \* how many moves and subshells so far

scopeVars == <<current, subshells, pushed, verdict, cwd, stack, outer, strayed, paired, leaves, moved>>

-----------------------------------------------------------------------------
Within(place, folder) ==
  Len(folder) <= Len(place) /\ \A i \in 1..Len(folder) : place[i] = folder[i]

(* The root itself is inside no glob.                                      *)
Included(place) == Len(place) > Len(Root) /\ \E folder \in Listed : Within(place, Root \o folder)

Above(place, steps) == SubSeq(place, 1, Len(place) - steps)
From(w, place) == IF w.from = "home" THEN Home ELSE IF w.from = "top" THEN <<>> ELSE place

(* The path a word is for the shell.                                       *)
Path(w, place, value) ==
  Above(IF w.from = "variable" THEN Append(place, value) ELSE From(w, place), w.up) \o w.down

(* The path the hook reads in it, where a variable is a name as written.   *)
Lands(w, place) ==
  Above(IF w.from = "variable" THEN Append(place, "$") ELSE From(w, place), w.up) \o w.down

(* A word without a separator is no path.                                  *)
Bare(w) == w.from = "here" /\ w.up = 0 /\ Len(w.down) = 1

(* Slip: a word is read as it is written only.                             *)
ReadingsWritten(w) == {IF w.form = "plain" THEN w ELSE [w EXCEPT !.from = "here", !.up = 0, !.form = "plain"]}

(* A word is read as written, where a cut or joined climb climbs nowhere,  *)
(* and with its quotes, its option or its list taken away.                 *)
Readings(w) ==
  {[w EXCEPT !.form = "plain"]}
  \cup (IF w.form = "plain" THEN {} ELSE {[w EXCEPT !.from = "here", !.up = 0, !.form = "plain"]})

(* A computed place, or a climb from a place only a variable knows.        *)
Unknown(w) == w.from = "computed" \/ (w.from = "variable" /\ w.up > 0)

Inside(w, place) == \A r \in Readings(w) : Bare(r) \/ Included(Lands(r, place))
Admits(w) == ~Unknown(w) /\ \A place \in current : Inside(w, place)

(* A move is followed to a literal place that is listed wherever it starts, *)
(* and to no option, variable or computed place.                            *)
Literal(w)  == w.from \notin {"computed", "nothing", "variable"} /\ w.form # "joined"
Reaches(w)  == {Lands(w, place) : place \in current}
Follows(w)  == Literal(w) /\ Admits(w) /\ \A place \in Reaches(w) : Included(place)

(* After && the command is only there, otherwise it may be in either place. *)
Standing(targets, and) == IF and THEN targets ELSE current \cup targets
Fits(places) == Cardinality(places) <= MaxDirectories

(* popd is known only after a pushd in the same command.                   *)
Returns(and) == pushed # <<>> /\ Fits(Standing(Last(pushed), and))

-----------------------------------------------------------------------------
ScopeInit ==
  /\ cwd \in Starts
  /\ verdict = IF Included(cwd) THEN "reading" ELSE "held back"
  /\ current = {cwd} /\ subshells = <<>> /\ pushed = <<>>
  /\ stack = <<>> /\ outer = <<>> /\ strayed = FALSE /\ paired = TRUE
  /\ leaves = FALSE /\ moved = 0

Reads == verdict = "reading"
Steps == Reads /\ moved < MaxMoves /\ moved' = moved + 1

HoldBack ==
  verdict' = "held back" /\ UNCHANGED <<current, subshells, pushed, cwd, stack, outer, strayed, paired, leaves>>

(* What the shell makes of a word the hook has read.                       *)
Says(path) == leaves' = (leaves \/ (~strayed /\ ~Included(path))) /\ UNCHANGED verdict

Name(w, value) ==
  /\ Reads /\ w.from # "nothing" /\ UNCHANGED moved
  /\ \/ ~Admits(w) /\ HoldBack
     \/ Admits(w) /\ Says(Path(w, cwd, value)) /\ UNCHANGED <<current, subshells, pushed, cwd, stack, outer, strayed, paired>>

(* cd, chdir, Set-Location                                                 *)
Cd(w, value, and, moves) ==
  /\ Steps
  /\ \/ ~(Follows(w) /\ Fits(Standing(Reaches(w), and))) /\ HoldBack
     \/ /\ Follows(w) /\ Fits(Standing(Reaches(w), and))
        /\ current' = Standing(Reaches(w), and)
        /\ cwd' = IF moves THEN Path(w, cwd, value) ELSE cwd
        /\ strayed' = (strayed \/ (and /\ ~moves))
        /\ Says(Path(w, cwd, value))
        /\ UNCHANGED <<subshells, pushed, stack, outer, paired>>

Pushd(w, value, and, moves) ==
  /\ Steps
  /\ \/ ~(Follows(w) /\ Fits(Standing(Reaches(w), and))) /\ HoldBack
     \/ /\ Follows(w) /\ Fits(Standing(Reaches(w), and))
        /\ current' = Standing(Reaches(w), and) /\ pushed' = Append(pushed, current)
        /\ cwd' = IF moves THEN Path(w, cwd, value) ELSE cwd
        /\ stack' = IF moves THEN Append(stack, cwd) ELSE stack
        /\ strayed' = (strayed \/ (and /\ ~moves))
        /\ paired' = (paired /\ moves /\ ~strayed /\ outer = <<>>)
        /\ Says(Path(w, cwd, value))
        /\ UNCHANGED <<subshells, outer>>

Popd(and, moves) ==
  /\ Steps
  /\ \/ ~Returns(and) /\ HoldBack
     \/ /\ Returns(and)
        /\ (moves => stack # <<>>)
        /\ current' = Standing(Last(pushed), and) /\ pushed' = Front(pushed)
        /\ cwd' = IF moves THEN Last(stack) ELSE cwd
        /\ stack' = IF moves THEN Front(stack) ELSE stack
        /\ strayed' = (strayed \/ (and /\ ~moves) \/ ~paired)
        /\ paired' = (paired /\ moves /\ outer = <<>>)
        /\ UNCHANGED <<verdict, subshells, outer, leaves>>

Open ==
  /\ Steps /\ Len(subshells) < MaxNested
  /\ subshells' = Append(subshells, current)
  /\ outer' = Append(outer, [cwd |-> cwd, stack |-> stack, strayed |-> strayed])
  /\ UNCHANGED <<current, pushed, verdict, cwd, stack, strayed, paired, leaves>>

(* Slip: the hook stays where the subshell went.                           *)
CloseThere ==
  /\ Steps /\ subshells # <<>>
  /\ subshells' = Front(subshells)
  /\ cwd' = Last(outer).cwd /\ stack' = Last(outer).stack /\ strayed' = Last(outer).strayed /\ outer' = Front(outer)
  /\ UNCHANGED <<current, pushed, verdict, paired, leaves>>

(* A subshell puts the command back when it closes.                        *)
Close ==
  /\ Steps /\ subshells # <<>>
  /\ current' = Last(subshells) /\ subshells' = Front(subshells)
  /\ cwd' = Last(outer).cwd /\ stack' = Last(outer).stack /\ strayed' = Last(outer).strayed /\ outer' = Front(outer)
  /\ UNCHANGED <<pushed, verdict, paired, leaves>>

ScopeNext ==
  \/ \E w \in Words, value \in Values :
       \/ Name(w, value)
       \/ \E and, moves \in BOOLEAN : Cd(w, value, and, moves) \/ Pushd(w, value, and, moves)
  \/ \E and, moves \in BOOLEAN : Popd(and, moves)
  \/ Open \/ Close

ScopeSpec == ScopeInit /\ [][ScopeNext]_scopeVars

-----------------------------------------------------------------------------
(* Whatever a command is made of, quotes and options, moves that may fail, *)
(* subshells and the directory stack, the hook does not let it go when it  *)
(* names a path outside the list while the shell is where its moves would  *)
(* have taken it.                                                          *)
NamesOnlyListed == verdict = "reading" => ~leaves
=============================================================================

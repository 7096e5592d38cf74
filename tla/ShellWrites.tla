------------------------------ MODULE ShellWrites ------------------------------
(***************************************************************************)
(* What a shell command writes, read before it runs                        *)
(* (domain/shell_writes.py, _analyse_into), beside a shell that runs it.   *)
(* Each step hands one more simple command to both.  The analysis keeps    *)
(* where the command stands, what the command in front printed, what this  *)
(* command itself has put in which file, and the writes it will report.    *)
(* Words are sequences of path segments; a text is the set of the pieces   *)
(* it holds.                                                               *)
(***************************************************************************)
EXTENDS Integers, Sequences, SequencesExt

CONSTANTS
  Files,       \* the words that name files
  Places,      \* the words that name directories
  Texts,       \* what a command may print in so many letters
  Values,      \* what an expansion may turn out to hold
  MaxNested,   \* MAX_NESTED_SCRIPTS
  MaxCommands  \* BOUND: simple commands, groups and scripts

X       == "${}"       \* EXPANSION
AnyName == "*"         \* _ANY_NAME
Unknown == {"unknown"}
Other   == {"other"}   \* a text that is in no command
Gone    == {"gone"}
Null    == <<"/", "dev", "null">>
Lost    == <<"lost">>
Unnamed == <<"unnamed">>   \* ShellWrite.target is None

VARIABLES
  read,     \* the analysis: cwd, stack, printed, piped
  known,    \* what the command itself put in each file it names
  writes,   \* what the last command added to ShellAnalysis.writes
  shell,    \* the shell: dir, dirs, said
  disk,     \* the files it has changed
  wrote,    \* what the last command did write
  outer,    \* the frames around this one
  depth, truncated, commands,
  astray,   \* HISTORY: a cd that was read did not move the shell, or the other way round
  doubt     \* HISTORY: a file holds what no command put there by name

vars == <<read, known, writes, shell, disk, wrote, outer, depth, truncated, commands, astray, doubt>>

-----------------------------------------------------------------------------
(* Paths.                                                                  *)

Opaque(path)   == X \in Range(path) \/ AnyName \in Range(path)
Absolute(word) == word # <<>> /\ word[1] = "/"

(* A .. leaves the directory in front of it.                               *)
ClimbsOut(path, segment) ==
  IF segment # ".." THEN Append(path, segment)
  ELSE IF path = <<>> \/ Last(path) = ".." THEN Append(path, segment)
  ELSE IF Last(path) = "/" THEN path ELSE Front(path)

(* An expansion may be several directories: a .. after it leaves none that *)
(* can be named, and the whole path could be anywhere.                     *)
Climbs(path, segment) ==
  IF path = Lost THEN Lost
  ELSE IF segment = ".." /\ path # <<>> /\ Last(path) = X THEN Lost
  ELSE ClimbsOut(path, segment)

Normal(path) == LET p == FoldLeft(Climbs, <<>>, path) IN IF p = Lost THEN <<X>> ELSE p

Resolve(word, cwd) == Normal(IF Absolute(word) THEN word ELSE cwd \o word)

(* What the shell makes of the word when its expansion holds v.            *)
Path(word, dir, v) ==
  Resolve(FlattenSeq([i \in DOMAIN word |-> IF word[i] = X THEN v ELSE <<word[i]>>]), dir)

(* Some path the shell could make of the pattern (_shapes_meet, with a     *)
(* rule that names one file).                                              *)
Covers(pattern, path) ==
  LET after(from, segment) ==
        {j \in 0..Len(path) : \E k \in from :
           IF segment = X THEN k <= j ELSE j = k + 1 /\ segment \in {AnyName, path[j]}}
  IN  Len(path) \in FoldLeft(after, {0}, pattern)

-----------------------------------------------------------------------------
(* Files, as the analysis and as the shell know them.                      *)

Put(word, text) == [to |-> word, what |-> text]

Note(files, put) ==
  LET path == Resolve(put.to, read.cwd) IN
  IF put.to = Unnamed \/ Opaque(path) THEN files
  ELSE IF put.what = Gone THEN [p \in DOMAIN files \ {path} |-> files[p]]
  ELSE (path :> put.what) @@ files

(* _known *)
Known(word) ==
  LET path == Resolve(word, read.cwd) IN IF path \in DOMAIN known THEN known[path] ELSE Unknown

Holds(path) == IF path \in DOMAIN disk THEN disk[path] ELSE Other

(* The analysis: _write for each put, and what is printed on.              *)
Reports(puts, out, next) ==
  LET kept == SelectSeq(puts, LAMBDA p : p.to # Null) IN
  /\ known'  = FoldLeft(Note, known, kept)
  /\ writes' = {Put(IF p.to = Unnamed THEN Unnamed ELSE Resolve(p.to, read.cwd), p.what) : p \in Range(kept)}
  /\ read'   = [read EXCEPT !.printed = out, !.piped = next]

(* The shell: what it writes.                                              *)
Does(puts, said) ==
  LET kept == SelectSeq(puts, LAMBDA p : p.to # Null) IN
  /\ disk'  = FoldLeft(LAMBDA f, p : (p.to :> p.what) @@ f, disk, kept)
  /\ wrote' = Range(kept)
  /\ shell' = [shell EXCEPT !.said = IF ~read'.piped THEN {} ELSE said]

(* One simple command of this frame.  Nothing is claimed after a doubt, of  *)
(* a command whose end was not read, or of a frame gone astray but that it  *)
(* is closed: nothing more is explored (BOUND).                             *)
Reading == ~doubt /\ ~truncated
Command == Reading /\ ~astray /\ commands < MaxCommands /\ commands' = commands + 1
Stays   == UNCHANGED <<outer, depth, truncated>>
Doubts(cause) == doubt' = (doubt \/ cause) /\ UNCHANGED astray

(* Output or errors, sent to a file or added to it.                        *)
NoRedirect == <<>>
Redirects  == {NoRedirect} \cup {<<[to |-> f, adds |-> a, errors |-> e]>> : f \in Files, a, e \in BOOLEAN}
Adds(r)    == r # NoRedirect /\ r[1].adds
Errors(r)  == r # NoRedirect /\ r[1].errors
Hidden(puts) == \E p \in Range(puts) : Opaque(Resolve(p.to, read.cwd))

Sent(r, out, noise) == IF r = NoRedirect THEN <<>> ELSE <<Put(r[1].to, IF Errors(r) THEN noise ELSE out)>>
On(r, out)          == IF r = NoRedirect \/ Errors(r) THEN out ELSE {}
Left(r, said, noise, v) ==
  IF r = NoRedirect THEN <<>>
  ELSE LET path == Path(r[1].to, shell.dir, v)
           text == IF Errors(r) THEN noise ELSE said
       IN  <<Put(path, IF Adds(r) THEN text \cup Holds(path) ELSE text)>>

(* A program that prints, and writes nothing but where its streams are     *)
(* sent; of its errors nothing is known.                                   *)
Prints(out, said, r, next, v) ==
  /\ Command /\ Stays
  /\ Reports(Sent(r, out, Unknown), On(r, out), next)
  /\ Does(Left(r, said, Other, v), On(r, said))
  /\ Doubts(Adds(r) \/ Hidden(Sent(r, out, Unknown)))

(* A program that writes files it is told to, and nothing that is read.    *)
Says(out) == IF out = Unknown THEN Other ELSE out

Writes(puts, left, out, doubtful) ==
  /\ Command /\ Stays /\ Reports(puts, out, FALSE) /\ Does(left, Says(out))
  /\ Doubts(doubtful \/ Hidden(puts))

-----------------------------------------------------------------------------
(* _run, program by program.                                               *)

(* echo and printf; a text with an expansion in it is not read, and there  *)
(* is nothing among the errors.                                            *)
Echo(r, next, v) ==
  \/ \E t \in Texts : ~Errors(r) /\ Prints({t}, {t}, r, next, v)
  \/ ~Errors(r) /\ Prints(Unknown, Other, r, next, v)
  \/ /\ Errors(r) /\ Command /\ Stays
     /\ Reports(Sent(r, Unknown, {}), Unknown, next) /\ Does(Left(r, Other, {}, v), Other)
     /\ Doubts(Adds(r) \/ Hidden(Sent(r, Unknown, {})))

(* Any program nobody has taught it.                                       *)
Make(r, next, v) == Prints(Unknown, Other, r, next, v)

(* Slip: whatever was printed last is on the input.                        *)
StdinLast == read.printed

Stdin == IF read.piped THEN read.printed ELSE Unknown
RealStdin == IF read.piped THEN shell.said ELSE Other

Cat(r, next, v) ==
  \/ Prints(Stdin, RealStdin, r, next, v)
  \/ \E f \in Files : ~read.piped /\ Prints(Known(f), Holds(Path(f, shell.dir, v)), r, next, v)

TeeText(f, text, real, next, v) ==
  LET puts == <<Put(f, text)>> IN
  /\ Command /\ Stays /\ Reports(puts, text, next)
  /\ Does(<<Put(Path(f, shell.dir, v), real)>>, real) /\ Doubts(Hidden(puts))

(* ... from the pipe, from a text of the command's own or from a file.     *)
Tee(f, next, v) ==
  \/ TeeText(f, Stdin, RealStdin, next, v)
  \/ \E t \in Texts : TeeText(f, {t}, {t}, next, v)
  \/ \E from \in Files \ {f} : TeeText(f, Known(from), Holds(Path(from, shell.dir, v)), next, v)

(* An edit in place: the text it adds is reported, the rest is there.      *)
EditText(f, text, v) ==
  LET path == Path(f, shell.dir, v) IN
  Writes(<<Put(f, text)>>, <<Put(path, Holds(path) \cup Says(text))>>, Unknown, TRUE)

(* sed -i: a script that only adds text it carries; one with w writes that  *)
(* file too.                                                               *)
Sed(f, t, v) ==
  \/ EditText(f, {t}, v)
  \/ EditText(f, Unknown, v)
  \/ \E g \in Files \ {f} :
       LET path == Path(f, shell.dir, v) IN
       Writes(<<Put(g, Unknown), Put(f, {t})>>,
              <<Put(Path(g, shell.dir, v), Other), Put(path, Holds(path) \cup {t})>>, Unknown, TRUE)

(* perl -i: nothing but substitutions can be read.                         *)
Perl(f, t, v) == EditText(f, {t}, v) \/ EditText(f, Unknown, v)
Awk(f, v)     == EditText(f, Unknown, v)

Touch(f, v) ==
  LET path == Path(f, shell.dir, v) IN
  Writes(<<Put(f, {})>>, <<Put(path, IF path \in DOMAIN disk THEN disk[path] ELSE {})>>, {}, TRUE)

Rm(f, v) == Writes(<<Put(f, Gone)>>, <<Put(Path(f, shell.dir, v), Gone)>>, {}, FALSE)

Dd(from, f, v) ==
  Writes(<<Put(f, Known(from))>>, <<Put(Path(f, shell.dir, v), Holds(Path(from, shell.dir, v)))>>, Unknown, FALSE)

(* curl and wget: what arrives is on another machine.                      *)
Curl(f, v) == Writes(<<Put(f, Unknown)>>, <<Put(Path(f, shell.dir, v), Other)>>, Unknown, FALSE)

(* A diff in the command names its files and the lines it adds; one that   *)
(* lies on the disk names neither.                                         *)
Patch(f, t, v) ==
  LET path == Path(f, shell.dir, v)
      left == <<Put(path, Holds(path) \cup {t})>>
  IN  \/ Writes(<<Put(f, {t})>>, left, Unknown, TRUE)
      \/ Writes(<<Put(Unnamed, Unknown)>>, left, Unknown, TRUE)
      \/ Writes(<<Put(f, Gone)>>, <<Put(path, Gone)>>, Unknown, FALSE)

(* Code that writes a text, a text or a file it works out as it runs, or   *)
(* adds to a file.                                                         *)
Code(f, t, v) ==
  LET path == Path(f, shell.dir, v) IN
  \/ Writes(<<Put(f, {t})>>, <<Put(path, {t})>>, Unknown, FALSE)
  \/ Writes(<<Put(f, Unknown)>>, <<Put(path, Other)>>, Unknown, FALSE)
  \/ Writes(<<Put(Unnamed, {t})>>, <<Put(path, {t})>>, Unknown, TRUE)
  \/ EditText(f, {t}, v)

CodeMoves(from, f, v) ==
  LET here == Path(from, shell.dir, v) IN
  Writes(<<Put(f, Unknown), Put(from, Gone)>>, <<Put(Path(f, shell.dir, v), Holds(here)), Put(here, Gone)>>, Unknown, FALSE)

(* Set-Content and Out-File; Add-Content is an edit.                       *)
PowerShell(f, t, v) ==
  LET path == Path(f, shell.dir, v) IN
  \/ Writes(<<Put(f, {t})>>, <<Put(path, {t})>>, {}, FALSE)
  \/ Writes(<<Put(f, Stdin)>>, <<Put(path, RealStdin)>>, {}, FALSE)
  \/ EditText(f, {t}, v)

(* find and xargs run a command, in a shell of its own, on every word they *)
(* come upon.                                                              *)
OnFound(root, t, v) ==
  /\ depth < MaxNested
  /\ LET word == Append(root, X) IN EditText(word, {t}, v) \/ Rm(word, v)

-----------------------------------------------------------------------------
(* cp, mv, ln and rsync (_copy_like).                                      *)

Looks(word) == Last(word) \in {"f.py", "g.py"}    \* _looks_like_file

Into(to) == to = <<"..">>                         \* it can be nothing but a directory

Targets(from, to) ==
  IF Looks(to) THEN <<to>>
  ELSE IF Into(to) THEN <<Append(to, Last(from))>> ELSE <<to, Append(to, Last(from))>>

Inside(word) ==
  LET path == Resolve(word, read.cwd) IN ~Opaque(path) /\ ~Absolute(path) /\ (path = <<>> \/ path[1] # "..")

Roots(from, to) == IF Into(to) THEN <<Append(to, Last(from))>> ELSE <<to, Append(to, Last(from))>>

Trees(from, to) ==
  LET tail  == IF Inside(from) THEN AnyName ELSE X
      seen  == SelectSeq(Roots(from, to),
                         LAMBDA p : ~Absolute(p) /\ (Inside(from) => ~Opaque(Resolve(p, read.cwd))))
  IN  [i \in DOMAIN seen |-> Put(Append(seen[i], tail), Unknown)]

CopyFile(from, to, how, v) ==
  LET text  == IF how = "ln" THEN Unknown ELSE Known(from)
      named == [i \in DOMAIN Targets(from, to) |-> Put(Targets(from, to)[i], text)]
      here  == Path(from, shell.dir, v)
      gone(w) == IF how = "mv" THEN <<Put(w, Gone)>> ELSE <<>>
  IN  /\ from # to /\ Command /\ Stays
      /\ Reports(named \o (IF how = "mv" /\ ~Looks(to) THEN Trees(from, to) ELSE <<>>) \o gone(from), {}, FALSE)
      /\ \E there \in Range(Targets(from, to)) :
           Does(<<Put(Path(there, shell.dir, v), Holds(here))>> \o gone(here), {})
      /\ Doubts(how = "ln" \/ Hidden(named))

(* A directory comes with every file beneath it.                           *)
CopyTree(from, to, v) ==
  LET below == IF Inside(from) THEN <<Last(v)>> ELSE v
      puts  == [i \in DOMAIN Targets(from, to) |-> Put(Targets(from, to)[i], Unknown)] \o Trees(from, to)
  IN
  /\ Command /\ Stays /\ ~Looks(to) /\ ~Absolute(to)
  /\ Inside(from) => ~Opaque(Resolve(to, read.cwd))
  /\ Reports(puts, {}, FALSE)
  /\ \E there \in Range(Targets(from, to)) :
       Does(<<Put(Path(there \o below, shell.dir, v), Other)>>, {})
  /\ Doubts(TRUE)

-----------------------------------------------------------------------------
(* Where the command stands.                                               *)

Moved(cwd, stack, dir, dirs, next, follows) ==
  /\ Command /\ Stays
  /\ read'  = [read EXCEPT !.cwd = cwd, !.stack = stack, !.printed = {}, !.piped = next]
  /\ shell' = IF next \/ read.piped THEN [shell EXCEPT !.said = {}]
              ELSE [shell EXCEPT !.dir = dir, !.dirs = dirs, !.last = shell.dir, !.said = {}]
  /\ astray' = (astray \/ next \/ read.piped \/ ~follows)
  /\ writes' = {} /\ wrote' = {} /\ UNCHANGED <<known, disk, doubt>>

Cd(p, next, v) ==
  Moved(Resolve(p, read.cwd), read.stack, Path(p, shell.dir, v), shell.dirs, next, TRUE)

(* cd - is passed over.                                                    *)
CdBack == Moved(read.cwd, read.stack, shell.last, shell.dirs, FALSE, FALSE)

Pushd(p, v) ==
  Moved(Resolve(p, read.cwd), Append(read.stack, read.cwd),
        Path(p, shell.dir, v), Append(shell.dirs, shell.dir), FALSE, TRUE)

Popd ==
  /\ read.stack # <<>>
  /\ LET dirs == IF shell.dirs = <<>> THEN <<shell.dir>> ELSE shell.dirs IN
     Moved(Last(read.stack), Front(read.stack), Last(dirs), Front(dirs), FALSE, TRUE)

(* ( ... ) and $( ... ), and a script handed to a shell: what the frame    *)
(* prints is never read outside, and what stands before it never inside.   *)
(* The code reads the words of an eval as such a script; but they run in   *)
(* the shell itself, which their cd moves, and are left out.               *)
Open(script) ==
  /\ Reading /\ ~astray /\ commands < MaxCommands /\ commands' = commands + 1 /\ (script => depth < MaxNested)
  /\ outer' = Append(outer, [read |-> read, shell |-> shell, astray |-> astray, script |-> script])
  /\ depth' = IF script THEN depth + 1 ELSE depth
  /\ read'  = [read EXCEPT !.printed = Unknown, !.piped = FALSE, !.stack = IF script THEN <<>> ELSE @]
  /\ shell' = [shell EXCEPT !.dirs = IF script THEN <<>> ELSE @]
  /\ writes' = {} /\ wrote' = {} /\ UNCHANGED <<known, disk, truncated, astray, doubt>>

(* Slip: a frame leaves the command where it stood in it.                  *)
BackHere(frame) == [frame.read EXCEPT !.cwd = read.cwd]

Back(frame) == frame.read

Close(r, next, v) ==
  /\ outer # <<>> /\ Reading
  /\ LET frame == Last(outer)
         puts  == IF r = NoRedirect THEN <<>> ELSE <<Put(Resolve(r[1].to, Back(frame).cwd), Unknown)>>
         path  == IF r = NoRedirect THEN <<>> ELSE Path(r[1].to, frame.shell.dir, v)
         left  == IF r = NoRedirect \/ path = Null THEN <<>> ELSE <<Put(path, Other \cup Holds(path))>>
     IN  /\ outer' = Front(outer) /\ depth' = IF frame.script THEN depth - 1 ELSE depth
         /\ read'  = [Back(frame) EXCEPT !.printed = On(r, Unknown), !.piped = next]
         /\ shell' = [frame.shell EXCEPT !.said = IF next THEN On(r, Other) ELSE {}]
         /\ known' = FoldLeft(LAMBDA f, p : IF Opaque(p.to) \/ p.to = Null THEN f ELSE (p.to :> Unknown) @@ f, known, puts)
         /\ writes' = {p \in Range(puts) : p.to # Null}
         /\ disk'  = FoldLeft(LAMBDA f, p : (p.to :> p.what) @@ f, disk, left)
         /\ wrote' = Range(left)
         /\ astray' = frame.astray
         /\ doubt' = (doubt \/ \E p \in Range(puts) : Opaque(p.to))
  /\ UNCHANGED <<truncated, commands>>

(* A script deeper than the analysis goes is not read, and is said so.     *)
TooDeep(f, v) ==
  /\ Command /\ depth = MaxNested /\ truncated' = TRUE
  /\ read' = [read EXCEPT !.printed = Unknown, !.piped = FALSE] /\ writes' = {} /\ UNCHANGED known
  /\ Does(<<Put(Path(f, shell.dir, v), Other)>>, Other)
  /\ UNCHANGED <<outer, depth, astray, doubt>>

-----------------------------------------------------------------------------
Init ==
  /\ read  = [cwd |-> <<>>, stack |-> <<>>, printed |-> Unknown, piped |-> FALSE]
  /\ shell = [dir |-> <<>>, dirs |-> <<>>, last |-> <<>>, said |-> {}]
  /\ known = <<>> /\ disk = <<>> /\ writes = {} /\ wrote = {} /\ outer = <<>>
  /\ depth = 0 /\ truncated = FALSE /\ commands = 0 /\ astray = FALSE /\ doubt = FALSE

(* Every command runs, and does what it is asked to.                       *)
Next ==
  \E v \in Values :
    \/ \E r \in Redirects, next \in BOOLEAN :
         Echo(r, next, v) \/ Make(r, next, v) \/ Cat(r, next, v)
    \/ \E f \in Files, next \in BOOLEAN : Tee(f, next, v)
    \/ \E f \in Files, t \in Texts :
         Sed(f, t, v) \/ Perl(f, t, v) \/ Patch(f, t, v) \/ Code(f, t, v) \/ PowerShell(f, t, v)
    \/ \E f \in Files : Awk(f, v) \/ Touch(f, v) \/ Rm(f, v) \/ Curl(f, v)
    \/ \E from, f \in Files : from # f /\ (Dd(from, f, v) \/ CodeMoves(from, f, v))
    \/ \E root \in Places \cup {<<>>}, t \in Texts : OnFound(root, t, v)
    \/ \E from \in Files, to \in Files \cup Places, how \in {"cp", "mv", "ln"} :
         CopyFile(from, to, how, v)
    \/ \E from, to \in Places : CopyTree(from, to, v)
    \/ \E p \in Places, next \in BOOLEAN : Cd(p, next, v) \/ Pushd(p, v)
    \/ CdBack \/ Popd
    \/ \E script \in BOOLEAN : Open(script)
    \/ \E r \in Redirects, next \in BOOLEAN : Close(r, next, v)
    \/ \E f \in Files : TooDeep(f, v)

Spec == Init /\ [][Next]_vars

-----------------------------------------------------------------------------
MayBe(r, w) == r.to = Unnamed \/ Covers(r.to, w.to)

(* Every file the shell writes or removes is the target of a write that    *)
(* was reported, however deep the command and whatever its expansions      *)
(* hold, as long as the whole of it was read and each cd went where it was *)
(* read to go.                                                             *)
TargetsReported ==
  ~truncated /\ ~astray => \A w \in wrote : \E r \in writes : MayBe(r, w)

(* A content that is reported is the content: a write is reported with     *)
(* what it puts in the file, or as one whose content cannot be read.       *)
ContentHonest ==
  ~truncated /\ ~astray =>
    \A w \in wrote : \E r \in writes : MayBe(r, w) /\ (r.what = Unknown \/ w.what \subseteq r.what)

(* ... while no file the command wrote was then added to, touched, linked   *)
(* to, or written under a name the command does not carry.                 *)
ContentHonestUnlessInDoubt == ~doubt => ContentHonest
=============================================================================

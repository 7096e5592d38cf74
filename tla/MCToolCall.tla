------------------------------- MODULE MCToolCall -------------------------------
(***************************************************************************)
(* The parts one tool call passes, on the machine and in the service, each *)
(* on a small instance: the name the hook sends for its developer, the     *)
(* settings it acts under, what it decides and sends; of a command, what   *)
(* it writes and whether a rule covers that; what the guard finds, whether *)
(* the call is one of a loop, and what is proposed instead.                *)
(* They share no state but their inputs, so one state holds one of them.   *)
(* The salt, the settings, the scope, the hook's gates and the loop gate   *)
(* have their own variables; v1 to v14 stand for those of any other part that runs.       *)
(***************************************************************************)
EXTENDS DeveloperSalt, HookSettings, HookScope, HookGate, LoopGate

CONSTANTS
  Parts,          \* which of them run
  Rulebooks,      \* the lists of rules a call may be judged under
  h1, h2, h3      \* hooks

VARIABLES part, v1, v2, v3, v4, v5, v6, v7, v8, v9, v10, v11, v12, v13, v14

(* The variables a part with fewer of them has no use for.                 *)
theirs       == <<saltVars, settingsVars, scopeVars, gateVars, loopVars>>
others       == <<v1, v2, v3, v4, v5, v6, v7, v8, v9, v10, v11, v12, v13, v14>>
BeyondSix    == <<part, theirs, v7, v8, v9, v10, v11, v12, v13, v14>>
BeyondEight  == <<part, theirs, v9, v10, v11, v12, v13, v14>>
BeyondTwelve == <<part, theirs, v13, v14>>
BeyondAll    == <<part, theirs>>
IdleAfterTwelve == v13 = "idle" /\ v14 = "idle"
IdleAfterEight  == v9 = "idle" /\ v10 = "idle" /\ v11 = "idle" /\ v12 = "idle" /\ IdleAfterTwelve
IdleAfterSix    == v7 = "idle" /\ v8 = "idle" /\ IdleAfterEight
Idle == v1 = "idle" /\ v2 = "idle" /\ v3 = "idle" /\ v4 = "idle" /\ v5 = "idle" /\ v6 = "idle" /\ IdleAfterSix

Star == "*"
Mark == "?"
Deep == <<"*", "*">>
X    == "${}"

-----------------------------------------------------------------------------
(* The developer's salt.                                                   *)
SaltLeft == {[by |-> None, much |-> "little"]} \cup {[by |-> "long ago", much |-> m] : m \in {"little", "whole"}}

HooksHere == {h1, h2, h3}

-----------------------------------------------------------------------------
(* The writes of a command: one file here, one above, one an expansion     *)
(* names; an expansion that turns out to be two directories.               *)
FileWords  == {<<"..", "g.py">>, <<X, "f.py">>}
PlaceWords == {<<"a">>, <<"..">>, <<X>>}
HeldValues == {<<"a", "b">>}
SaidTexts  == {"t1"}

Shell == INSTANCE ShellWrites WITH
  Files <- FileWords, Places <- PlaceWords, Values <- HeldValues, Texts <- SaidTexts, MaxNested <- 1, MaxCommands <- 3,
  read <- v1, known <- v2, writes <- v3, shell <- v4, disk <- v5, wrote <- v6, outer <- v7,
  depth <- v8, truncated <- v9, commands <- v10, astray <- v11, doubt <- v12

-----------------------------------------------------------------------------
(* Segments of a target and of a glob, with a hidden name among the names. *)
TargetSegments == {<<X>>, <<X, "a">>, <<Star>>, <<Mark>>, <<"a">>, <<".", "a">>, <<Star, "a">>}
RuleSegments   == {Deep, <<Star>>, <<"a">>, <<".", "a">>, <<Mark, "a">>, <<"a", Star>>}

TargetSet == SeqOf(TargetSegments, 2) \ {<<>>}
GlobSet   == SeqOf(RuleSegments, 2) \ {<<>>}
PathSet   == SeqOf({<<"a">>, <<".", "a">>, <<"a", "a">>}, 3) \ {<<>>}

Covered == INSTANCE Shapes WITH
  Targets <- TargetSet, Rules <- GlobSet, Paths <- PathSet, MaxSeen <- 8,
  target <- v1, rule <- v2, seen <- v3, stack <- v4, answer <- v5, capped <- v6

NameLetters == {"a", "b", Star}

Walk == INSTANCE PathMatch WITH
  Letters <- NameLetters, MaxText <- 4, MaxPattern <- 4,
  text <- v1, pattern <- v2, t <- v3, p <- v4, star <- v5, resume <- v6, answer <- v7, steps <- v8

-----------------------------------------------------------------------------
(* Rules over sys, its two sub-modules, and re; r4 is r3 with its wider    *)
(* pattern first.                                                          *)
Sys(rest) == <<<<"sys">>>> \o rest
data == <<"data">>
sql  == <<"sql">>
re   == <<"re">>
ModuleSet == {Sys(<<>>), Sys(<<data>>), Sys(<<sql>>), Sys(<<data, sql>>), <<re>>, <<re, data>>}

Rule(id, mode, covers, forbid, allow) == [id |-> id, mode |-> mode, covers |-> covers, forbid |-> forbid, allow |-> allow]
R1(mode) == Rule("r1", mode, {"d.py", "d.cs", "d.md"}, <<Sys(<<data>>)>>, <<Sys(<<>>)>>)
R2(mode) == Rule("r2", mode, {"d.py", "cfg"}, <<<<Deep, data>>, <<re>>>>, <<>>)
R3(mode) == Rule("r3", mode, {"d.py"}, <<Sys(<<data, sql>>), Sys(<<>>)>>, <<Sys(<<data>>)>>)
R4(mode) == Rule("r4", mode, {"d.py"}, <<Sys(<<>>), Sys(<<data, sql>>)>>, <<Sys(<<data>>)>>)

InOrder ==
  {<<R1("enforce")>>, <<R3("enforce"), R2("observe")>>} \cup {<<R1(one), R2(two)>> : one, two \in {"enforce", "observe"}}
OutOfOrder == {<<R4("enforce")>>}

PythonFiles == {"d.py", "o.py", "a.py", "b.py", "c.py", "p.py"}
CSharpFiles == {"d.cs", "a.cs", "b.cs", "c.cs", "p.cs"}
LanguageOf == [path \in PythonFiles \cup CSharpFiles \cup {"d.md", "cfg", "cfgdir", ".env", ".git"} |->
  IF path \in PythonFiles THEN "python" ELSE IF path \in CSharpFiles THEN "csharp" ELSE None]

Statement(language, module, names) == [language |-> language, module |-> module, names |-> names]
Text(imports, words) == [imports |-> imports, words |-> words]
Unread == Text(<<>>, {"unread"})
Contents ==
  {Text(<<>>, {}),
   Text(<<Statement("python", Sys(<<>>), <<data>>)>>, {"import", "sys", "data"}),
   Text(<<Statement("python", Sys(<<sql>>), <<>>), Statement("python", <<re>>, <<>>)>>, {"import", "sys", "sql", "re"}),
   Text(<<Statement("csharp", Sys(<<data>>), <<>>)>>, {"sys", "data"}),
   Text(<<Statement("python", Sys(<<data>>), <<sql>>)>>, {"import", "sys", "data", "sql"}),
   Text(<<Statement("python", Sys(<<data, sql>>), <<>>)>>, {"import", "sys", "data", "sql"})}

(* Calls: files with their text, edits, commands with one write, commands  *)
(* with words that name a store.                                           *)
NoCall == [credential |-> FALSE, reads |-> FALSE, named |-> {}, pairs |-> <<>>, loose |-> <<>>, edits |-> <<>>,
           writes |-> <<>>, tampers |-> FALSE, truncated |-> FALSE, destroys |-> FALSE, blocked |-> FALSE,
           words |-> <<>>, piped |-> FALSE, listed |-> FALSE, unclear |-> FALSE]
Put(path, content) == [path |-> path, content |-> content]
Change(path, before, after) == [path |-> path, before |-> before, after |-> after]
WriteTo(target, could, content, fragment, deletes) ==
  [target |-> target, shape |-> could # {}, could |-> could, content |-> content, fragment |-> fragment, deletes |-> deletes]
Spoken(says, role) == [says |-> says, role |-> role]
Ran == <<Spoken("run", "source")>>

FileCalls ==
  {[NoCall EXCEPT !.pairs = <<Put(p, c)>>, !.reads = r] : p \in {"d.py", "d.cs", "o.py", "cfg", ".env"}, c \in Contents, r \in BOOLEAN}
  \cup {[NoCall EXCEPT !.named = {p}, !.reads = r] : p \in {"d.py", "cfg", ".env"}, r \in BOOLEAN}
  \cup {[NoCall EXCEPT !.named = n, !.loose = <<c>>] : n \in {{"d.py"}, {"d.py", "o.py"}, {"cfg"}}, c \in Contents}
  \cup UNION {{[NoCall EXCEPT !.edits = <<Change("d.py", b, c)>>, !.pairs = p] :
                 p \in {<<>>, <<Put("d.py", c)>>, <<Put("d.cs", b)>>}} : b, c \in Contents}

Writings ==
  {WriteTo(p, {}, c, FALSE, FALSE) : p \in {"d.py", "d.cs", "o.py", "cfg", "cfgdir"}, c \in Contents \cup {Unread}}
  \cup {WriteTo("d.py", {}, Text(<<>>, w), TRUE, FALSE) : w \in {{"data"}, {"import"}, {"sys"}, {"sql", "re"}}}
  \cup {WriteTo("some", s, c, FALSE, FALSE) : s \in {{"d.py", "o.py"}, {"d.py", "d.cs"}, {"cfg", "o.py"}, {"cfgdir"}}, c \in Contents \cup {Unread}}
  \cup {WriteTo("some", {"d.py", "d.cs"}, Text(<<>>, w), TRUE, FALSE) : w \in {{"data"}, {"import"}}}
  \cup {WriteTo(None, {}, Unread, FALSE, FALSE)}
  \cup {WriteTo(p, {}, Unread, FALSE, TRUE) : p \in {"d.py", "cfg", "cfgdir"}}

WordLists(roles) == UNION {[1..n -> {Spoken(".env", r) : r \in roles}] : n \in 1..3}
OfRepository(role) == <<Spoken(".git", role), Spoken(".env", "matches")>>

CommandCalls ==
  {[NoCall EXCEPT !.words = Ran, !.writes = <<w>>, !.truncated = t] : w \in Writings, t \in BOOLEAN}
  \cup {[NoCall EXCEPT !.words = w, !.piped = p, !.unclear = u] :
          w \in WordLists({"opens", "matches", "prints", "writes", "source"}), p, u \in BOOLEAN}
  \cup {[NoCall EXCEPT !.words = w, !.listed = TRUE] : w \in WordLists({"opens", "matches"}) \cup WordLists({"opens", "prints"})}
  \cup {[NoCall EXCEPT !.words = OfRepository(r), !.listed = l] : r \in {"opens", "matches"}, l \in BOOLEAN}
  \cup {[NoCall EXCEPT !.words = Ran, !.credential = c, !.blocked = b, !.tampers = t, !.destroys = d] : c, b, t, d \in BOOLEAN}

GuardCalls  == FileCalls \cup CommandCalls
TwoReaders  == <<"python", "csharp">>
TheConfig   == {"cfg"}
ItsFolder   == {"cfgdir"}
TheStores   == {".env", ".git"}
TheGit      == {".git"}

Layering == INSTANCE Boundary WITH
  Calls <- GuardCalls, RuleLists <- Rulebooks,
  Language <- LanguageOf, Languages <- TwoReaders, Modules <- ModuleSet,
  Governed <- TheConfig, GovernedTrees <- ItsFolder, Stores <- TheStores, Repository <- TheGit, Short <- {},
  call <- v1, rules <- v2, gate <- v3, findings <- v4, flagged <- v5, observed <- v6

-----------------------------------------------------------------------------
(* The loop gate, over two edits of one file and a poll.                   *)
Edits    == {"edit", "reedit"}
ThePoll  == {"poll"}
Repeated == Edits \cup ThePoll
OneFile  == [c \in Repeated |-> IF c = "poll" THEN None ELSE "file"]

ASSUME LoopsFit == LoopAssumption

-----------------------------------------------------------------------------
(* What the service proposes for a call.  R5 and R6 stand in an adapter's  *)
(* way; the template of b.py does not parse.                               *)
R5(mode) == Rule("r5", mode, {"a.py", "a.cs"}, <<<<re>>>>, <<>>)
R6(mode) == Rule("r6", mode, {"a.py", "c.py"}, <<Sys(<<>>)>>, <<>>)
FixBooks == {<<R1("enforce"), R2("observe")>>, <<R2("enforce"), R5("enforce")>>, <<R3("enforce"), R6("observe")>>,
             <<R2("enforce"), R6("enforce")>>}

AllKeys == {"r1", "r2", "r3", "r5", "r6", "CREDENTIAL", "PROTECTED_PATH", "UNREADABLE_WRITE", "LOOP", "BUDGET", "HALTED_SESSION"}
AskingSet ==
  {[page |-> TRUE, staged |-> s, session |-> x] : s \in {{}, AllKeys}, x \in {"open", "LOOP", "HALTED_SESSION"}}
  \cup {[page |-> FALSE, staged |-> s, session |-> x] :
          s \in {{}, {"r1", "r2"}, {"r3", "PROTECTED_PATH"}, {"UNREADABLE_WRITE"}}, x \in {"open", "BUDGET"}}

infrastructure == <<"infrastructure">>
adapters == <<"adapters">>
UsualLayers == <<infrastructure, adapters>>
PathsOfAdapters == [path \in {"d.py", "d.cs"} |-> [layer \in {data, infrastructure, adapters} |->
  IF path = "d.py" THEN (CASE layer = data -> "a.py" [] layer = infrastructure -> "b.py" [] OTHER -> "c.py")
                   ELSE (CASE layer = data -> "a.cs" [] layer = infrastructure -> "b.cs" [] OTHER -> "c.cs")]]
PathOfPort == [path \in {"d.py", "d.cs"} |-> IF path = "d.py" THEN "p.py" ELSE "p.cs"]
Broke      == {"b.py"}

Py(module, names) == Statement("python", module, names)
DataIn   == <<Py(Sys(<<data>>), <<>>)>>
Several  == {DataIn, <<Py(Sys(<<>>), <<data, sql>>)>>, <<Py(Sys(<<>>), <<>>), Py(Sys(<<data>>), <<sql>>)>>,
             <<Py(<<re>>, <<data>>), Py(Sys(<<data>>), <<>>)>>, <<Statement("csharp", Sys(<<data>>), <<>>)>>}
Coded(imports, words) == Text(imports, words \cup {"code"})

Fixed(one) == [size |-> 1, leak |-> "none", fixable |-> FALSE] @@ one
Edited(path, content, old) == [old |-> old] @@ Put(path, content)
Written(target, could, content, quoted, adds) ==
  [quoted |-> quoted, adds |-> adds] @@ WriteTo(target, could, content, FALSE, FALSE)

ImportCalls ==
  {[Fixed(NoCall) EXCEPT !.pairs = <<Edited(p, Text(i, w), o)>>, !.size = s] :
     p \in {"d.py", "d.cs"}, i \in Several, w \in {{}, {"code"}, {"code", "broken"}, {"code", "tangled"}},
     o \in {<<>>, <<Text(<<>>, {"code"})>>, <<Text(<<>>, {})>>}, s \in {1, 3}}
  \cup {[Fixed(NoCall) EXCEPT !.pairs = <<Edited("d.py", Coded(i, {}), o), Edited(p, Coded(<<>>, {}), <<>>)>>] :
          i \in Several, o \in {<<>>, <<Text(<<>>, {"code"})>>}, p \in {"d.py", "o.py"}}
  \cup {[Fixed(NoCall) EXCEPT !.pairs = <<Edited("d.py", Coded(i, {}), <<Text(<<>>, {"code"})>>), Edited(p, Text(DataIn, {}), <<>>)>>] :
          i \in Several, p \in {"d.py", "d.cs"}}
  \cup {[Fixed(NoCall) EXCEPT !.pairs = <<Edited("d.py", Coded(DataIn, {}), <<>>)>>, !.size = s] : s \in 1..5}
  \cup {[Fixed(NoCall) EXCEPT !.edits = <<Change("d.py", Text(<<>>, {}), Coded(DataIn, {}))>>]}

HeredocCalls ==
  {[Fixed(NoCall) EXCEPT !.words = Ran, !.writes = <<w>>, !.truncated = t] : t \in BOOLEAN,
     w \in {Written("d.py", {}, c, q, a) : c \in {Unread, Coded(DataIn, {})}, q \in {Unread, Coded(DataIn, {}), Coded(<<>>, {})}, a \in BOOLEAN}
           \cup {Written("some", {"d.py", "o.py"}, c, Unread, FALSE) : c \in {Unread, Coded(DataIn, {})}}
           \cup {Written(None, {}, Unread, Unread, FALSE), Written("cfg", {}, Unread, Unread, FALSE)}}
  \cup {[Fixed(NoCall) EXCEPT !.words = Ran,
             !.writes = <<Written("d.py", {}, Coded(DataIn, {}), Unread, FALSE), Written(None, {}, Unread, Unread, FALSE)>>]}

SecretTexts == {Coded(i, {w}) : i \in {<<>>, DataIn}, w \in {"secret", "buried"}}
LeakingCalls ==
  {[Fixed(NoCall) EXCEPT !.pairs = <<Edited(p, c, o)>>, !.credential = TRUE, !.leak = l, !.blocked = b, !.size = s] :
     p \in {"d.py", "d.cs", "cfg"}, c \in SecretTexts \cup {Coded(<<>>, {"secret", "broken"}), Coded(<<>>, {"secret", "term"})},
     o \in {<<>>, <<Text(<<>>, {"code"})>>, <<Text(<<>>, {"secret"})>>}, l \in {"none", "elsewhere"}, b \in {TRUE}, s \in {2, 3}}
  \cup {[Fixed(NoCall) EXCEPT !.words = Ran, !.writes = <<Written("d.py", {}, c, Unread, a)>>, !.credential = TRUE, !.leak = l] :
          c \in SecretTexts, a \in BOOLEAN, l \in {"none", "command", "elsewhere"}}
  \cup {[Fixed(NoCall) EXCEPT !.words = w, !.credential = TRUE, !.leak = l, !.fixable = f, !.destroys = d] :
          w \in {Ran, OfRepository("opens")}, l \in {"command", "elsewhere"}, f, d \in BOOLEAN}

OtherCalls ==
  {[Fixed(NoCall) EXCEPT !.words = w, !.listed = l, !.blocked = b] :
     w \in {OfRepository("opens"), <<Spoken(".env", "opens")>>, <<Spoken(".env", "matches")>>}, l, b \in BOOLEAN}
  \cup {[Fixed(NoCall) EXCEPT !.words = Ran, !.tampers = t, !.destroys = d] : t, d \in BOOLEAN}
  \cup {[Fixed(NoCall) EXCEPT !.pairs = <<Edited(p, Coded(DataIn, {"term"}), <<>>)>>, !.blocked = TRUE] : p \in {"d.py", "o.py", "cfg", ".env"}}

FixCalls == ImportCalls \cup HeredocCalls \cup LeakingCalls \cup OtherCalls

Fix == INSTANCE FixProposer WITH
  Calls <- FixCalls, RuleLists <- FixBooks,
  Language <- LanguageOf, Languages <- TwoReaders, Modules <- ModuleSet,
  Governed <- TheConfig, GovernedTrees <- ItsFolder, Stores <- TheStores, Repository <- TheGit, Short <- {},
  Askings <- AskingSet, DefaultLayers <- UsualLayers, AdapterAt <- PathsOfAdapters, PortAt <- PathOfPort,
  PortModule <- <<<<"ports">>>>, Unparsable <- Broke, Rewrites <- 1, Secrets <- 2, ImportAdvice <- 3, Advice <- 4,
  call <- v1, rules <- v2, gate <- v3, findings <- v4, flagged <- v5, observed <- v6,
  asked <- v7, at <- v8, decided <- v9, kind <- v10, sites <- v11, todo <- v12, outcome <- v13, fix <- v14

-----------------------------------------------------------------------------
(* A workspace w, its checkouts a and b, c inside b, maybe a checkout too,  *)
(* and d, a plain folder of c from which w is out of reach.                *)
Config(project, endpoint, key, include) ==
  [state |-> "read", project |-> project, endpoint |-> endpoint, mode |-> None, key |-> key, include |-> include]

FolderSet == {"w", "a", "b", "c", "d"}
Up == [f \in FolderSet |-> CASE f = "w" -> "top" [] f = "c" -> "b" [] f = "d" -> "c" [] OTHER -> "w"]
OfWorkspace == {NoConfig, Broken(TRUE), Config("p", None, None, {"a"}), Config("bad", "theirs", "key", {"a", "c"})}
OfCheckout  == {NoConfig, Broken(TRUE), Config("q", "theirs", "key", NoList), Config(None, "theirs", "other", {"c"})}
TreeSet ==
  {[f \in FolderSet |->
     [git |-> f \in {"a", "b"} \/ (f = "c" /\ gc) \/ (f = "w" /\ gw),
      config |-> IF f = "w" THEN w ELSE IF f = "b" THEN b ELSE NoConfig]] :
   w \in OfWorkspace, b \in OfCheckout, gc, gw \in BOOLEAN}

Environment(project, endpoint, key, keyIn) ==
  [project |-> project, endpoint |-> endpoint, mode |-> None, dry |-> FALSE, key |-> key, keyFile |-> keyIn]
EnvironmentSet ==
  {Environment(None, None, None, None), Environment("p", "mine", None, "key"), Environment(None, None, "envkey", None),
   [Environment("p", None, None, None) EXCEPT !.dry = TRUE]}

Owner(endpoint, key, trusted) == Config("h", endpoint, key, NoList) @@ [trusted |-> trusted]
HomeSet == {Owner(None, None, {}), Owner("theirs", "key", {}), Owner("mine", "key", {<<"theirs", "key">>}), Owner("bad", "other", {})}

TheKeyFile == {"key"}

AnySettings == CHOOSE s \in TreeSet \X EnvironmentSet \X HomeSet \X FolderSet \X FolderSet : TRUE

-----------------------------------------------------------------------------
(* What an agent may ask for, and how a machine may be set up.             *)
Target(place, deletes, text) == [place |-> place, deletes |-> deletes, text |-> text]
Anywhere == {"source", "left out", "data", "settings", "settings folder", "git config", "agent notes", "agent settings", "outside"}
Asked(kind, targets, terms) ==
  [kind |-> kind, targets |-> targets, terms |-> terms, credential |-> FALSE, disarms |-> FALSE,
   reaches |-> FALSE, place |-> "source", carriesData |-> FALSE]
HookCalls ==
  {Asked(k, <<>>, {}) : k \in {"not an object", "ungoverned", "unknown shape"}}
  \cup {Asked(k, <<Target(p, FALSE, x)>>, ts) : k \in {"write", "edit"}, p \in Anywhere, x \in BOOLEAN, ts \in {{}, {"n"}}}
  \cup {Asked("write", <<Target(p, TRUE, FALSE)>>, {}) : p \in {"settings", "settings folder", "source"}}
  \cup {Asked("write", <<Target("source", FALSE, TRUE), Target(p, FALSE, TRUE)>>, {}) : p \in {"settings", "outside"}}
  \cup {[Asked("write", <<Target("source", FALSE, TRUE)>>, {}) EXCEPT !.credential = TRUE]}
  \cup {[Asked("command", <<>>, {}) EXCEPT !.reaches = r, !.place = p, !.carriesData = d, !.disarms = x] :
          r, d, x \in BOOLEAN, p \in {"source", "left out", "outside"}}

SetUp(project, mode, included, failClosed, faulty, alias) ==
  [project |-> project, mode |-> mode, lists |-> included, failClosed |-> failClosed, faulty |-> faulty, alias |-> alias]
TheMachines == {SetUp(TRUE, m, TRUE, f, FALSE, {}) : m \in {"managed", "observe"}, f \in BOOLEAN}
            \cup {SetUp(TRUE, "enforce", TRUE, FALSE, TRUE, {}), SetUp(FALSE, "managed", FALSE, TRUE, TRUE, {}),
                  SetUp(TRUE, "managed", FALSE, TRUE, FALSE, {"n"})}

ListSet   == {{"n"}, {}, {"unreadable"}}
StageSet  == {"none", "observe", "enforce"}
AroundSet == {{}, {"n"}}
AnyGate   == CHOOSE s \in HookCalls \X TheMachines \X ListSet \X StageSet \X AroundSet : TRUE

ASSUME GateFits == GateAssumption

-----------------------------------------------------------------------------
(* A workspace w with a and b on its list and g left out; s is a folder of *)
(* each, and anything else a name.                                         *)
NameSet     == {"h", "w", "a", "b", "g", "s"}
WorkspaceAt == <<"w">>
HomeAt      == <<"h">>
OnTheList   == {<<"a">>, <<"b">>}
StartSet    == {<<"w", "a">>, <<"w", "a", "s">>, <<"w">>}
PathOf(from, up, down, form) == [from |-> from, up |-> up, down |-> down, form |-> form]
ScopeWords ==
  {PathOf("here", 0, <<"s">>, "plain"), PathOf("here", 1, <<>>, "cut"), PathOf("pwd", 1, <<"b">>, "plain"),
   PathOf("here", 2, <<>>, "joined"), PathOf("here", 1, <<"g">>, "joined"),
   PathOf("top", 0, <<"w", "g">>, "joined"), PathOf("variable", 0, <<"s">>, "plain"), PathOf("variable", 1, <<"s">>, "plain"),
   PathOf("home", 0, <<"s">>, "cut"), PathOf("computed", 0, <<>>, "plain"), PathOf("nothing", 0, <<>>, "plain")}

HeldByVariable == {"s"}

ASSUME PartsFit == ScopeAssumption /\ SettingsFit

-----------------------------------------------------------------------------
Init ==
  /\ part \in Parts
  /\ part # "salt" => file = NoFile
  /\ part # "settings" =>
       /\ tree = AnySettings[1] /\ env = AnySettings[2] /\ home = AnySettings[3]
       /\ agentIn = AnySettings[4] /\ fileIn = AnySettings[5]
  /\ part # "scope" => cwd = WorkspaceAt
  /\ part # "gate" =>
       /\ call = AnyGate[1] /\ machine = AnyGate[2] /\ list = AnyGate[3] /\ stage = AnyGate[4] /\ around = AnyGate[5]
  /\ SaltInit /\ SettingsInit /\ ScopeInit /\ GateInit /\ LoopInit
  /\ \/ part \in {"salt", "settings", "scope", "gate", "loop"} /\ Idle
     \/ part = "shell"    /\ Shell!Init    /\ IdleAfterTwelve
     \/ part = "shape"    /\ Covered!Init    /\ IdleAfterSix
     \/ part = "walk"     /\ Walk!Init     /\ IdleAfterEight
     \/ part = "guard"    /\ Layering!Init    /\ IdleAfterSix
     \/ part = "fix"      /\ Fix!ProposeInit

SaltStep     == part = "salt"     /\ SaltNext      /\ UNCHANGED <<part, settingsVars, scopeVars, gateVars, loopVars, others>>
ScopeStep    == part = "scope"    /\ ScopeNext     /\ UNCHANGED <<part, saltVars, settingsVars, gateVars, loopVars, others>>
LoopStep     == part = "loop"     /\ LoopNext      /\ UNCHANGED <<part, saltVars, settingsVars, scopeVars, gateVars, others>>
ShellStep    == part = "shell"    /\ Shell!Next    /\ UNCHANGED BeyondTwelve
ShapeStep    == part = "shape"    /\ Covered!Next    /\ UNCHANGED BeyondSix
WalkStep     == part = "walk"     /\ Walk!Next     /\ UNCHANGED BeyondEight
GuardStep    == part = "guard"    /\ Layering!Next    /\ UNCHANGED BeyondSix
SettingsStep == part = "settings" /\ SettingsNext  /\ UNCHANGED <<part, saltVars, scopeVars, gateVars, loopVars, others>>
GateStep     == part = "gate"     /\ GateNext      /\ UNCHANGED <<part, saltVars, settingsVars, scopeVars, loopVars, others>>
FixStep      == part = "fix"      /\ Fix!ProposeNext /\ UNCHANGED BeyondAll

Next == SaltStep \/ ShellStep \/ ShapeStep \/ WalkStep \/ GuardStep \/ SettingsStep \/ GateStep \/ LoopStep \/ FixStep \/ ScopeStep

Spec == Init /\ [][Next]_<<part, theirs, others>>

-----------------------------------------------------------------------------
(* The properties of each part, as its module states them; those of the    *)
(* salt, the settings, the scope, the hook's gates and the loop gate       *)
(* (OneIdentityUnlessTorn, SettingsHold, NamesOnlyListed,                  *)
(* NothingPrivateLeaves, UnjudgedAsAsked, NothingForgotten,                *)
(* OnlyRunawaysRefused) are their own.                                     *)
(* Every file a command writes or removes is the target of a reported write. *)
TargetsReported == part = "shell" => Shell!TargetsReported

(* What a write puts in its file is reported, or reported as not readable. *)
ContentHonestUnlessInDoubt == part = "shell" => Shell!ContentHonestUnlessInDoubt

(* A target that could be a file a rule covers is never passed over, and the walk
   over a segment answers what the glob says, in bounded steps. *)
PatternsRight == (part = "shape" => Covered!MeetsWhatItCould) /\ (part = "walk" => Walk!WalkRight)

(* Whatever route brings a forbidden import into a file, a finding names each
   enforced rule it breaks. *)
EveryRouteJudged == part = "guard" => Layering!EveryRouteJudged

(* A rule that watches reports what it would have refused, and changes nothing
   of what the others refuse. *)
WatchingOnlyWatches == part = "guard" => Layering!WatchingOnlyWatches

(* The more specific pattern decides, whatever order the lists are written in. *)
MoreSpecificDecides == part = "guard" => Layering!MoreSpecificDecides

(* What the proposer says refused a call did. *)
KindNamesRefusal == part = "fix" => Fix!KindNamesRefusal

(* The same, but for the questions it asks in its own way. *)
KindNamesWhatItSees == part = "fix" => Fix!KindNamesWhatItSees

(* A checked fix can be sent as it is and loses nothing. *)
CheckedFixHolds == part = "fix" => Fix!CheckedFixHolds
=============================================================================

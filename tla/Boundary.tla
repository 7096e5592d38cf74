-------------------------------- MODULE Boundary --------------------------------
(***************************************************************************)
(* The walk over everything that may be wrong with one tool call           *)
(* (domain/boundary_guard.py, boundary_findings) and the layering rules it *)
(* asks (domain/layering_rules.py).  One action for each gate; the gates   *)
(* are asked in order and each adds what it finds.  At the end the rules   *)
(* that only watch are asked as well (observe_layering).                   *)
(*                                                                         *)
(* A path is a name, and a rule covers a set of them (Globs says how); a   *)
(* module and a pattern are sequences of segments; what the shell reader   *)
(* makes of a command (ShellWrites) is part of the call.                   *)
(***************************************************************************)
EXTENDS Globs, FiniteSets

CONSTANTS
  Calls, RuleLists,
  Language,       \* language_for, a function on the paths; None where no import can be read
  Languages,      \* LANGUAGE_BY_SUFFIX, as the order languages are tried in
  Modules,        \* the modules the paths may come to import
  Governed,       \* the files that decide whether the hooks run
  GovernedTrees,  \* ... and the directories that hold them
  Stores,         \* the paths and words PROTECTED_PATH_PATTERNS catch
  Repository,     \* ... those of them a command may name (COMMAND_PROTECTED_PATTERNS)
  Short           \* the words _pieces leaves out, of fewer than three letters

None   == "none"
Unread == [imports |-> <<>>, words |-> {"unread"}]    \* ShellWrite.content is None
Import == "import"    \* _IMPORT_WORDS

VARIABLES call, rules, gate, findings, flagged, observed

vars == <<call, rules, gate, findings, flagged, observed>>

-----------------------------------------------------------------------------
(* Rules.                                                                  *)

Enforce == "enforce"
Observe == "observe"

Wild(segment) == Range(segment) \cap {Star, Mark} # {}

(* _forbidden_by *)
Catches(pattern, module) ==
  IF \E i \in DOMAIN pattern : Wild(pattern[i]) THEN Covers(pattern, module) ELSE IsPrefix(pattern, module)

Catching(patterns, module) == SelectSeq(patterns, LAMBDA p : Catches(p, module))

(* _specificity: deeper first, wildcards last. *)
Wildcards(pattern) == Cardinality({i \in DOMAIN pattern : Wild(pattern[i])})
Literal(pattern)   == Len(pattern) - Wildcards(pattern)

MoreSpecific(p, q) ==
  \/ Literal(p) > Literal(q)
  \/ Literal(p) = Literal(q) /\ Wildcards(p) < Wildcards(q)

(* _check_modules: of each list the first pattern that catches the module.  *)
Offends(rule, module) ==
  LET forbids == Catching(rule.forbid, module)
      allows  == Catching(rule.allow, module)
  IN  forbids # <<>> /\ ~(allows # <<>> /\ MoreSpecific(Head(allows), Head(forbids)))

Item(rule, kind, module) == [rule |-> rule.id, mode |-> rule.mode, kind |-> kind, module |-> module]

(* One finding for each rule, about the first module that offends it.      *)
CheckModules(modules, applicable) ==
  FlattenSeq([i \in DOMAIN applicable |->
    LET bad == SelectSeq(modules, LAMBDA m : Offends(applicable[i], m))
    IN  IF bad = <<>> THEN <<>> ELSE <<Item(applicable[i], "layering", Head(bad))>>])

RulesFor(path, list) == SelectSeq(list, LAMBDA r : path \in r.covers)

(* declared_imports, then the names taken from each module.                *)
Statements(content, language) == SelectSeq(content.imports, LAMBDA s : s.language = language)

Declared(content, language) ==
  LET read  == Statements(content, language)
      named == FlattenSeq([i \in DOMAIN read |-> [j \in DOMAIN read[i].names |-> Append(read[i].module, read[i].names[j])]])
  IN  [i \in DOMAIN read |-> read[i].module] \o (IF language = "python" THEN named ELSE <<>>)

Imports(path, content) == IF Language[path] = None THEN <<>> ELSE Declared(content, Language[path])

Violations(path, content, list) == CheckModules(Imports(path, content), RulesFor(path, list))

Introduced(path, before, after, list) ==
  LET already == Range(Imports(path, before))
  IN  CheckModules(SelectSeq(Imports(path, after), LAMBDA m : m \notin already), RulesFor(path, list))

-----------------------------------------------------------------------------
(* One write of a command.                                                 *)

Unreadable(list) == [i \in DOMAIN list |-> Item(list[i], "unreadable", <<>>)]

Pieces(patterns) ==
  {word \in UNION {UNION {Range(p[i]) : i \in DOMAIN p} : p \in Range(patterns)} : word \notin Short \cup {Star, Mark}}

(* _fragment_could_import *)
CouldImport(content, rule) ==
  Import \in content.words \/ content.words \cap (Pieces(rule.forbid) \ Pieces(rule.allow)) # {}

(* _suffixes_within *)
LanguagesWithin(write, rule) ==
  SelectSeq(Languages, LAMBDA l : \E path \in write.could \cap rule.covers : Language[path] = l)

(* Slip: a shape is judged as the first kind of file it could be.          *)
PatternFindingsOfFirst(write, rule) ==
  LET within == LanguagesWithin(write, rule)
  IN  IF within = <<>> THEN <<>>
      ELSE IF write.content = Unread THEN Unreadable(<<rule>>)
      ELSE CheckModules(Declared(write.content, Head(within)), <<rule>>)

PatternFindings(write, rule) ==
  LET within == LanguagesWithin(write, rule)
      found(l) == CheckModules(Declared(write.content, l), <<rule>>)
      hits == SelectSeq(within, LAMBDA l : found(l) # <<>> \/ (write.fragment /\ CouldImport(write.content, rule)))
  IN  IF within = <<>> THEN <<>>
      ELSE IF write.content = Unread THEN Unreadable(<<rule>>)
      ELSE IF hits = <<>> THEN <<>>
      ELSE IF found(Head(hits)) # <<>> THEN found(Head(hits)) ELSE Unreadable(<<rule>>)

(* A path by name: as a Write of it would be, then a fragment by what it   *)
(* could complete.                                                         *)
PathFindings(write, list) ==
  LET covering  == RulesFor(write.target, list)
      found     == Violations(write.target, write.content, list)
      completes == SelectSeq(covering, LAMBDA r :
                     /\ write.fragment /\ CouldImport(write.content, r)
                     /\ \A i \in DOMAIN found : found[i].rule # r.id)
  IN  IF Language[write.target] = None THEN <<>>
      ELSE IF write.content = Unread THEN Unreadable(covering)
      ELSE found \o Unreadable(completes)

(* _write_findings, for all rules whatever their mode.                     *)
WriteFindings(write, list) ==
  IF write.shape THEN FlattenSeq([i \in DOMAIN list |-> PatternFindings(write, list[i])])
                 ELSE PathFindings(write, list)

InMode(mode, items) == SelectSeq(items, LAMBDA item : item.mode = mode)
RulesIn(mode, list) == SelectSeq(list, LAMBDA r : r.mode = mode)

Judged(writes) == SelectSeq(writes, LAMBDA w : ~w.deletes)

Gateway(kind) == [rule |-> None, mode |-> Enforce, kind |-> kind, module |-> <<>>]
Once(kind, cond) == IF cond THEN <<Gateway(kind)>> ELSE <<>>

(* shell_findings, the part about the rules: a write whose files are not   *)
(* named is refused while any rule is enforced.                            *)
ShellLayering(list) ==
  LET any  == Once("unreadable", RulesIn(Enforce, list) # <<>>)
      each == Judged(call.writes)
  IN  (IF call.truncated THEN any ELSE <<>>)
      \o FlattenSeq([i \in DOMAIN each |->
           IF each[i].target = None THEN any ELSE InMode(Enforce, WriteFindings(each[i], list))])

(* Slip: what a command does not name is not recorded.                     *)
ShellObservationsNamed(list) ==
  LET each == SelectSeq(Judged(call.writes), LAMBDA w : w.target # None)
  IN  FlattenSeq([i \in DOMAIN each |-> InMode(Observe, WriteFindings(each[i], list))])

(* shell_observations: its mirror for the rules that watch.                *)
ShellObservations(list) ==
  LET watching == Unreadable(RulesIn(Observe, list))
      each     == Judged(call.writes)
  IN  (IF call.truncated THEN watching ELSE <<>>)
      \o FlattenSeq([i \in DOMAIN each |->
           IF each[i].target = None THEN watching ELSE InMode(Observe, WriteFindings(each[i], list))])

-----------------------------------------------------------------------------
(* The words of a command.                                                 *)

Counted(words, roles, word) == Cardinality({i \in DOMAIN words : words[i].says = word /\ words[i].role \in roles})

(* A word only printed is one nobody opens, when no pipe can read it.      *)
Exempting == {"matches"} \cup IF call.piped THEN {} ELSE {"prints", "writes"}

(* not_file_words: in a line, every place of the word has to be one that   *)
(* earned it; in a list the words are passed over one by one.              *)
NotFiles ==
  LET places(w) == {i \in DOMAIN call.words : call.words[i].says = w}
  IN  IF call.unclear \/ call.truncated THEN {}
      ELSE {w \in Stores \ Repository :
              /\ Counted(call.words, Exempting, w) > 0
              /\ Counted(call.words, {"opens"}, w) = 0
              /\ call.listed \/ Counted(call.words, Exempting, w) >= Cardinality(places(w))}

Spelled == {call.words[i].says : i \in DOMAIN call.words} \ NotFiles

-----------------------------------------------------------------------------
Gates == <<"credential", "paths", "governed", "shell", "pairs", "edits", "command", "terms", "watch">>

Init ==
  /\ call \in Calls /\ rules \in RuleLists
  /\ gate = "credential" /\ findings = <<>> /\ flagged = {} /\ observed = <<>>

Runs   == call.words # <<>>
Found(kind, paths) == [i \in DOMAIN paths |-> Gateway(kind)]
Pass(from, to)     == gate = from /\ gate' = to /\ UNCHANGED <<call, rules>>
Adds(found)        == findings' = findings \o found

Credential ==
  /\ Pass("credential", IF call.credential THEN "watch" ELSE "paths")
  /\ Adds(Once("credential", call.credential)) /\ UNCHANGED <<flagged, observed>>

Named == call.named \cup {call.pairs[i].path : i \in DOMAIN call.pairs}

(* 2: every file the call names; the words of a command only when it is    *)
(* sent as a list of them.                                                 *)
StoredPaths == Found("protected", SetToSeq(Stores \cap (Named \cup IF call.listed THEN Spelled ELSE {})))

Paths ==
  /\ Pass("paths", "governed")
  /\ Adds(StoredPaths)
  /\ UNCHANGED <<flagged, observed>>

(* write_pairs: text with no path beside it belongs to the only path there is. *)
Loose == IF call.pairs = <<>> /\ Cardinality(call.named) = 1
         THEN [i \in DOMAIN call.loose |-> [path |-> CHOOSE p \in call.named : TRUE, content |-> call.loose[i]]]
         ELSE <<>>
WritePairs == IF call.pairs # <<>> THEN call.pairs ELSE Loose

(* 2b *)
GovernedTargets ==
  LET pairs   == IF Runs THEN call.pairs ELSE WritePairs
      targets == IF call.reads /\ pairs = <<>> THEN {}
                 ELSE call.named \cup {pairs[i].path : i \in DOMAIN pairs}
  IN  Found("governance", SetToSeq(targets \cap Governed))

Governing ==
  /\ Pass("governed", "shell")
  /\ Adds(GovernedTargets)
  /\ UNCHANGED <<flagged, observed>>

(* 2d *)
Reaches(write) ==
  LET deciding == IF write.deletes THEN Governed \cup GovernedTrees ELSE Governed
  IN  IF write.shape THEN write.could \cap deciding # {} ELSE write.target \in deciding

ShellFindings(list) ==
  Once("tampering", call.tampers) \o Found("governance", SelectSeq(call.writes, Reaches)) \o ShellLayering(list)

Shell ==
  /\ Pass("shell", "pairs")
  /\ Adds(ShellFindings(rules))
  /\ UNCHANGED <<flagged, observed>>

(* 3 *)
PairItems(list) ==
  FlattenSeq([i \in DOMAIN WritePairs |-> Violations(WritePairs[i].path, WritePairs[i].content, list)])

Flag(items) == {<<items[i].rule, items[i].module>> : i \in DOMAIN items}

Pairs ==
  /\ Pass("pairs", "edits")
  /\ LET found == PairItems(rules) IN Adds(InMode(Enforce, found)) /\ flagged' = flagged \cup Flag(found)
  /\ UNCHANGED observed

(* 3b: only what is not flagged already. *)
EditItems(list) ==
  FlattenSeq([i \in DOMAIN call.edits |-> Introduced(call.edits[i].path, call.edits[i].before, call.edits[i].after, list)])

Fresh(items, seen) == SelectSeq(items, LAMBDA item : <<item.rule, item.module>> \notin seen)

Edits ==
  /\ Pass("edits", "command")
  /\ LET found == Fresh(InMode(Enforce, EditItems(rules)), flagged)
     IN  Adds(found) /\ flagged' = flagged \cup Flag(found)
  /\ UNCHANGED observed

(* 4: a word of a list has been judged as a path. *)
WordFindings ==
  IF Runs \/ Named = {}
  THEN Once("destructive", call.destroys) \o Once("store", ~call.listed /\ Spelled \cap (Stores \ Repository) # {})
  ELSE <<>>

Command ==
  /\ Pass("command", "terms")
  /\ Adds(WordFindings)
  /\ UNCHANGED <<flagged, observed>>

(* 5 *)
Terms ==
  /\ Pass("terms", "watch")
  /\ Adds(Once("credential", call.blocked)) /\ UNCHANGED <<flagged, observed>>

(* observe_layering *)
Watched(list) ==
  LET pairs == InMode(Observe, PairItems(list))
  IN  pairs \o Fresh(InMode(Observe, EditItems(list)), Flag(pairs)) \o ShellObservations(list)

Watch ==
  /\ Pass("watch", "done")
  /\ observed' = Watched(rules) /\ UNCHANGED <<findings, flagged>>

Next ==
  Credential \/ Paths \/ Governing \/ Shell \/ Pairs \/ Edits \/ Command \/ Terms \/ Watch

Spec == Init /\ [][Next]_vars

-----------------------------------------------------------------------------
Done == gate = "done"

Ids(items) == {items[i].rule : i \in DOMAIN items}

-----------------------------------------------------------------------------
(* What the call can do, without the walk.                                 *)

(* The most specific pattern of all that catch the module decides.         *)
Forbidden(rule, module) ==
  \E f \in Range(rule.forbid) :
    /\ Catches(f, module)
    /\ \A a \in Range(rule.allow) : Catches(a, module) => ~MoreSpecific(a, f)

(* Lists in which a narrower pattern stands before a wider one.            *)
NarrowFirst(patterns) == \A i, j \in DOMAIN patterns : i < j => ~MoreSpecific(patterns[j], patterns[i])

Holding(path, content) == Range(Imports(path, content))

(* One word of a line that was an import, replaced by one of the text's.   *)
Completes(content, rule, module) ==
  \/ Import \in content.words
  \/ \E before \in Modules, k \in DOMAIN module :
        /\ ~Forbidden(rule, before) /\ Len(before) = Len(module)
        /\ \A j \in DOMAIN module : before[j] = module[j] <=> j # k
        /\ \E word \in content.words \ Short : module[k] = <<word>>

Writes(write, rule, path, module) ==
  /\ ~write.deletes /\ Language[path] # None
  /\ \/ write.target = None
     \/ /\ path \in IF write.shape THEN write.could ELSE {write.target}
        /\ \/ write.content = Unread
           \/ module \in Holding(path, write.content)
           \/ write.fragment /\ rule.allow = <<>> /\ Completes(write.content, rule, module)

Brings(rule, path, module) ==
  \/ \E i \in DOMAIN WritePairs : WritePairs[i].path = path /\ module \in Holding(path, WritePairs[i].content)
  \/ \E i \in DOMAIN call.edits :
        /\ call.edits[i].path = path
        /\ module \in Holding(path, call.edits[i].after) \ Holding(path, call.edits[i].before)
  \/ \E i \in DOMAIN call.writes : Writes(call.writes[i], rule, path, module)
  \/ call.truncated /\ Language[path] # None

Breaks(rule) ==
  \E path \in rule.covers, module \in Modules : Forbidden(rule, module) /\ Brings(rule, path, module)

Blames(items, list) ==
  IF \E i \in DOMAIN items : items[i].rule = None /\ items[i].kind = "unreadable"
  THEN {list[i].id : i \in DOMAIN list} ELSE Ids(items)

(* Whatever route brings a forbidden import into a file, a finding names   *)
(* each enforced rule it breaks: a caller that steps over one, because a   *)
(* project only observes it, still meets the others.                       *)
EveryRouteJudged ==
  Done /\ ~call.credential =>
    \A r \in Range(RulesIn(Enforce, rules)) :
      NarrowFirst(r.forbid) /\ NarrowFirst(r.allow) /\ Breaks(r) => r.id \in Blames(findings, rules)

(* The same whatever order the lists are written in: _check_modules says   *)
(* that the more specific pattern decides.                                 *)
MoreSpecificDecides ==
  Done /\ ~call.credential =>
    \A r \in Range(RulesIn(Enforce, rules)) : Breaks(r) => r.id \in Blames(findings, rules)

(* A rule that watches reports what it would have refused, neither more    *)
(* nor less, and changes nothing of what the others refuse.                *)
Refusing(list) ==
  LET pairs == PairItems(list)
  IN  ShellLayering(list) \o InMode(Enforce, pairs) \o Fresh(InMode(Enforce, EditItems(list)), Flag(pairs))

WatchingOnlyWatches ==
  Done =>
    /\ \A i \in DOMAIN rules : rules[i].mode = Observe =>
         LET as == [rules EXCEPT ![i].mode = Enforce]
         IN  rules[i].id \in Ids(observed) <=> rules[i].id \in Blames(Refusing(as), as)
    /\ Refusing(rules) = Refusing(RulesIn(Enforce, rules))
=============================================================================

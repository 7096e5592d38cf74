------------------------------ MODULE FixProposer ------------------------------
(***************************************************************************)
(* What the service proposes instead of a call it refused                  *)
(* (application/fix_proposer.py, asked by evaluator._suggest_fix).  The    *)
(* guard has walked the call (Boundary); the proposer asks its questions   *)
(* again to say what refused, gathers the writes to repair, moves each     *)
(* forbidden import behind a port or reads each secret from the            *)
(* environment, and judges every write it hands out by the same gates.     *)
(*                                                                         *)
(* A text is its imports and its words; the word "code" says that there is *)
(* more in it than imports.  What a port, an adapter and a lookup look     *)
(* like, and the sentences of advice, are left out.                        *)
(***************************************************************************)
EXTENDS Boundary

CONSTANTS
  Askings,        \* how calls come to be judged: from where, what is staged, how the session stands
  DefaultLayers,  \* the layers every file's adapter may try, after those its rules name
  AdapterAt,      \* AdapterAt[path][layer], the adapter's file; no entry for the layer the file is in
  PortAt,         \* the file of a port declared beside the path
  PortModule,     \* the module an adapter imports its port from
  Unparsable,     \* the files a template does not parse in
  Rewrites, Secrets, ImportAdvice, Advice   \* FIX_..._MAX_CHARS, in the order of their values

VARIABLES
  asked, at,
  decided,    \* what the verdict says: its key, the keys stepped over, whether it refused
  kind,       \* what the proposer finds refused the call
  sites,      \* the writes to repair, and those of them still to do
  todo,
  outcome,    \* what has come of them
  fix

proposer == <<asked, at, decided, kind, sites, todo, outcome, fix>>

CredentialKey == "CREDENTIAL"
ProtectedKey  == "PROTECTED_PATH"
UnreadableKey == "UNREADABLE_WRITE"
SessionKeys   == {"LOOP", "BUDGET", "HALTED_SESSION"}
AdviceKeys    == SessionKeys \cup {ProtectedKey}
FixedKeys     == AdviceKeys \cup {CredentialKey, UnreadableKey, None}

(* finding_key *)
KeyOf(finding) ==
  CASE finding.kind = "credential" -> CredentialKey
    [] finding.kind = "layering"   -> finding.rule
    [] finding.kind = "unreadable" -> UnreadableKey
    [] OTHER                       -> ProtectedKey

(* _DIAGNOSIS_FOR_FINDING *)
KindOf(finding) ==
  CASE finding.kind \in {"protected", "governance", "tampering", "store"} -> "protected_path"
    [] finding.kind = "destructive" -> "destructive_command"
    [] finding.kind = "unreadable"  -> "unreadable_write"
    [] OTHER                        -> finding.kind

-----------------------------------------------------------------------------
NoFix     == [kind |-> None]
Untouched == [ok |-> TRUE, noted |-> FALSE, writes |-> <<>>, advised |-> {}]
InWords   == [Untouched EXCEPT !.ok = FALSE]

Halted == asked.session = "HALTED_SESSION"

ProposeInit ==
  /\ Init /\ asked \in Askings
  /\ at = IF Halted THEN "verdict" ELSE "guard"
  /\ decided = [key |-> None, skipped |-> {}, refused |-> FALSE]
  /\ kind = None /\ sites = <<>> /\ todo = <<>> /\ outcome = Untouched /\ fix = NoFix

Walk ==
  /\ at = "guard" /\ Next
  /\ at' = IF gate' = "done" THEN "verdict" ELSE at
  /\ UNCHANGED <<asked, decided, kind, sites, todo, outcome, fix>>

(* _decided: the first finding no stage lets by, then the session's loop   *)
(* or budget; of an approval, the first that would have refused.           *)
Verdict ==
  /\ at = "verdict"
  /\ LET keys    == [i \in DOMAIN findings |-> KeyOf(findings[i])]
                    \o IF asked.session = "open" THEN <<>> ELSE <<asked.session>>
         stop    == SelectInSeq(keys, LAMBDA k : k \notin asked.staged)
         watched == keys \o [i \in DOMAIN observed |-> observed[i].rule]
     IN  decided' = IF stop # 0 THEN [key |-> keys[stop], skipped |-> Range(SubSeq(keys, 1, stop - 1)), refused |-> TRUE]
                    ELSE [key |-> IF watched = <<>> THEN None ELSE Head(watched), skipped |-> {}, refused |-> FALSE]
  /\ at' = "attach"
  /\ UNCHANGED <<vars, asked, kind, sites, todo, outcome, fix>>

(* fix_max_chars *)
Ceiling ==
  CASE decided.key \in AdviceKeys    -> Advice
    [] decided.key = CredentialKey   -> Secrets
    [] decided.key \notin FixedKeys /\ ~Runs -> ImportAdvice
    [] OTHER                         -> Rewrites

(* _suggest_fix: a refusal has a reader, an observation only on a page.    *)
Attach ==
  /\ at = "attach"
  /\ at' = IF (decided.refused \/ (asked.page /\ decided.key # None)) /\ call.size <= Ceiling THEN "diagnose" ELSE "done"
  /\ UNCHANGED <<vars, asked, decided, kind, sites, todo, outcome, fix>>

(* fix_options *)
MostRewritten == IF decided.key \in AdviceKeys \cup {CredentialKey} THEN Advice ELSE Rewrites

-----------------------------------------------------------------------------
(* _diagnose: the guard's questions again, without gate 3b, and with the   *)
(* repository among the words a command must not name.                     *)
WordsNamed ==
  IF Runs \/ Named = {}
  THEN Once("destructive", call.destroys) \o Once("store", ~call.listed /\ Spelled \cap Stores # {})
  ELSE <<>>

(* Slip: what the project only watches is diagnosed as well.               *)
RefusalsOfAll(skipped) ==
  IF call.credential THEN Once("credential", CredentialKey \notin skipped)
  ELSE StoredPaths \o GovernedTargets \o ShellFindings(rules) \o InMode(Enforce, PairItems(rules)) \o WordsNamed
       \o Once("credential", call.blocked)

Refusals(skipped) ==
  LET asks == StoredPaths \o GovernedTargets \o ShellFindings(rules) \o InMode(Enforce, PairItems(rules)) \o WordsNamed
  IN  IF call.credential THEN Once("credential", CredentialKey \notin skipped)
      ELSE SelectSeq(asks, LAMBDA f : KeyOf(f) \notin skipped) \o Once("credential", call.blocked)

(* _diagnose_observed *)
WatchedKind(items) ==
  IF items = <<>> THEN None
  ELSE IF \E i \in DOMAIN items : items[i].kind = "layering" THEN "layering" ELSE "unreadable_write"

Diagnosed(refusals, items) == IF refusals # <<>> THEN KindOf(Head(refusals)) ELSE WatchedKind(items)

Advises(found) == kind' = found /\ outcome' = InWords /\ at' = "finish" /\ UNCHANGED rules

Diagnose ==
  /\ at = "diagnose"
  /\ \E found \in {Diagnosed(Refusals(decided.skipped), Watched(rules))} :
         \/ decided.key \in SessionKeys /\ Advises(decided.key)
         \/ decided.key \notin SessionKeys /\ found \in {"protected_path", "destructive_command"} /\ Advises(found)
         \/ /\ decided.key \notin SessionKeys /\ found = None
            /\ at' = "done" /\ UNCHANGED <<rules, kind, outcome>>
         \/ /\ decided.key \notin SessionKeys /\ found \in {"credential", "layering", "unreadable_write"}
            /\ kind' = found
            /\ rules' = SelectSeq(rules, LAMBDA r : r.id \notin decided.skipped)
            /\ at' = IF found = "credential" THEN "secrets" ELSE "writes"
            /\ UNCHANGED outcome
  /\ UNCHANGED <<call, gate, findings, flagged, observed, asked, decided, sites, todo, fix>>

-----------------------------------------------------------------------------
(* Every import a rule flags; a name read off a statement goes with it.    *)
StatementsOf(path, content) == Statements(content, Language[path])
Flags(rule, path, module)   == path \in rule.covers /\ Offends(rule, module)

WithoutNames(bad, declared) == {m \in bad : m \in declared \/ ~\E d \in bad \cap declared : IsStrictPrefix(d, m)}

FlaggedModules(path, content) ==
  WithoutNames({m \in Range(Imports(path, content)) : \E r \in Range(rules) : Flags(r, path, m)},
               {s.module : s \in Range(StatementsOf(path, content))})

FlaggedBy(path, module) == Head(SelectSeq(rules, LAMBDA r : Flags(r, path, module))).id

HasSecret(content) == content.words \cap {"secret", "buried"} # {}

Site(path, content, shape, old) == [path |-> path, content |-> content, shape |-> shape, old |-> old, parse |-> FALSE]

(* _tool_sites: the text an edit replaces stays beside it.                 *)
ToolSites ==
  [i \in DOMAIN WritePairs |->
    LET old == IF call.pairs = <<>> THEN <<>> ELSE call.pairs[i].old
    IN  Site(WritePairs[i].path, WritePairs[i].content, IF old = <<>> THEN "write" ELSE "edit", old)]

(* What a write says, a heredoc's text read as it was written included.    *)
TextOf(write) == IF write.content = Unread THEN write.quoted ELSE write.content

Readable(write) == write.target # None /\ ~write.shape /\ ~write.fragment /\ TextOf(write) # Unread

ShellSite(write) == Site(write.target, TextOf(write), IF write.adds THEN "partial" ELSE "write", <<>>)

(* shell_refusal or shell_observations of this write alone.                *)
FlaggedAlone(write) ==
  \/ Reaches(write)
  \/ IF write.target = None THEN rules # <<>> ELSE WriteFindings(write, rules) # <<>>

Gathers(found, noted) ==
  /\ sites' = found /\ todo' = found
  /\ outcome' = [Untouched EXCEPT !.ok = found # <<>>, !.noted = noted]
  /\ at' = IF found = <<>> THEN "finish" ELSE "sites"
  /\ UNCHANGED <<vars, asked, decided, fix>>

GatherToolWrites ==
  /\ at = "writes" /\ ~Runs
  /\ Gathers(SelectSeq(ToolSites, LAMBDA s : FlaggedModules(s.path, s.content) # {}), FALSE)
  /\ UNCHANGED kind

GatherShellWrites ==
  /\ at = "writes" /\ Runs
  /\ LET each == SelectSeq(call.writes, LAMBDA w : ~w.deletes /\ FlaggedAlone(w))
         read == SelectSeq(each, Readable)
     IN  IF call.truncated THEN Gathers(<<>>, FALSE) /\ kind' = "unreadable_write"
         ELSE Gathers([i \in DOMAIN read |-> ShellSite(read[i])], read # each) /\ UNCHANGED kind

-----------------------------------------------------------------------------
(* _check_entry: a write proposed breaks no rule, enforced or watching,    *)
(* carries no secret, passes the guard as a Write or Edit, and parses.     *)
Entry(site, content, parse) == [path |-> site.path, content |-> content, old |-> site.old, parse |-> parse]
NewFile(path, imports)      == [path |-> path, content |-> [imports |-> imports, words |-> {"code"}], old |-> <<>>, parse |-> TRUE]

Texts(entry) == {entry.content} \cup Range(entry.old)

(* Slip: a write is judged by the rules that enforce.                      *)
PassesEnforced(entry) ==
  /\ InMode(Enforce, Violations(entry.path, entry.content, rules)) = <<>>
  /\ \A text \in Texts(entry) : ~HasSecret(text) /\ "term" \notin text.words
  /\ entry.path \notin Stores \cup Governed
  /\ ~(entry.parse /\ entry.path \in Unparsable)

Passes(entry) ==
  /\ Violations(entry.path, entry.content, rules) = <<>>
  /\ \A text \in Texts(entry) : ~HasSecret(text) /\ "term" \notin text.words
  /\ entry.path \notin Stores \cup Governed
  /\ ~(entry.parse /\ entry.path \in Unparsable)

Outcome(ok, writes) == [Untouched EXCEPT !.ok = ok, !.writes = writes]

(* The statement a removal takes: whole by its module, or the names of it. *)
Unwhole(statement, names) == IF names = <<>> THEN <<>> ELSE <<[statement EXCEPT !.names = names]>>

Taken(statement, gone, byName) ==
  IF statement.module \in gone THEN <<statement>>
  ELSE IF byName THEN Unwhole(statement, SelectSeq(statement.names, LAMBDA n : Append(statement.module, n) \in gone))
  ELSE <<>>

Left(statement, gone, byName) ==
  IF statement.module \in gone THEN <<>>
  ELSE IF byName /\ Taken(statement, gone, byName) # <<>>
    THEN Unwhole(statement, SelectSeq(statement.names, LAMBDA n : Append(statement.module, n) \notin gone))
  ELSE <<statement>>

Parses(content)  == "broken" \notin content.words
Tangled(content) == "tangled" \in content.words

(* By name only in Python that parses; nothing out of a tangled statement. *)
ByName(path, content) == Language[path] = "python" /\ Parses(content)

TakenFrom(path, content, gone) ==
  LET read == IF Tangled(content) THEN <<>> ELSE StatementsOf(path, content)
  IN  FlattenSeq([i \in DOMAIN read |-> Taken(read[i], gone, ByName(path, content))])

LeftIn(path, content, gone) ==
  [content EXCEPT !.imports = FlattenSeq([i \in DOMAIN content.imports |->
     IF content.imports[i].language = Language[path] THEN Left(content.imports[i], gone, ByName(path, content))
     ELSE <<content.imports[i]>>])]

Holds(taken, module) == \E s \in Range(taken) : module = s.module \/ module \in {Append(s.module, n) : n \in Range(s.names)}

Removal(path, content, gone) ==
  [gone |-> gone, taken |-> TakenFrom(path, content, gone), left |-> LeftIn(path, content, gone),
   stuck |-> \E m \in gone : ~Holds(TakenFrom(path, content, gone), m)]

AddsNothing(site, left) ==
  \/ site.shape = "edit" /\ left.imports = site.old[1].imports /\ ("code" \in left.words <=> "code" \in site.old[1].words)
  \/ site.shape = "partial" /\ left.imports = <<>> /\ "code" \notin left.words

(* The layers a rule forbids by one word, as **.infrastructure, then the   *)
(* usual ones; an adapter for each of them but the layer the file is in.   *)
LayersNamed(rule) ==
  LET named == SelectSeq(rule.forbid, LAMBDA p : p # <<>> /\ Head(p) = Deep /\ Literal(p) = 1)
  IN  [i \in DOMAIN named |-> SelectSeq(named[i], LAMBDA segment : ~Wild(segment))[1]]

Adapters(path, ids) ==
  LET deciding == SelectSeq(rules, LAMBDA r : r.id \in ids)
      layers   == FlattenSeq([i \in DOMAIN deciding |-> LayersNamed(deciding[i])]) \o DefaultLayers
      other    == SelectSeq(layers, LAMBDA l : l \in DOMAIN AdapterAt[path])
  IN  [i \in DOMAIN other |-> AdapterAt[path][other[i]]]

PortImport(path) ==
  IF Language[path] = "python" THEN <<>> ELSE <<[language |-> Language[path], module |-> PortModule, names |-> <<>>]>>

(* _plan_layers: the file without the imports, the port, and the first     *)
(* adapter the gates let through.                                          *)
WholeFile(group) == Len(group) = 1 /\ group[1].shape = "write"
PortHere(path, group) == WholeFile(group) /\ Language[path] = "python"

Kept(path, group, parts) ==
  LET parse == PortHere(path, group) /\ Parses(group[1].content)
  IN  FlattenSeq([i \in DOMAIN group |->
        IF AddsNothing(group[i], parts[i].left) /\ ~PortHere(path, group) THEN <<>>
        ELSE <<Entry(group[i], parts[i].left, parse)>>])

Ports(path, group) == IF PortHere(path, group) THEN <<>> ELSE <<NewFile(PortAt[path], <<>>)>>

Moved(path, parts) == FlattenSeq([i \in DOMAIN parts |-> parts[i].taken]) \o PortImport(path)
Gone(parts)        == UNION {parts[i].gone : i \in DOMAIN parts}
DecidedBy(path, modules) == {FlaggedBy(path, m) : m \in modules}

Rewritten(domain, places, moved) ==
  IF places = <<>> \/ \E i \in DOMAIN domain : ~Passes(domain[i]) THEN Outcome(FALSE, <<>>)
  ELSE Outcome(TRUE, domain \o <<NewFile(Head(places), moved)>>)

Plan(path, group, parts, moved) ==
  Rewritten(Kept(path, group, parts) \o Ports(path, group),
            SelectSeq(Adapters(path, DecidedBy(path, Gone(parts))), LAMBDA p : Passes(NewFile(p, moved))), moved)

(* _too_large: the first adapter no rule forbids the imports in, in words. *)
Refused(path, modules) == Language[path] # None /\ \E m \in modules, r \in Range(rules) : Flags(r, path, m)

Permitted(path, modules) ==
  SelectSeq(Adapters(path, DecidedBy(path, modules)), LAMBDA p : ~Refused(p, modules))

AdviceOn(path, places) == [InWords EXCEPT !.advised = IF places = <<>> THEN {} ELSE {<<path, Head(places)>>}]

(* _fix_path *)
AsSent(entries) == Outcome(\A i \in DOMAIN entries : Passes(entries[i]), entries)

PathFix(path, group, parts) ==
  IF Gone(parts) = {} THEN AsSent([i \in DOMAIN group |-> Entry(group[i], group[i].content, group[i].parse)])
  ELSE IF call.size > MostRewritten THEN AdviceOn(path, Permitted(path, Gone(parts)))
  ELSE IF \E i \in DOMAIN parts : parts[i].stuck THEN Outcome(FALSE, <<>>)
  ELSE Plan(path, group, parts, Moved(path, parts))

(* _fix_sites, one path at a time.                                         *)
FixPath ==
  /\ at = "sites" /\ todo # <<>>
  /\ \E path \in {Head(todo).path} :
     \E group \in {SelectSeq(todo, LAMBDA s : s.path = path)} :
     \E parts \in {[i \in DOMAIN group |-> Removal(path, group[i].content, FlaggedModules(path, group[i].content))]} :
     \E part \in {PathFix(path, group, parts)} :
       /\ todo' = SelectSeq(todo, LAMBDA s : s.path # path)
       /\ outcome' = [outcome EXCEPT !.ok = @ /\ part.ok, !.writes = @ \o part.writes, !.advised = @ \cup part.advised]
  /\ at' = IF todo' = <<>> THEN "finish" ELSE at
  /\ UNCHANGED <<vars, asked, decided, kind, sites, fix>>

-----------------------------------------------------------------------------
(* _replace_secrets: a lookup where a lookup can stand; a whole Python     *)
(* file reads it through os.                                               *)
Whole(site) == site.shape = "write" /\ Language[site.path] = "python"

Lookups(site) ==
  LET os == IF Whole(site) THEN <<[language |-> "python", module |-> <<<<"os">>>>, names |-> <<>>]>> ELSE <<>>
  IN  [site EXCEPT !.content.words = (@ \ {"secret"}) \cup {"code"}, !.content.imports = os \o @,
                   !.parse = Whole(site) /\ Parses(site.content)]

Replaceable(site) == "buried" \notin site.content.words /\ \A i \in DOMAIN site.old : ~HasSecret(site.old[i])

GathersSecrets(found, stray) ==
  LET fixed == SelectSeq(found, Replaceable)
  IN  Gathers([i \in DOMAIN fixed |-> Lookups(fixed[i])], fixed # found \/ stray) /\ UNCHANGED kind

GatherToolSecrets ==
  /\ at = "secrets" /\ ~Runs
  /\ GathersSecrets(SelectSeq(ToolSites, LAMBDA s : HasSecret(s.content) \/ \E i \in DOMAIN s.old : HasSecret(s.old[i])),
                    call.leak = "elsewhere")

SecretWrites ==
  SelectSeq(call.writes, LAMBDA w : w.target # None /\ ~w.shape /\ ~w.deletes /\ w.content # Unread /\ HasSecret(w.content))

GatherShellSecrets ==
  /\ at = "secrets" /\ Runs /\ SecretWrites # <<>>
  /\ GathersSecrets([i \in DOMAIN SecretWrites |-> ShellSite(SecretWrites[i])], call.leak # "none")

(* _command_credential_fix: the same command reading the secret from the   *)
(* environment, walked by the guard once more.                             *)
RewriteCommand ==
  /\ at = "secrets" /\ Runs /\ SecretWrites = <<>>
  /\ IF call.fixable
     THEN /\ call' = [call EXCEPT !.credential = call.leak = "elsewhere"]
          /\ gate' = "credential" /\ findings' = <<>> /\ flagged' = {} /\ at' = "rewritten"
          /\ UNCHANGED outcome
     ELSE /\ at' = "finish" /\ outcome' = InWords
          /\ UNCHANGED <<call, gate, findings, flagged>>
  /\ UNCHANGED <<rules, observed, asked, decided, kind, sites, todo, fix>>

JudgeRewritten ==
  /\ at = "rewritten"
  /\ IF gate # "watch" THEN Next /\ UNCHANGED <<at, fix>>
     ELSE at' = "done" /\ fix' = [kind |-> kind, validated |-> findings = <<>>, writes |-> <<>>, advised |-> {}] /\ UNCHANGED vars
  /\ UNCHANGED <<asked, decided, kind, sites, todo, outcome>>

-----------------------------------------------------------------------------
(* _assemble: checked only if every write was repaired and passed.         *)
Checked == outcome.ok /\ ~outcome.noted /\ outcome.writes # <<>>

(* _finish: a secret still there withholds the writes; those too long for  *)
(* a verdict are left out.                                                 *)
Finish ==
  /\ at = "finish" /\ at' = "done"
  /\ LET clean == \A i \in DOMAIN outcome.writes : \A text \in Texts(outcome.writes[i]) : ~HasSecret(text)
     IN  \E fits \in BOOLEAN :
           /\ fits \/ outcome.writes # <<>>
           /\ fix' = [kind |-> kind, validated |-> Checked /\ clean,
                      writes |-> IF Checked /\ clean /\ fits THEN outcome.writes ELSE <<>>, advised |-> outcome.advised]
  /\ UNCHANGED <<vars, asked, decided, kind, sites, todo, outcome>>

ProposeNext ==
  \/ Walk \/ Verdict \/ Attach \/ Diagnose
  \/ GatherToolWrites \/ GatherShellWrites \/ FixPath
  \/ GatherToolSecrets \/ GatherShellSecrets \/ RewriteCommand \/ JudgeRewritten \/ Finish

ProposeSpec == ProposeInit /\ [][ProposeNext]_<<vars, proposer>>

-----------------------------------------------------------------------------
KindsUnder(key) ==
  CASE key \in SessionKeys   -> {key}
    [] key = CredentialKey   -> {"credential"}
    [] key = ProtectedKey    -> {"protected_path", "destructive_command"}
    [] key = UnreadableKey   -> {"unreadable_write"}
    [] OTHER                 -> {"layering", "unreadable_write"}

(* _diagnose says of its order that the kind always names what actually    *)
(* refused the call.                                                       *)
KindNamesRefusal == at = "done" /\ fix # NoFix => fix.kind \in KindsUnder(decided.key)

(* It does unless an import was found in an edit's before and after, a     *)
(* word of the command is the repository, or the command was cut short.    *)
KindNamesWhatItSees ==
  call.edits = <<>> /\ Spelled \cap Repository = {} /\ ~call.truncated => KindNamesRefusal

(* What a checked fix hands out can be sent: no write goes to a protected  *)
(* file or holds a secret or a blocked term, none brings an import any     *)
(* rule in question forbids, enforced or watching, and together they lose  *)
(* no import of the writes they replace.  Nothing unchecked is handed out, *)
(* and a place named in words is one the imports may move to.              *)
Lasting(site) == Holding(site.path, site.content) \ UNION {Holding(site.path, text) : text \in Range(site.old)}

CheckedFixHolds ==
  at = "done" /\ fix # NoFix =>
    /\ fix.validated \/ fix.writes = <<>>
    /\ \A w \in Range(fix.writes) :
         /\ w.path \notin Stores \cup Governed
         /\ \A text \in Texts(w) : text.words \cap {"secret", "buried", "term"} = {}
         /\ \A r \in Range(rules), m \in Holding(w.path, w.content) : w.path \in r.covers => ~Forbidden(r, m)
    /\ fix.writes # <<>> =>
         \A s \in Range(sites) : Lasting(s) \subseteq UNION {Holding(w.path, w.content) : w \in Range(fix.writes)}
    /\ \A <<path, place>> \in fix.advised, s \in Range(sites), r \in Range(rules), m \in Modules :
         (s.path = path /\ m \in FlaggedModules(path, s.content) /\ place \in r.covers) => ~Forbidden(r, m)
=============================================================================

------------------------------- MODULE Installer -------------------------------
(***************************************************************************)
(* What an install puts in front of the agents of a folder and a           *)
(* disconnect takes out again (tools/threefold_install.py): the files of   *)
(* each folder, the git side its checkouts share, the shared copies, the   *)
(* record an uninstall works from and the index of installs.               *)
(*                                                                         *)
(* A command reads everything, plans its steps and carries them out one by *)
(* one; it may be stopped between any two, or in the middle of a write.    *)
(* People and agents edit the files at any time.  One command runs at a    *)
(* time.  A file is the set of what its lines say; its layout is left out. *)
(***************************************************************************)
EXTENDS Integers

CONSTANTS
  Folders,
  Checkouts,   \* the folders that are checkouts of one repository; the others are workspaces
  Agents,      \* the agents of this machine
  Found,       \* what may be there before: the files, those git tracks, the pre-commit
               \*   hook, and whether core.hooksPath is set
  Requests,    \* what connect may be asked for
  MaxCommands, \* BOUND: commands run
  MaxUpsets    \* BOUND: edits by hand, commands stopped, and deployments of the stack

SettingsAgents == {"claude-code", "codex", "antigravity"}
Modes          == {"managed", "observe", "enforce"}

ASSUME InstallerAssumption ==
  /\ Checkouts \subseteq Folders
  /\ Agents \subseteq SettingsAgents \cup {"muse"}
  /\ Found \subseteq [files : SUBSET ((Agents \cup {"config", "exclude"}) \ {"muse"}),
                      hook  : {"none", "own"}, tracked : SUBSET Agents, hooksPath : BOOLEAN]
  /\ Requests \subseteq [form    : {"connect", "repo"},
                         agents  : SUBSET Agents,
                         mode    : Modes \cup {"kept"},
                         include : BOOLEAN,
                         python  : STRING]
  /\ \A r \in Requests : r.agents # {} /\ (r.form = "repo" => r.mode # "kept")
  /\ MaxCommands \in Nat /\ MaxUpsets \in Nat

Names == {"config"} \cup Agents \cup {"exclude"}

Git == "git"
Key(f, n) == IF n = "exclude" THEN <<Git, n>> ELSE <<f, n>>
Keys == (Folders \X (Names \ {"exclude"})) \cup {<<Git, "exclude">>}

-----------------------------------------------------------------------------
(* What a file says.                                                       *)
Text(lines) == [there |-> TRUE, says |-> lines]
NoFile      == [there |-> FALSE, says |-> {}]

Own      == <<"own">>      \* what was there before
Hand     == <<"hand">>     \* what was added by hand since
Include  == <<"include">>  \* the list of what may be sent
Marker   == <<"marker">>
Unread   == <<"unread">>   \* the bytes are no text, or no JSON object
Mode(m)            == <<"mode", m>>
HookLine(n, py)    == <<"hook", n, py>>
Plugin(v)          == <<"plugin", v>>
Listed(n)          == <<"listed", n>>

IsHook(line)   == line[1] = "hook"
IsPlugin(line) == line[1] = "plugin"
Readable(file) == Unread \notin file.says

NoFiles == [n \in Names |-> NoFile]

(* The install record.  NoFile stands for no original and no digest.       *)
NoRecord ==
  [there |-> FALSE, made |-> {}, entries |-> {}, lines |-> {}, muse |-> FALSE,
   originals |-> NoFiles, installed |-> NoFiles]

VARIABLES
  disk,        \* [Keys -> file]
  hook,        \* the pre-commit hook: "none", "own", "ours" or, put there by hand, "hand"
  chained,     \* the hook kept beside it
  record,      \* [Folders -> record]
  index,       \* the folders the index lists
  registered,  \* the folders for which Muse runs the plugin
  copies,      \* the version of each shared copy
  served,      \* the version the stack serves
  job,         \* the command under way
  commands, upsets,
  last,        \* HISTORY: per folder, the last command that ended, and whether anything
               \*   has happened to the folder since
  before,      \* what was there before; what git tracks, and its configuration, stay so
  spoilt       \* HISTORY: what has been edited, stopped or shared since then

system == <<disk, hook, chained, record, index, registered, copies>>
counts == <<commands, upsets>>
past   == <<last, before, spoilt>>
vars   == <<system, served, job, counts, past>>

Copies == {"hook copy", "engine copy"}

(* The steps of each command, in their order: files by their names, and    *)
(* the agents' settings in whichever order they were asked for.            *)
InstallOrder ==
  <<{"hook copy"}, {"engine copy"}, {"config"}, SettingsAgents, {"muse"}, {"register"},
    {"chain"}, {"hook"}, {"exclude"}, {"record"}, {"index"}>>

UninstallOrder ==
  <<SettingsAgents, {"unregister"}, {"muse"}, {"config"}, {"unhook"}, {"exclude"}, {"unrecord"}, {"unindex"}>>

NoRequest == [form |-> "none", agents |-> {}, mode |-> "kept", include |-> FALSE, python |-> ""]

(* A command: what it has read, the steps left of its plan with what its   *)
(* files will hold and the record it will keep, and what was edited since. *)
Idle == [at |-> "idle", folder |-> Git, request |-> NoRequest, found |-> NoFile, version |-> 0,
         steps |-> {}, writes |-> NoFiles, keeps |-> NoRecord, raced |-> {}]

Init ==
  /\ \E b \in Found :
       /\ disk = [k \in Keys |-> IF k[2] \notin b.files THEN NoFile
                                 ELSE IF k[2] = "config" THEN Text({Own, Include})
                                 ELSE Text({Own})]
       /\ hook = b.hook
       /\ before = [disk |-> disk, hook |-> hook, tracked |-> b.tracked, hooksPath |-> b.hooksPath]
  /\ chained = "none"
  /\ record = [f \in Folders |-> NoRecord]
  /\ index = {} /\ registered = {}
  /\ copies = [c \in Copies |-> 0] /\ served = 1
  /\ job = Idle
  /\ commands = 0 /\ upsets = 0
  /\ last = [f \in Folders |-> [did |-> "nothing", request |-> NoRequest]]
  /\ spoilt = {}

-----------------------------------------------------------------------------
(* The plan of an install.                                                 *)

IsTracked(f, n) == f \in Checkouts /\ n \in before.tracked

ModeOf(r, found) ==
  IF r.mode # "kept" THEN r.mode
  ELSE IF \E m \in Modes : Mode(m) \in found.says
       THEN CHOOSE m \in Modes : Mode(m) \in found.says
       ELSE "managed"

KeepsInclude(r, found) == r.include \/ (r.form = "connect" /\ Include \in found.says)

ConfigText(r, found) ==
  Text({Mode(ModeOf(r, found))} \cup (IF KeepsInclude(r, found) THEN {Include} ELSE {}))

Present(f, n, r) == HookLine(n, r.python) \in disk[<<f, n>>].says

Settings(f, n, r) == Text(disk[<<f, n>>].says \cup {HookLine(n, r.python)})

(* The files an install changes, but for the exclude list, and what each   *)
(* holds then.                                                             *)
Data(f, r, n) ==
  CASE n = "config" -> ConfigText(r, job.found)
    [] n = "muse"   -> Text({Plugin(job.version)})
    [] OTHER        -> Settings(f, n, r)

Wanted(f, r) ==
  {n \in {"config"} \cup r.agents :
     ~IsTracked(f, n) /\ IF n \in SettingsAgents THEN ~Present(f, n, r) ELSE disk[<<f, n>>] # Data(f, r, n)}

(* The files git must be told to overlook: what is written, and what an    *)
(* earlier install wrote.                                                  *)
Written(f, r) ==
  Wanted(f, r)
  \cup (IF IsTracked(f, "config") THEN {} ELSE {"config"})
  \cup {n \in (r.agents \cap SettingsAgents) : \E e \in record[f].entries : e[2] = n}
  \cup (IF "muse" \in r.agents /\ ~IsTracked(f, "muse")
           /\ (record[f].muse \/ record[f].installed["muse"].there)
        THEN {"muse"} ELSE {})

Missing(f, r) == {Listed(n) : n \in Written(f, r)} \ disk[<<Git, "exclude">>].says

Changed(f, r) == Wanted(f, r) \cup (IF f \in Checkouts /\ Missing(f, r) # {} THEN {"exclude"} ELSE {})

Excluding(f, r) == Text(disk[<<Git, "exclude">>].says \cup Missing(f, r) \cup {Marker})

With(f, r, n) == IF n = "exclude" THEN Excluding(f, r) ELSE Data(f, r, n)

(* Slip: the bytes kept are those of the latest install.                   *)
OriginalAlways(old, n, found) == IF found.there THEN found ELSE old.originals[n]

(* _planned_write: the bytes from before the first install touched it.     *)
Original(old, n, found) ==
  IF found.there /\ ~old.originals[n].there /\ n \notin old.made
  THEN found ELSE old.originals[n]

(* Slip: only the entries of the latest install are remembered.            *)
LatestEntries(old, new) == new

Entries(old, new) == old.entries \cup new

Registers(f, r) == "muse" \in r.agents /\ ~IsTracked(f, "muse")

Recorded(f, r) ==
  LET old == record[f]
      changed == Changed(f, r) IN
  [there     |-> TRUE,
   made      |-> old.made \cup {n \in changed : ~disk[Key(f, n)].there},
   entries   |-> Entries(old, {HookLine(n, r.python) : n \in changed \cap SettingsAgents}),
   lines     |-> old.lines \cup (IF "exclude" \in changed
                                 THEN Excluding(f, r).says \ disk[<<Git, "exclude">>].says ELSE {}),
   muse      |-> old.muse \/ Registers(f, r),
   originals |-> [n \in Names |-> IF n \in changed THEN Original(old, n, disk[Key(f, n)])
                                  ELSE old.originals[n]],
   installed |-> [n \in Names |-> IF n \in changed THEN With(f, r, n) ELSE old.installed[n]]]

Optional(yes, step) == IF yes THEN {step} ELSE {}

(* pre_commit_step: one of ours is left as it is.                          *)
Hooks(f) == f \in Checkouts /\ ~before.hooksPath /\ hook # "ours"

HookSteps(f) == IF Hooks(f) THEN {"hook"} \cup Optional(hook # "none", "chain") ELSE {}

InstallSteps(f, r) ==
  {c \in Copies : copies[c] # job.version} \cup Changed(f, r) \cup HookSteps(f)
  \cup {"record"} \cup Optional(Registers(f, r), "register") \cup Optional(f \notin index, "index")

(* A file the install would merge into is read first, and one nobody can   *)
(* read stops the command before anything is written.                      *)
Stopping(f, r, found) ==
  \/ r.form = "connect" /\ ~Readable(found)
  \/ \E n \in r.agents \cap SettingsAgents : ~IsTracked(f, n) /\ ~Readable(disk[<<f, n>>])

-----------------------------------------------------------------------------
(* The plan of an uninstall.                                               *)

Unchanged(rec, n, file) == file.there /\ rec.installed[n] = file

(* Slip: the old bytes go back whatever the file has become.               *)
RestorableAlways(rec, n, file) == file.there /\ rec.originals[n].there

Restorable(rec, n, file) ==
  /\ file.there /\ rec.originals[n].there
  /\ rec.installed[n].there => Unchanged(rec, n, file)

Created(rec, n, file) == n \in rec.made /\ Unchanged(rec, n, file)

OursIn(rec, n, file) ==
  IF rec.there THEN {e \in rec.entries : e[2] = n} \cap file.says
               ELSE {line \in file.says : IsHook(line)}

(* One agent's settings: put back, deleted, or less our entry.             *)
WithoutSettings(rec, n, file) ==
  LET left == file.says \ OursIn(rec, n, file) IN
  IF ~file.there \/ (rec.there /\ \A e \in rec.entries : e[2] # n) THEN file
  ELSE IF Restorable(rec, n, file) THEN rec.originals[n]
  ELSE IF Created(rec, n, file) THEN NoFile
  ELSE IF ~Readable(file) \/ OursIn(rec, n, file) = {} THEN file
  ELSE IF n \in rec.made /\ left = {} THEN NoFile
  ELSE Text(left)

WithoutMuse(rec, file) ==
  IF ~file.there THEN file
  ELSE IF Restorable(rec, "muse", file) THEN rec.originals["muse"]
  ELSE IF Created(rec, "muse", file) THEN NoFile
  ELSE IF ~rec.there /\ \E line \in file.says : IsPlugin(line) THEN NoFile
  ELSE file

WithoutConfig(rec, file) ==
  IF ~file.there THEN file
  ELSE IF Restorable(rec, "config", file) THEN rec.originals["config"]
  ELSE IF "config" \in rec.made THEN NoFile
  ELSE file

LinesOf(rec, file) ==
  IF rec.there THEN rec.lines
  ELSE IF Marker \in file.says THEN {Marker} \cup {Listed(n) : n \in Names \ {"exclude"}}
  ELSE {}

WithoutLines(rec, file) ==
  IF ~file.there THEN file
  ELSE IF Restorable(rec, "exclude", file) THEN rec.originals["exclude"]
  ELSE IF Created(rec, "exclude", file) THEN NoFile
  ELSE Text(file.says \ LinesOf(rec, file))

UnregistersMuse(rec, file) ==
  IF rec.there
  THEN rec.muse \/ rec.installed["muse"].there \/ rec.originals["muse"].there \/ "muse" \in rec.made
  ELSE \E line \in file.says : IsPlugin(line)

Without(f, n) ==
  LET file == disk[Key(f, n)] IN
  CASE n = "config"  -> WithoutConfig(record[f], file)
    [] n = "muse"    -> WithoutMuse(record[f], file)
    [] n = "exclude" -> WithoutLines(record[f], file)
    [] OTHER         -> WithoutSettings(record[f], n, file)

(* Slip: the hook goes with the first checkout that disconnects.           *)
NoOthers(f) == TRUE

(* The git side goes with the last connected checkout.                     *)
LastCheckout(f) == \A o \in Checkouts \ {f} : ~record[o].there

UninstallSteps(f) ==
  {n \in Names : Without(f, n) # disk[Key(f, n)] /\ (n = "exclude" => f \in Checkouts /\ LastCheckout(f))}
  \cup Optional("muse" \in Agents /\ UnregistersMuse(record[f], disk[<<f, "muse">>]), "unregister")
  \cup Optional(f \in Checkouts /\ LastCheckout(f) /\ hook = "ours", "unhook")
  \cup Optional(record[f].there, "unrecord") \cup Optional(f \in index, "unindex")

-----------------------------------------------------------------------------
(* Commands.                                                               *)

Begin(f, phase, r, steps, writes) ==
  /\ job = Idle /\ commands < MaxCommands
  /\ commands' = commands + 1
  /\ job' = [at |-> phase, folder |-> f, request |-> r, found |-> disk[<<f, "config">>],
             version |-> served, steps |-> steps, writes |-> writes, keeps |-> NoRecord, raced |-> {}]
  /\ UNCHANGED <<system, served, upsets, before>>

(* connect, and the older form: read what is configured, and ask the stack *)
(* for the manifest of the version it serves.                              *)
Connect(f, r) ==
  /\ Begin(f, "fetch", r, {}, NoFiles)
  /\ spoilt' = spoilt \cup {<<"joined", f, "">>}
  /\ UNCHANGED last

(* fetch_bundle: the bundle must be the one of the manifest.  Then          *)
(* plan_install.                                                           *)
PlanInstall ==
  /\ job.at = "fetch"
  /\ LET f == job.folder
         r == job.request IN
     IF served # job.version \/ Stopping(f, r, job.found)
     THEN job' = Idle /\ UNCHANGED last
     ELSE /\ job' = [job EXCEPT !.at = "install", !.steps = InstallSteps(f, r),
                                !.writes = [n \in Names |-> With(f, r, n)], !.keeps = Recorded(f, r)]
          /\ last' = [last EXCEPT ![f].did = "changing"]
  /\ UNCHANGED <<system, served, counts, before, spoilt>>

Disconnect(f) ==
  /\ Begin(f, "uninstall", NoRequest, UninstallSteps(f), [n \in Names |-> Without(f, n)])
  /\ last' = [last EXCEPT ![f].did = "changing"]
  /\ UNCHANGED spoilt

Working == job.at \in {"install", "uninstall"}

(* Plan.run: the next step.                                                *)
IsNext(step) ==
  LET order == IF job.at = "install" THEN InstallOrder ELSE UninstallOrder IN
    \E i \in DOMAIN order :
      step \in order[i] \cap job.steps /\ \A j \in 1..(i - 1) : order[j] \cap job.steps = {}

(* Deleting what somebody deleted first ends the command with an error.    *)
Fails(n) == n \in Names /\ ~job.writes[n].there /\ ~disk[Key(job.folder, n)].there

Writes(n) ==
  /\ n \in Names
  /\ disk' = [disk EXCEPT ![Key(job.folder, n)] = job.writes[n]]
  /\ UNCHANGED <<hook, chained, record, index, registered, copies>>

CopiesOne(c) ==
  /\ c \in Copies
  /\ copies' = [copies EXCEPT ![c] = job.version]
  /\ UNCHANGED <<disk, hook, chained, record, index, registered>>

(* The muse command may not run cleanly, and then a note says so.          *)
Registration(step) ==
  /\ \/ step = "register" /\ registered' \in {registered, registered \cup {job.folder}}
     \/ step = "unregister" /\ registered' \in {registered, registered \ {job.folder}}
  /\ UNCHANGED <<disk, hook, chained, record, index, copies>>

HookFiles(step) ==
  /\ \/ step = "chain" /\ chained' = hook /\ hook' = "none"
     \/ step = "hook" /\ hook' = "ours" /\ UNCHANGED chained
     \/ step = "unhook" /\ hook' = chained /\ chained' = "none"
  /\ UNCHANGED <<disk, record, index, registered, copies>>

Records(step) ==
  /\ \/ step = "record" /\ record' = [record EXCEPT ![job.folder] = job.keeps]
     \/ step = "unrecord" /\ record' = [record EXCEPT ![job.folder] = NoRecord]
  /\ UNCHANGED <<disk, hook, chained, index, registered, copies>>

Indexes(step) ==
  /\ \/ step = "index" /\ index' = index \cup {job.folder}
     \/ step = "unindex" /\ index' = index \ {job.folder}
  /\ UNCHANGED <<disk, hook, chained, record, registered, copies>>

Does(step) ==
  Writes(step) \/ CopiesOne(step) \/ Registration(step) \/ HookFiles(step) \/ Records(step) \/ Indexes(step)

Step ==
  /\ Working
  /\ \E step \in job.steps :
       /\ IsNext(step) /\ ~Fails(step) /\ Does(step)
       /\ job' = [job EXCEPT !.steps = @ \ {step}]
  /\ UNCHANGED <<served, counts, past>>

Finish ==
  /\ Working /\ job.steps = {}
  /\ job' = Idle
  /\ last' = [last EXCEPT ![job.folder] =
                [did |-> IF @.did # "changing" THEN @.did
                         ELSE IF job.at = "install" THEN "connected" ELSE "disconnected",
                 request |-> job.request]]
  /\ UNCHANGED <<system, served, counts, before, spoilt>>

Abandon ==
  /\ job' = Idle
  /\ last' = [last EXCEPT ![job.folder].did = "stopped"]
  /\ spoilt' = spoilt \cup {<<"stopped", job.folder, "">>}
  /\ UNCHANGED <<hook, chained, record, index, registered, copies, served, commands, before>>

Fail ==
  /\ Working /\ \E n \in job.steps : IsNext(n) /\ Fails(n)
  /\ Abandon /\ UNCHANGED <<disk, upsets>>

(* A command interrupted, or a disk that is full: a file being written is  *)
(* emptied first.  The exclude list is written in one piece here.          *)
Torn(n) ==
  /\ n \in Names \ {"exclude"} /\ job.writes[n].there
  /\ \E torn \in {Text({}), Text({Unread})} :
       disk' = [disk EXCEPT ![Key(job.folder, n)] = torn]

Stop ==
  /\ Working /\ upsets < MaxUpsets
  /\ upsets' = upsets + 1
  /\ \E step \in job.steps : IsNext(step) /\ (UNCHANGED disk \/ Torn(step))
  /\ Abandon

-----------------------------------------------------------------------------
(* The others: whoever edits the files, and the stack.                     *)

Touches(place, name) ==
  /\ upsets < MaxUpsets /\ upsets' = upsets + 1
  /\ spoilt' = spoilt \cup {<<"edited", place, name>>}
  /\ job' = IF job = Idle THEN job ELSE [job EXCEPT !.raced = @ \cup {<<place, name>>}]
  /\ last' = [f \in Folders |->
                IF last[f].did # "nothing" /\ (f = place \/ (place = Git /\ f \in Checkouts))
                THEN [last[f] EXCEPT !.did = "edited"] ELSE last[f]]
  /\ UNCHANGED <<served, commands, before, chained, record, index, registered, copies>>

Edited(n, file) ==
  {Text(file.says \cup {Hand}), Text({Unread}), NoFile,
   Text({line \in file.says : ~IsHook(line)})}

Edit(f, n) ==
  /\ \E file \in Edited(n, disk[Key(f, n)]) \ {disk[Key(f, n)]} :
       disk' = [disk EXCEPT ![Key(f, n)] = file]
  /\ Touches(Key(f, n)[1], n) /\ UNCHANGED hook

EditHook ==
  /\ hook # "hand" /\ hook' = "hand"
  /\ Touches(Git, "hook") /\ UNCHANGED disk

Deploy ==
  /\ upsets < MaxUpsets /\ upsets' = upsets + 1
  /\ served' = served + 1
  /\ UNCHANGED <<system, job, commands, past>>

Next ==
  \/ \E f \in Folders : Disconnect(f) \/ \E r \in Requests : Connect(f, r)
  \/ PlanInstall \/ Step \/ Finish \/ Fail \/ Stop
  \/ \E f \in Folders, n \in Names : Edit(f, n)
  \/ EditHook \/ Deploy

Spec == Init /\ [][Next]_vars

-----------------------------------------------------------------------------
(* What was there before the first install: each file of the folder, and   *)
(* the git side when no other checkout ever shared it.                     *)
Restored(f) ==
  /\ \A n \in Names \ {"exclude"} :
       <<"edited", f, n>> \notin spoilt => disk[<<f, n>>] = before.disk[<<f, n>>]
  /\ (f \in Checkouts /\ \A o \in Checkouts \ {f} : <<"joined", o, "">> \notin spoilt) =>
       /\ <<"edited", Git, "exclude">> \notin spoilt =>
            disk[<<Git, "exclude">>] = before.disk[<<Git, "exclude">>]
       /\ <<"edited", Git, "hook">> \notin spoilt => hook = before.hook /\ chained = "none"

(* No settings file an agent can read runs the hook.                       *)
Unhooked(f) ==
  /\ \A n \in Names \cap SettingsAgents : \A line \in disk[<<f, n>>].says : ~IsHook(line)
  /\ ~record[f].there /\ f \notin index

(* "Disconnected" means it, when no command was stopped in that folder:    *)
(* whatever sequence of installs went before, and whichever agents were    *)
(* asked for in them, what was there before the first is there again       *)
(* (uninstall: "removes exactly what an install added"), and nothing there *)
(* runs the hook any more, in files edited since as well (its loop over    *)
(* every agent's file).                                                    *)
DisconnectHolds ==
  \A f \in Folders :
    last[f].did = "disconnected" /\ <<"stopped", f, "">> \notin spoilt => Restored(f) /\ Unhooked(f)

(* Once connected, and whatever was stopped before that, every agent asked *)
(* for runs the hook or has the plugin, the shared copies they run are     *)
(* there, a commit is checked, the record and the index know, and git      *)
(* overlooks what the record says was created for them; checkouts that     *)
(* disconnect change none of it (git_side_uninstall).                      *)
Governed(f, r) ==
  /\ \A c \in Copies : copies[c] > 0
  /\ "muse" \in r.agents /\ ~IsTracked(f, "muse") => disk[<<f, "muse">>].there
  /\ \A n \in (r.agents \cap SettingsAgents) : ~IsTracked(f, n) => Present(f, n, r)
  /\ f \in Checkouts /\ ~before.hooksPath => hook = "ours"
  /\ f \in Checkouts => \A n \in record[f].made \cap ({"config"} \cup r.agents) :
                          Listed(n) \in disk[<<Git, "exclude">>].says
  /\ record[f].there /\ f \in index

ConnectHolds == \A f \in Folders : last[f].did = "connected" => Governed(f, last[f].request)

(* What an install shares with others it keeps for them.                   *)

(* A line written by hand while no command was at work stays, unless a     *)
(* later install wrote the file, and the line with it.                     *)
Merged(k)   == k[2] \in SettingsAgents \cup {"exclude"}
Digested(k) == Hand \in record[job.folder].installed[k[2]].says
KeepsHand(k) ==
  Merged(k) /\ ~Digested(k) /\ Hand \in disk[k].says /\ k \notin job.raced => Hand \in disk'[k].says

(* A hook that was there before is in its place or beside ours, as long as *)
(* nobody puts another over it.                                            *)
KeepsOwnHook ==
  <<"edited", Git, "hook">> \notin spoilt /\ "own" \in {hook, chained} => "own" \in {hook', chained'}

(* Connecting again does not drop the list of what may be sent.            *)
ConnectsAgain == job.at = "install" /\ job.request.form = "connect"
KeepsList(f) ==
  ConnectsAgain /\ Include \in disk[<<f, "config">>].says /\ <<f, "config">> \notin job.raced
    => Include \in disk'[<<f, "config">>].says

(* No step of any command, of whatever folder, overwrites what is not the  *)
(* install's own: a hand's lines, the hook of before, the list of what may *)
(* be sent (uninstall: "one changed by hand since keeps the change").      *)
OthersKept ==
  [][Step => KeepsOwnHook /\ (\A k \in Keys : KeepsHand(k)) /\ (\A f \in Folders : KeepsList(f))]_vars
=============================================================================

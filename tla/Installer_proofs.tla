--------------------------- MODULE Installer_proofs ---------------------------
(***************************************************************************)
(* What an install and a disconnect promise the folders of a machine, for  *)
(* any number of folders, checkouts, commands and upsets.                  *)
(*                                                                         *)
(* A plan is made once and carried out in steps, so the invariants speak   *)
(* of what a command WILL leave: Left, RecordLeft, HookLeft, ChainedLeft.  *)
(* No step changes those; only planning does, and whoever edits a file.    *)
(*                                                                         *)
(*   Base   every state is typed and every record fits its folder          *)
(*   Kept   what is about to be written holds what others have there       *)
(*   Undo   an install's record has what is needed to undo it              *)
(*   Stays  what an install put in place, other folders leave there        *)
(***************************************************************************)
EXTENDS Installer, TLAPS

-----------------------------------------------------------------------------
(* What the states are made of.                                            *)

Lines ==
  {Own, Hand, Include, Marker, Unread} \cup {Mode(m) : m \in Modes} \cup {HookLine(n, py) : n \in Names, py \in STRING}
  \cup {Plugin(v) : v \in Nat} \cup {Listed(n) : n \in Names}

Files == {NoFile} \cup {Text(says) : says \in SUBSET Lines}

InstallRecords ==
  [there : BOOLEAN, made : SUBSET Names, entries : SUBSET Lines, lines : SUBSET Lines, muse : BOOLEAN,
   originals : [Names -> Files], installed : [Names -> Files]]

StepsOfInstall == Copies \cup Names \cup {"register", "chain", "hook", "record", "index"}
StepsOfUninstall == Names \cup {"unregister", "unhook", "unrecord", "unindex"}

Places == Folders \cup {Git}

Jobs ==
  [at : {"idle", "fetch", "install", "uninstall"}, folder : Places, request : Requests \cup {NoRequest},
   found : Files, version : Nat, steps : SUBSET (StepsOfInstall \cup StepsOfUninstall), writes : [Names -> Files],
   keeps : InstallRecords, raced : SUBSET (Places \X (Names \cup {"hook"}))]

HookStates == {"none", "own", "ours", "hand"}

InstallerTyped ==
  /\ disk \in [Keys -> Files] /\ hook \in HookStates /\ chained \in HookStates
  /\ record \in [Folders -> InstallRecords] /\ index \subseteq Folders /\ registered \subseteq Folders
  /\ copies \in [Copies -> Nat] /\ served \in Nat \ {0} /\ job \in Jobs
  /\ commands \in Nat /\ upsets \in Nat
  /\ last \in [Folders -> [did : {"nothing", "changing", "connected", "disconnected", "stopped", "edited"},
                           request : Requests \cup {NoRequest}]]
  /\ before \in [disk : [Keys -> Files], hook : {"none", "own"}, tracked : SUBSET Agents, hooksPath : BOOLEAN]
  /\ spoilt \subseteq {"joined", "stopped", "edited"} \X Places \X (Names \cup {"hook", ""})

(* A command under way is of a folder, and has steps when it is planned.   *)
JobFits ==
  /\ job.at = "idle" => job = Idle
  /\ job.at # "idle" => job.folder \in Folders
  /\ job.at \in {"fetch", "install"} =>
       job.request \in Requests /\ job.version # 0 /\ <<"joined", job.folder, "">> \in spoilt
  /\ job.at = "fetch" => job.steps = {}
  /\ job.at = "install" => job.steps \subseteq StepsOfInstall
  /\ job.at = "uninstall" => job.steps \subseteq StepsOfUninstall

(* What was there before is nobody's of an install.                        *)
BeforeFits ==
  /\ \A k \in Keys : before.disk[k].says \subseteq {Own, Include}
  /\ \A f \in Folders : "muse" \in Agents => before.disk[<<f, "muse">>] = NoFile

-----------------------------------------------------------------------------
(* The records.                                                            *)

EntryFor(rec, n) == \E e \in rec.entries : e[2] = n

RecordFits(f, rec) ==
  /\ ~rec.there => rec = NoRecord
  /\ \A e \in rec.entries : IsHook(e)
  /\ Hand \notin rec.lines
  /\ \A n \in Names :
       /\ rec.originals[n].there => rec.installed[n].there
       /\ EntryFor(rec, n) => n \in rec.made \/ rec.originals[n].there
       /\ n \in rec.made =>
            /\ ~IsTracked(f, n)
            /\ n \in SettingsAgents => EntryFor(rec, n)
            /\ n = "muse" => rec.installed[n].there

RecordsFit ==
  /\ \A f \in Folders : RecordFits(f, record[f]) /\ (record[f].there => <<"joined", f, "">> \in spoilt)
  /\ job.at = "install" => RecordFits(job.folder, job.keeps) /\ job.keeps.there

-----------------------------------------------------------------------------
(* What a write under way overwrites.                                      *)

Unraced(n) == Key(job.folder, n) \notin job.raced

WritesKeep ==
  \A n \in Names \cap job.steps : Unraced(n) =>
    LET now == disk[Key(job.folder, n)].says
        next == job.writes[n].says IN
    /\ job.at = "install" /\ n \in SettingsAgents \cup {"exclude"} => now \subseteq next
    /\ job.at = "install" /\ n = "config" /\ job.request.form = "connect" /\ Include \in now => Include \in next
    /\ job.at = "uninstall" /\ n \in SettingsAgents \cup {"exclude"} /\ Hand \in now
         /\ Hand \notin record[job.folder].installed[n].says => Hand \in next

FoundFits == job.at = "fetch" /\ Unraced("config") => job.found = disk[Key(job.folder, "config")]

UneditedHook == <<"edited", Git, "hook">> \notin spoilt

HookSafe ==
  /\ "chain" \in job.steps => "hook" \in job.steps
  /\ UneditedHook =>
       /\ hook # "hand" /\ chained \in {"none", "own"}
       /\ hook = "own" => chained = "none"
       /\ "chain" \in job.steps => hook = "own"
       /\ "hook" \in job.steps /\ "chain" \notin job.steps => hook = "none"
       /\ "unhook" \in job.steps => hook = "ours"

-----------------------------------------------------------------------------
(* What the command under way will leave.                                  *)

Left(f, n) == IF n \in job.steps /\ Key(job.folder, n) = Key(f, n) THEN job.writes[n] ELSE disk[Key(f, n)]

RecordLeft(f) ==
  IF job.folder = f /\ "record" \in job.steps THEN job.keeps
  ELSE IF job.folder = f /\ "unrecord" \in job.steps THEN NoRecord ELSE record[f]

HookLeft == IF "hook" \in job.steps THEN "ours" ELSE IF "unhook" \in job.steps THEN chained ELSE hook

ChainedLeft == IF "chain" \in job.steps THEN hook ELSE IF "unhook" \in job.steps THEN "none" ELSE chained

Unstopped(f) == <<"stopped", f, "">> \notin spoilt

Unedited(f, n) == <<"edited", Key(f, n)[1], n>> \notin spoilt

Alone(f) == f \in Checkouts /\ \A o \in Checkouts \ {f} : <<"joined", o, "">> \notin spoilt

(* Either no install touched the file, or the record has what is needed to *)
(* undo it.                                                                *)
Untouched(rec, n, file, was) ==
  /\ n \notin rec.made /\ rec.originals[n] = NoFile /\ rec.installed[n] = NoFile
  /\ ~EntryFor(rec, n) /\ (n = "exclude" => rec.lines = {})
  /\ file = was

Undoable(rec, n, file, was) ==
  /\ rec.there /\ file.there /\ rec.installed[n] = file
  /\ IF was.there THEN rec.originals[n] = was /\ n \notin rec.made
     ELSE rec.originals[n] = NoFile /\ n \in rec.made
  /\ n \in SettingsAgents => EntryFor(rec, n)

FilesInv ==
  \A f \in Folders, n \in Names :
    Unstopped(f) /\ Unedited(f, n) /\ (n = "exclude" => Alone(f)) =>
      LET was == before.disk[Key(f, n)] IN
      \/ Untouched(RecordLeft(f), n, Left(f, n), was)
      \/ Undoable(RecordLeft(f), n, Left(f, n), was)

(* Every hook line of a settings file is known to the record, and none was *)
(* there before.                                                           *)
Known(n, rec, file) == \A line \in file.says : IsHook(line) => Readable(file) /\ line[2] = n /\ line \in rec.entries

LinesKnown ==
  \A f \in Folders, n \in Names \cap SettingsAgents : Unstopped(f) =>
    /\ Known(n, RecordLeft(f), Left(f, n))
    /\ \A line \in RecordLeft(f).originals[n].says : ~IsHook(line)

GitSideInv ==
  \A f \in Folders :
    Unstopped(f) /\ Alone(f) =>
      /\ job.folder # f /\ Unedited(f, "exclude") => "exclude" \notin job.steps
      /\ job.folder # f /\ UneditedHook => "hook" \notin job.steps /\ "unhook" \notin job.steps
      /\ UneditedHook =>
           \/ HookLeft = before.hook /\ ChainedLeft = "none"
           \/ HookLeft = "ours" /\ ChainedLeft = before.hook /\ RecordLeft(f).there

(* How the commands ended.                                                 *)
EndedInv ==
  /\ \A f \in Folders : last[f].did \in {"connected", "disconnected"} => (Working => job.folder # f)
  /\ \A f \in Folders : last[f].did = "disconnected" /\ Unstopped(f) => ~record[f].there /\ f \notin index
  /\ job.at = "uninstall" =>
       /\ record[job.folder].there => "unrecord" \in job.steps
       /\ job.folder \in index => "unindex" \in job.steps
  /\ \A f \in Folders : last[f].did = "changing" => Working /\ job.folder = f

-----------------------------------------------------------------------------
(* What an install will have put in place.                                 *)

GitOverlooks(r, rec, says) == \A n \in rec.made \cap ({"config"} \cup r.agents) : Listed(n) \in says

Installs(f, r) ==
  /\ "muse" \in r.agents /\ ~IsTracked(f, "muse") => Left(f, "muse").there
  /\ \A n \in r.agents \cap SettingsAgents : ~IsTracked(f, n) => HookLine(n, r.python) \in Left(f, n).says
  /\ f \in Checkouts => /\ ~before.hooksPath => HookLeft = "ours"
                        /\ GitOverlooks(r, RecordLeft(f), Left(f, "exclude").says)
  /\ RecordLeft(f).there /\ (f \notin index => "index" \in job.steps)

InstallsAll ==
  \A f \in Folders, r \in Requests :
    job.at = "install" /\ job.folder = f /\ job.request = r /\ last[f].did = "changing" => Installs(f, r)

CopiesThere ==
  /\ job.at = "install" => \A c \in Copies : copies[c] = 0 => c \in job.steps
  /\ \A f \in Folders : last[f].did = "connected" => \A c \in Copies : copies[c] # 0

(* ... and what the commands of other folders leave in place.              *)
InPlace(f, r) ==
  /\ Governed(f, r)
  /\ f \in Checkouts /\ Working =>
       /\ "exclude" \in job.steps => GitOverlooks(r, record[f], job.writes["exclude"].says)
       /\ ~before.hooksPath => "chain" \notin job.steps /\ "unhook" \notin job.steps

StaysInPlace ==
  \A f \in Folders, r \in Requests \cup {NoRequest} :
    last[f].did = "connected" /\ last[f].request = r => InPlace(f, r)
-----------------------------------------------------------------------------
(* Lines and files.                                                        *)

LEMMA HookLines ==
  /\ ~IsHook(Own) /\ ~IsHook(Hand) /\ ~IsHook(Include) /\ ~IsHook(Marker) /\ ~IsHook(Unread)
  /\ \A n : ~IsHook(Listed(n))
  /\ \A n, py : IsHook(HookLine(n, py)) /\ HookLine(n, py)[2] = n
  BY DEF IsHook, Own, Hand, Include, Marker, Unread, Listed, HookLine

LEMMA LinesDiffer ==
  /\ Hand # Marker /\ Unread # Hand /\ Include # Hand /\ Marker # Own /\ Marker # Include /\ Unread # Own
  /\ \A n : Listed(n) # Hand /\ Listed(n) # Own
  /\ \A n, py : HookLine(n, py) # Hand /\ HookLine(n, py) # Unread
  /\ \A m : Mode(m) # Include
<1>1. /\ Hand[1] = "hand" /\ Marker[1] = "marker" /\ Own[1] = "own" /\ Include[1] = "include" /\ Unread[1] = "unread"
      /\ \A n : Listed(n)[1] = "listed"
      /\ \A n, py : HookLine(n, py)[1] = "hook"
      /\ \A m : Mode(m)[1] = "mode"
  BY DEF Hand, Marker, Own, Include, Unread, Listed, HookLine, Mode
<1> QED  BY <1>1

LEMMA LinesTyped ==
  /\ {Own, Hand, Include, Marker, Unread} \subseteq Lines
  /\ \A m \in Modes : Mode(m) \in Lines
  /\ \A n \in Names : Listed(n) \in Lines /\ \A py \in STRING : HookLine(n, py) \in Lines
  /\ \A v \in Nat : Plugin(v) \in Lines
<1>1. {Own, Hand, Include, Marker, Unread} \subseteq Lines  BY DEF Lines
<1>2. ASSUME NEW m \in Modes PROVE Mode(m) \in Lines
  <2>1. Mode(m) \in {Mode(x) : x \in Modes}  OBVIOUS
  <2> QED  BY <2>1 DEF Lines
<1>3. ASSUME NEW n \in Names PROVE Listed(n) \in Lines
  <2>1. Listed(n) \in {Listed(x) : x \in Names}  OBVIOUS
  <2> QED  BY <2>1 DEF Lines
<1>4. ASSUME NEW n \in Names, NEW py \in STRING PROVE HookLine(n, py) \in Lines
  <2>1. HookLine(n, py) \in {HookLine(x, y) : x \in Names, y \in STRING}  OBVIOUS
  <2> QED  BY <2>1 DEF Lines
<1>5. ASSUME NEW v \in Nat PROVE Plugin(v) \in Lines
  <2>1. Plugin(v) \in {Plugin(x) : x \in Nat}  OBVIOUS
  <2> QED  BY <2>1 DEF Lines
<1> QED  BY <1>1, <1>2, <1>3, <1>4, <1>5

LEMMA FilesAre ==
  ASSUME NEW file \in Files
  PROVE  /\ file.there \in BOOLEAN /\ file.says \subseteq Lines
         /\ file.there => file = Text(file.says)
         /\ ~file.there => file = NoFile
         /\ file.there \/ file.says = {}
<1>1. CASE file = NoFile  BY <1>1 DEF NoFile
<1>2. CASE file # NoFile
  <2>1. PICK says \in SUBSET Lines : file = Text(says)  BY <1>2 DEF Files
  <2> QED  BY <2>1 DEF Text
<1> QED  BY <1>1, <1>2

LEMMA TextsAre == ASSUME NEW says \in SUBSET Lines PROVE Text(says) \in Files /\ Text(says).there /\ Text(says).says = says
  BY DEF Files, Text

LEMMA NoFileIs == NoFile \in Files /\ ~NoFile.there /\ NoFile.says = {} /\ NoFiles \in [Names -> Files]
<1>1. NoFile \in Files /\ ~NoFile.there /\ NoFile.says = {}  BY DEF Files, NoFile
<1> QED  BY <1>1 DEF NoFiles

LEMMA NoRecordIs ==
  /\ NoRecord \in InstallRecords /\ ~NoRecord.there /\ NoRecord.made = {} /\ NoRecord.entries = {} /\ NoRecord.lines = {}
  /\ \A n \in Names : NoRecord.originals[n] = NoFile /\ NoRecord.installed[n] = NoFile
  /\ \A f : RecordFits(f, NoRecord)
<1>1. /\ NoRecord \in InstallRecords /\ ~NoRecord.there /\ NoRecord.made = {} /\ NoRecord.entries = {} /\ NoRecord.lines = {}
  BY NoFileIs DEF NoRecord, InstallRecords
<1>2. \A n \in Names : NoRecord.originals[n] = NoFile /\ NoRecord.installed[n] = NoFile
  BY DEF NoRecord, NoFiles
<1> QED  BY <1>1, <1>2, NoFileIs DEF RecordFits, EntryFor

(* Where a file is.                                                        *)
LEMMA KeysAre ==
  /\ \A f \in Folders, n \in Names : Key(f, n) \in Keys /\ Key(f, n) \in Places \X (Names \cup {"hook"}) /\ Key(f, n)[2] = n
  /\ \A f, g : \A n, m : Key(f, n) = Key(g, m) => n = m /\ (n = "exclude" \/ f = g)
  /\ \A f, g : Key(f, "exclude") = Key(g, "exclude")
  BY DEF Key, Keys, Places, Names, Git

(* The order of the steps.                                                 *)
LEMMA HookAfterChain == ASSUME job.at = "install", IsNext("hook") PROVE "chain" \notin job.steps
<1> DEFINE order == InstallOrder
<1>1. DOMAIN order = 1..11  BY DEF InstallOrder
<1>2. PICK i \in 1..11 : "hook" \in order[i] /\ \A j \in 1..(i - 1) : order[j] \cap job.steps = {}
  BY <1>1 DEF IsNext
<1>3. order[7] = {"chain"}  BY DEF InstallOrder
<1>4. /\ "hook" \notin order[1] /\ "hook" \notin order[2] /\ "hook" \notin order[3] /\ "hook" \notin order[4]
      /\ "hook" \notin order[5] /\ "hook" \notin order[6] /\ "hook" \notin order[7]
  BY DEF InstallOrder, SettingsAgents
<1> HIDE DEF order
<1>5. 7 \in 1..(i - 1)  BY <1>2, <1>4
<1> QED  BY <1>2, <1>3, <1>5

LEMMA UnrecordLast ==
  ASSUME job.at = "uninstall", IsNext("unrecord") PROVE job.steps \cap Names = {}
<1> DEFINE order == UninstallOrder
<1>1. DOMAIN order = 1..8  BY DEF UninstallOrder
<1>2. PICK i \in 1..8 : "unrecord" \in order[i] /\ \A j \in 1..(i - 1) : order[j] \cap job.steps = {}
  BY <1>1 DEF IsNext
<1>3. order[1] = SettingsAgents /\ order[3] = {"muse"} /\ order[4] = {"config"} /\ order[6] = {"exclude"}
  BY DEF UninstallOrder
<1>4. \A j \in 1..6 : "unrecord" \notin order[j]  BY DEF UninstallOrder, SettingsAgents
<1> HIDE DEF order
<1>5. {1, 3, 4, 6} \subseteq 1..(i - 1)  BY <1>2, <1>4
<1> QED  BY <1>2, <1>3, <1>5, InstallerAssumption DEF Names

-----------------------------------------------------------------------------
(* What the plans are made of.                                             *)

LEMMA NamesAre ==
  /\ Agents \subseteq SettingsAgents \cup {"muse"} /\ Agents \subseteq Names
  /\ "config" \in Names /\ "exclude" \in Names
  /\ \A n \in Names : n \in SettingsAgents => n \in Agents /\ n \notin {"config", "exclude", "muse"}
  /\ \A n \in Names : n \in {"config", "exclude", "muse"} \cup SettingsAgents
  BY InstallerAssumption DEF Names, SettingsAgents

LEMMA RequestsAre ==
  ASSUME NEW r \in Requests
  PROVE  /\ r.agents \in SUBSET Agents /\ r.mode \in Modes \cup {"kept"} /\ r.python \in STRING
         /\ r.form \in {"connect", "repo"} /\ r.include \in BOOLEAN
  BY InstallerAssumption

LEMMA ConfigTextIs ==
  ASSUME NEW r \in Requests, NEW found \in Files
  PROVE  /\ ConfigText(r, found) \in Files /\ ConfigText(r, found).there
         /\ r.form = "connect" /\ Include \in found.says => Include \in ConfigText(r, found).says
<1> DEFINE says == {Mode(ModeOf(r, found))} \cup (IF KeepsInclude(r, found) THEN {Include} ELSE {})
<1>1. ModeOf(r, found) \in Modes
  <2>1. "managed" \in Modes  BY DEF Modes
  <2>2. CASE r.mode # "kept"  BY <2>2, RequestsAre, Zenon DEF ModeOf
  <2>3. CASE r.mode = "kept"
    <3> DEFINE has(m) == Mode(m) \in found.says
    <3>1. (\E m \in Modes : has(m)) => (CHOOSE m \in Modes : has(m)) \in Modes  BY Zenon
    <3> QED  BY <2>1, <2>3, <3>1, Zenon DEF ModeOf
  <2> QED  BY <2>2, <2>3
<1>2. says \in SUBSET Lines  BY <1>1, LinesTyped
<1>3. ConfigText(r, found) = Text(says)  BY DEF ConfigText
<1> QED  BY <1>2, <1>3, TextsAre DEF KeepsInclude

LEMMA SettingsAre ==
  ASSUME InstallerTyped, NEW f \in Folders, NEW r \in Requests, NEW n \in Names \cap SettingsAgents
  PROVE  /\ Settings(f, n, r) \in Files /\ Settings(f, n, r).there
         /\ Settings(f, n, r).says = disk[Key(f, n)].says \cup {HookLine(n, r.python)}
<1> DEFINE says == disk[<<f, n>>].says \cup {HookLine(n, r.python)}
<1>1. Key(f, n) = <<f, n>> /\ Key(f, n) \in Keys  BY NamesAre, KeysAre DEF Key
<1>2. disk[Key(f, n)] \in Files  BY <1>1 DEF InstallerTyped
<1>3. says \in SUBSET Lines  BY <1>1, <1>2, FilesAre, LinesTyped, RequestsAre
<1>4. Settings(f, n, r) = Text(says)  BY DEF Settings
<1> QED  BY <1>1, <1>3, <1>4, TextsAre

LEMMA WantedAre ==
  ASSUME NEW f, NEW r \in Requests
  PROVE  Wanted(f, r) \subseteq {"config"} \cup r.agents /\ Wanted(f, r) \subseteq Names \ {"exclude"}
  BY RequestsAre, NamesAre DEF Wanted, SettingsAgents

LEMMA WrittenAre ==
  ASSUME NEW f, NEW r \in Requests
  PROVE  Written(f, r) \subseteq Names \ {"exclude"}
  BY WantedAre, RequestsAre, NamesAre DEF Written, SettingsAgents

LEMMA ExcludingIs ==
  ASSUME InstallerTyped, NEW f \in Folders, NEW r \in Requests
  PROVE  /\ Excluding(f, r) \in Files /\ Excluding(f, r).there
         /\ Excluding(f, r).says = disk[Key(f, "exclude")].says \cup Missing(f, r) \cup {Marker}
         /\ Hand \notin Missing(f, r)
<1> DEFINE says == disk[<<Git, "exclude">>].says \cup Missing(f, r) \cup {Marker}
<1>1. Key(f, "exclude") = <<Git, "exclude">> /\ Key(f, "exclude") \in Keys  BY NamesAre, KeysAre DEF Key
<1>2. disk[Key(f, "exclude")] \in Files  BY <1>1 DEF InstallerTyped
<1>3. Missing(f, r) \subseteq Lines  BY WrittenAre, LinesTyped DEF Missing
<1>4. says \in SUBSET Lines  BY <1>1, <1>2, <1>3, FilesAre, LinesTyped
<1>5. Excluding(f, r) = Text(says)  BY DEF Excluding
<1>6. Hand \notin Missing(f, r)  BY LinesDiffer DEF Missing
<1> QED  BY <1>1, <1>4, <1>5, <1>6, TextsAre

LEMMA WithIs ==
  ASSUME InstallerTyped, JobFits, NEW f \in Folders, NEW r \in Requests, NEW n \in Names
  PROVE  With(f, r, n) \in Files /\ (n = "muse" => "muse" \in Agents) /\ With(f, r, n).there
<1>1. CASE n = "exclude"  BY <1>1, ExcludingIs DEF With
<1>2. CASE n = "config"
  <2>1. job.found \in Files  BY DEF InstallerTyped, Jobs
  <2> QED  BY <1>2, <2>1, ConfigTextIs DEF With, Data
<1>3. CASE n = "muse"
  <2>1. job.version \in Nat  BY DEF InstallerTyped, Jobs
  <2>2. {Plugin(job.version)} \in SUBSET Lines  BY <2>1, LinesTyped
  <2> QED  BY <1>3, <2>2, TextsAre DEF With, Data, Names
<1>4. CASE n \in SettingsAgents
  <2>1. With(f, r, n) = Settings(f, n, r)  BY <1>4, NamesAre DEF With, Data
  <2> QED  BY <1>4, <2>1, SettingsAre, NamesAre
<1> QED  BY <1>1, <1>2, <1>3, <1>4, NamesAre

LEMMA ChangedAre ==
  ASSUME NEW f, NEW r \in Requests
  PROVE  /\ Changed(f, r) \subseteq Names
         /\ "exclude" \in Changed(f, r) <=> f \in Checkouts /\ Missing(f, r) # {}
         /\ \A n \in Changed(f, r) : n # "exclude" => n \in Wanted(f, r)
  BY WantedAre, NamesAre DEF Changed

LEMMA RecordedIs ==
  ASSUME InstallerTyped, JobFits, NEW f \in Folders, NEW r \in Requests
  PROVE  Recorded(f, r) \in InstallRecords
<1> DEFINE old == record[f]  changed == Changed(f, r)  rec == Recorded(f, r)
           originals == [n \in Names |-> IF n \in changed THEN Original(old, n, disk[Key(f, n)]) ELSE old.originals[n]]
           installed == [n \in Names |-> IF n \in changed THEN With(f, r, n) ELSE old.installed[n]]
<1>1. old \in InstallRecords  BY DEF InstallerTyped
<1>2. /\ old.made \subseteq Names /\ old.entries \subseteq Lines /\ old.lines \subseteq Lines /\ old.muse \in BOOLEAN
      /\ \A n \in Names : old.originals[n] \in Files /\ old.installed[n] \in Files
  BY <1>1 DEF InstallRecords
<1>3. changed \subseteq Names  BY ChangedAre
<1>4. originals \in [Names -> Files]
  <2>1. \A n \in Names : disk[Key(f, n)] \in Files  BY KeysAre DEF InstallerTyped
  <2> QED  BY <1>2, <2>1 DEF Original
<1>5. installed \in [Names -> Files]  BY <1>2, WithIs
<1>6. old.made \cup {n \in changed : ~disk[Key(f, n)].there} \in SUBSET Names  BY <1>2, <1>3
<1>7. Entries(old, {HookLine(n, r.python) : n \in changed \cap SettingsAgents}) \in SUBSET Lines
  <2>1. {HookLine(n, r.python) : n \in changed \cap SettingsAgents} \subseteq Lines  BY <1>3, LinesTyped, RequestsAre
  <2> QED  BY <1>2, <2>1 DEF Entries
<1>8. old.lines \cup (IF "exclude" \in changed THEN Excluding(f, r).says \ disk[<<Git, "exclude">>].says ELSE {})
        \in SUBSET Lines
  BY <1>2, ExcludingIs, FilesAre
<1>9. (old.muse \/ Registers(f, r)) \in BOOLEAN  BY <1>2 DEF Registers
<1> HIDE DEF originals, installed
<1> QED  BY <1>4, <1>5, <1>6, <1>7, <1>8, <1>9 DEF Recorded, InstallRecords, originals, installed

LEMMA Marking ==
  ASSUME InstallerTyped, JobFits, NEW f \in Folders, NEW r \in Requests
  PROVE  LET old == record[f]
             rec == Recorded(f, r)
             changed == Changed(f, r) IN
         /\ rec.there
         /\ rec.made = old.made \cup {n \in changed : ~disk[Key(f, n)].there}
         /\ rec.entries = old.entries \cup {HookLine(n, r.python) : n \in changed \cap SettingsAgents}
         /\ rec.lines = old.lines \cup (IF "exclude" \in changed THEN Excluding(f, r).says \ disk[Key(f, "exclude")].says ELSE {})
         /\ \A n \in Names :
              /\ rec.originals[n] = IF n \in changed THEN Original(old, n, disk[Key(f, n)]) ELSE old.originals[n]
              /\ rec.installed[n] = IF n \in changed THEN With(f, r, n) ELSE old.installed[n]
  BY DEF Recorded, Entries, Key

LEMMA EntriesFor ==
  ASSUME InstallerTyped, JobFits, NEW f \in Folders, NEW r \in Requests, NEW n \in Names
  PROVE  EntryFor(Recorded(f, r), n) <=> EntryFor(record[f], n) \/ n \in Changed(f, r) \cap SettingsAgents
<1> DEFINE new == {HookLine(m, r.python) : m \in Changed(f, r) \cap SettingsAgents}
<1>1. Recorded(f, r).entries = record[f].entries \cup new  BY Marking
<1>2. (\E e \in new : e[2] = n) <=> n \in Changed(f, r) \cap SettingsAgents
  <2>1. ASSUME NEW e \in new, e[2] = n PROVE n \in Changed(f, r) \cap SettingsAgents
    <3>1. PICK m \in Changed(f, r) \cap SettingsAgents : e = HookLine(m, r.python)  OBVIOUS
    <3> QED  BY <2>1, <3>1, HookLines
  <2>2. ASSUME n \in Changed(f, r) \cap SettingsAgents PROVE \E e \in new : e[2] = n
    <3>1. HookLine(n, r.python) \in new  BY <2>2
    <3> QED  BY <3>1, HookLines
  <2> QED  BY <2>1, <2>2
<1> HIDE DEF new
<1> QED  BY <1>1, <1>2 DEF EntryFor

LEMMA RecordedFits ==
  ASSUME InstallerTyped, JobFits, RecordsFit, NEW f \in Folders, NEW r \in Requests
  PROVE  RecordFits(f, Recorded(f, r)) /\ Recorded(f, r).there
<1> DEFINE old == record[f]  changed == Changed(f, r)  rec == Recorded(f, r)
<1>1. RecordFits(f, old)  BY DEF RecordsFit
<1>2. \A e \in rec.entries : IsHook(e)
  <2>1. \A e \in old.entries : IsHook(e)  BY <1>1 DEF RecordFits
  <2>2. \A e \in {HookLine(m, r.python) : m \in changed \cap SettingsAgents} : IsHook(e)  BY HookLines
  <2> QED  BY <2>1, <2>2, Marking
<1>3. Hand \notin rec.lines
  <2>1. Hand \notin old.lines  BY <1>1 DEF RecordFits
  <2>2. Hand \notin Excluding(f, r).says \ disk[Key(f, "exclude")].says  BY ExcludingIs, LinesDiffer
  <2> QED  BY <2>1, <2>2, Marking
<1>4. ASSUME NEW n \in Names
      PROVE  /\ rec.originals[n].there => rec.installed[n].there
             /\ EntryFor(rec, n) => n \in rec.made \/ rec.originals[n].there
             /\ n \in rec.made =>
                  /\ ~IsTracked(f, n)
                  /\ n \in SettingsAgents => EntryFor(rec, n)
                  /\ n = "muse" => rec.installed[n].there
  <2>1. /\ old.originals[n].there => old.installed[n].there
        /\ EntryFor(old, n) => n \in old.made \/ old.originals[n].there
        /\ n \in old.made =>
             /\ ~IsTracked(f, n)
             /\ n \in SettingsAgents => EntryFor(old, n)
             /\ n = "muse" => old.installed[n].there
    BY <1>1 DEF RecordFits
  <2>2. EntryFor(rec, n) <=> EntryFor(old, n) \/ n \in changed \cap SettingsAgents  BY EntriesFor
  <2>3. CASE n \notin changed
    <3>1. rec.originals[n] = old.originals[n] /\ rec.installed[n] = old.installed[n] /\ (n \in rec.made <=> n \in old.made)
      BY <2>3, Marking
    <3> QED  BY <2>1, <2>2, <2>3, <3>1
  <2>4. CASE n \in changed
    <3>1. rec.originals[n] = Original(old, n, disk[Key(f, n)]) /\ rec.installed[n] = With(f, r, n)
      BY <2>4, Marking
    <3>2. n \in rec.made <=> n \in old.made \/ ~disk[Key(f, n)].there  BY <2>4, Marking
    <3>3. rec.installed[n].there  BY <3>1, WithIs
    <3>4. n \in rec.made \/ rec.originals[n].there  BY <3>1, <3>2 DEF Original
    <3>5. ~IsTracked(f, n)
      <4>1. n = "exclude" => ~IsTracked(f, n)
        <5>1. before.tracked \subseteq Agents  BY DEF InstallerTyped
        <5> QED  BY <5>1, NamesAre DEF IsTracked, SettingsAgents
      <4> QED  BY <2>4, <4>1, ChangedAre DEF Wanted
    <3> QED  BY <2>2, <2>4, <3>3, <3>4, <3>5
  <2> QED  BY <2>3, <2>4
<1>5. rec.there  BY Marking
<1>6. RecordFits(f, rec)
  <2> HIDE DEF rec
  <2> QED  BY <1>2, <1>3, <1>4, <1>5 DEF RecordFits
<1> QED  BY <1>5, <1>6

LEMMA InstallStepsAre ==
  ASSUME NEW f, NEW r \in Requests
  PROVE  InstallSteps(f, r) \subseteq StepsOfInstall
  BY ChangedAre DEF InstallSteps, StepsOfInstall, HookSteps, Optional

-----------------------------------------------------------------------------
(* What an uninstall leaves.                                               *)

LEMMA WithoutIs ==
  ASSUME InstallerTyped, NEW f \in Folders, NEW n \in Names
  PROVE  Without(f, n) \in Files
<1> DEFINE file == disk[Key(f, n)]  rec == record[f]
<1>1. file \in Files  BY KeysAre DEF InstallerTyped
<1>2. rec.originals[n] \in Files
  <2>1. rec \in InstallRecords  BY DEF InstallerTyped
  <2> QED  BY <2>1 DEF InstallRecords
<1>3. ASSUME NEW some PROVE Text(file.says \ some) \in Files
  <2>1. file.says \ some \in SUBSET Lines  BY <1>1, FilesAre
  <2> QED  BY <2>1, TextsAre
<1> HIDE DEF file, rec
<1>4. WithoutSettings(rec, n, file) \in Files
  <2> DEFINE left == file.says \ OursIn(rec, n, file)
  <2>1. Text(left) \in Files  BY <1>3
  <2>2. WithoutSettings(rec, n, file) \in {file, rec.originals[n], NoFile, Text(left)}  BY DEF WithoutSettings
  <2> QED  BY <1>1, <1>2, <2>1, <2>2, NoFileIs
<1>5. n = "muse" => WithoutMuse(rec, file) \in Files  BY <1>1, <1>2, NoFileIs DEF WithoutMuse
<1>6. n = "config" => WithoutConfig(rec, file) \in Files  BY <1>1, <1>2, NoFileIs DEF WithoutConfig
<1>7. n = "exclude" => WithoutLines(rec, file) \in Files  BY <1>1, <1>2, <1>3, NoFileIs DEF WithoutLines
<1> QED  BY <1>4, <1>5, <1>6, <1>7 DEF Without, file, rec

LEMMA UninstallStepsAre ==
  ASSUME NEW f PROVE UninstallSteps(f) \subseteq StepsOfUninstall
  BY DEF UninstallSteps, StepsOfUninstall, Optional

-----------------------------------------------------------------------------
(* Every state is typed, every record fits.                                *)

Base == InstallerTyped /\ JobFits /\ BeforeFits /\ RecordsFit

LEMMA IdleTyped == Idle \in Jobs /\ Idle.at = "idle" /\ Idle.steps = {} /\ Idle.folder = Git /\ Idle.raced = {}
  BY NoFileIs, NoRecordIs DEF Idle, Jobs, Places

(* A job planned, taken further, touched or dropped.                       *)
LEMMA BaseStart == ASSUME Init PROVE Base
<1>1. PICK b \in Found :
        /\ disk = [k \in Keys |-> IF k[2] \notin b.files THEN NoFile
                                  ELSE IF k[2] = "config" THEN Text({Own, Include}) ELSE Text({Own})]
        /\ hook = b.hook
        /\ before = [disk |-> disk, hook |-> hook, tracked |-> b.tracked, hooksPath |-> b.hooksPath]
  BY DEF Init
<1>2. b \in [files : SUBSET ((Agents \cup {"config", "exclude"}) \ {"muse"}),
             hook : {"none", "own"}, tracked : SUBSET Agents, hooksPath : BOOLEAN]
  BY InstallerAssumption
<1>3. Text({Own, Include}) \in Files /\ Text({Own}) \in Files /\ Text({Own, Include}).says = {Own, Include} /\ Text({Own}).says = {Own}
  <2>1. {Own, Include} \in SUBSET Lines /\ {Own} \in SUBSET Lines  BY LinesTyped
  <2> QED  BY <2>1, TextsAre
<1>4. disk \in [Keys -> Files] /\ \A k \in Keys : disk[k].says \subseteq {Own, Include}
  BY <1>1, <1>3, NoFileIs
<1>5. before \in [disk : [Keys -> Files], hook : {"none", "own"}, tracked : SUBSET Agents, hooksPath : BOOLEAN]
  BY <1>1, <1>2, <1>4
<1>6. BeforeFits
  <2>1. \A f \in Folders : "muse" \in Agents => disk[<<f, "muse">>] = NoFile
    <3>1. ASSUME NEW f \in Folders, "muse" \in Agents PROVE disk[<<f, "muse">>] = NoFile
      <4>1. <<f, "muse">> \in Keys /\ <<f, "muse">>[2] = "muse"  BY <3>1 DEF Keys, Names
      <4>2. "muse" \notin b.files  BY <1>2
      <4> QED  BY <1>1, <4>1, <4>2
    <3> QED  BY <3>1
  <2> QED  BY <1>1, <1>4, <2>1 DEF BeforeFits
<1>7. InstallerTyped
  <2>1. hook \in HookStates /\ chained \in HookStates  BY <1>1, <1>2 DEF Init, HookStates
  <2>2. record \in [Folders -> InstallRecords]  BY NoRecordIs DEF Init
  <2>3. last \in [Folders -> [did : {"nothing", "changing", "connected", "disconnected", "stopped", "edited"},
                              request : Requests \cup {NoRequest}]]
    BY DEF Init
  <2>4. copies \in [Copies -> Nat] /\ served \in Nat \ {0} /\ commands \in Nat /\ upsets \in Nat
        /\ index \subseteq Folders /\ registered \subseteq Folders /\ spoilt = {} /\ job = Idle
    BY DEF Init
  <2> QED  BY <1>4, <1>5, <2>1, <2>2, <2>3, <2>4, IdleTyped DEF InstallerTyped
<1>8. JobFits /\ RecordsFit
  <2>1. job = Idle /\ \A f \in Folders : record[f] = NoRecord  BY DEF Init
  <2> QED  BY <2>1, IdleTyped, NoRecordIs DEF JobFits, RecordsFit
<1> QED  BY <1>6, <1>7, <1>8 DEF Base

LEMMA JobIs ==
  ASSUME InstallerTyped, JobFits
  PROVE  /\ job.folder \in Places /\ job.writes \in [Names -> Files] /\ job.keeps \in InstallRecords
         /\ job.steps \subseteq StepsOfInstall \cup StepsOfUninstall /\ job.version \in Nat /\ job.found \in Files
         /\ job.request \in Requests \cup {NoRequest} /\ job.raced \subseteq Places \X (Names \cup {"hook"})
         /\ job.at \in {"idle", "fetch", "install", "uninstall"}
         /\ Working => job.folder \in Folders
         /\ job.at = "fetch" => job.folder \in Folders /\ job.steps = {}
         /\ job.at = "idle" => job.steps = {}
         /\ job.steps # {} => Working
  BY IdleTyped DEF InstallerTyped, JobFits, Jobs, Working

LEMMA StepBase == ASSUME Base, Step PROVE Base'
<1> USE DEF Base
<1>1. PICK step \in job.steps :
        /\ IsNext(step) /\ ~Fails(step) /\ Does(step)
        /\ job' = [job EXCEPT !.steps = @ \ {step}]
  BY DEF Step
<1>2. /\ Working /\ UNCHANGED <<served, commands, upsets, last, before, spoilt>>
      /\ job.folder \in Folders /\ job.at \in {"install", "uninstall"}
  BY JobIs DEF Step, counts, past, Working
<1>3. /\ job' \in Jobs /\ job'.steps = job.steps \ {step} /\ job'.at = job.at /\ job'.folder = job.folder
      /\ job'.request = job.request /\ job'.version = job.version /\ job'.keeps = job.keeps
  BY <1>1 DEF InstallerTyped, Jobs
<1>4. JobFits'  BY <1>2, <1>3 DEF JobFits
<1>5. BeforeFits'  BY <1>2 DEF BeforeFits
<1>6. disk' \in [Keys -> Files]
  <2>1. CASE Writes(step)
    <3>1. Key(job.folder, step) \in Keys /\ job.writes[step] \in Files  BY <1>2, <2>1, KeysAre, JobIs DEF Writes
    <3> QED  BY <2>1, <3>1 DEF Writes, InstallerTyped
  <2>2. CASE ~Writes(step)
    <3>1. UNCHANGED disk  BY <1>1, <2>2 DEF Does, CopiesOne, Registration, HookFiles, Records, Indexes
    <3> QED  BY <3>1 DEF InstallerTyped
  <2> QED  BY <2>1, <2>2
<1>7. hook' \in HookStates /\ chained' \in HookStates
  BY <1>1 DEF Does, Writes, CopiesOne, Registration, HookFiles, Records, Indexes, InstallerTyped, HookStates
<1>8. copies' \in [Copies -> Nat]
  <2>1. CASE CopiesOne(step)  BY <2>1, JobIs DEF CopiesOne, InstallerTyped
  <2>2. CASE ~CopiesOne(step)
    <3>1. UNCHANGED copies  BY <1>1, <2>2 DEF Does, Writes, Registration, HookFiles, Records, Indexes
    <3> QED  BY <3>1 DEF InstallerTyped
  <2> QED  BY <2>1, <2>2
<1>9. index' \subseteq Folders /\ registered' \subseteq Folders
  BY <1>1, <1>2 DEF Does, Writes, CopiesOne, Registration, HookFiles, Records, Indexes, InstallerTyped
<1>10. \/ UNCHANGED record
       \/ step = "record" /\ job.at = "install" /\ record' = [record EXCEPT ![job.folder] = job.keeps]
       \/ record' = [record EXCEPT ![job.folder] = NoRecord]
  <2>1. step = "record" => job.at = "install"
    BY <1>2, NamesAre DEF JobFits, StepsOfUninstall, SettingsAgents
  <2> QED  BY <1>1, <2>1 DEF Does, Writes, CopiesOne, Registration, HookFiles, Records, Indexes
<1>11. record' \in [Folders -> InstallRecords]
  BY <1>10, NoRecordIs, JobIs DEF InstallerTyped
<1>12. RecordsFit'
  <2>1. job'.at = "install" => RecordFits(job.folder, job.keeps)' /\ job'.keeps.there
    BY <1>2, <1>3 DEF RecordsFit, RecordFits, IsTracked
  <2>2. ASSUME NEW f \in Folders PROVE RecordFits(f, record[f])' /\ (record'[f].there => <<"joined", f, "">> \in spoilt')
    <3>1. CASE record'[f] = record[f]  BY <1>2, <3>1 DEF RecordsFit, RecordFits, IsTracked
    <3>2. CASE record'[f] = NoRecord
      <4>1. RecordFits(f, NoRecord)'  BY NoRecordIs, <1>2 DEF RecordFits, IsTracked
      <4> QED  BY <3>2, <4>1, NoRecordIs
    <3>3. CASE job.at = "install" /\ f = job.folder /\ record'[f] = job.keeps
      <4>1. RecordFits(f, job.keeps)  BY <3>3 DEF RecordsFit
      <4>2. <<"joined", f, "">> \in spoilt'  BY <1>2, <3>3 DEF JobFits
      <4> QED  BY <1>2, <3>3, <4>1, <4>2 DEF RecordFits, IsTracked
    <3>4. \/ record'[f] = record[f] \/ record'[f] = NoRecord
          \/ job.at = "install" /\ f = job.folder /\ record'[f] = job.keeps
      BY <1>10 DEF InstallerTyped
    <3> QED  BY <3>1, <3>2, <3>3, <3>4
  <2> QED  BY <2>1, <2>2 DEF RecordsFit
<1>13. InstallerTyped'
  BY <1>2, <1>3, <1>6, <1>7, <1>8, <1>9, <1>11 DEF InstallerTyped
<1> QED  BY <1>4, <1>5, <1>12, <1>13

LEMMA OneMoreIsNat == \A n \in Nat : n + 1 \in Nat  OBVIOUS

(* The last command of a folder.                                           *)
LastKind ==
  [did : {"nothing", "changing", "connected", "disconnected", "stopped", "edited"}, request : Requests \cup {NoRequest}]

(* A record fits its folder whatever else changes.                         *)
LEMMA RecordsStay ==
  ASSUME RecordsFit, UNCHANGED <<record, before>>, spoilt \subseteq spoilt',
         job'.at = "install" => RecordFits(job'.folder, job'.keeps) /\ job'.keeps.there
  PROVE  RecordsFit'
  BY DEF RecordsFit, RecordFits, IsTracked

LEMMA ConnectBase == ASSUME Base, NEW f \in Folders, NEW r \in Requests, Connect(f, r) PROVE Base'
<1> USE DEF Base
<1>1. /\ UNCHANGED <<disk, hook, chained, record, index, registered, copies, served, upsets, before, last>>
      /\ commands' = commands + 1 /\ spoilt' = spoilt \cup {<<"joined", f, "">>}
      /\ job' = [at |-> "fetch", folder |-> f, request |-> r, found |-> disk[<<f, "config">>],
                 version |-> served, steps |-> {}, writes |-> NoFiles, keeps |-> NoRecord, raced |-> {}]
  BY DEF Connect, Begin, system
<1>2. disk[<<f, "config">>] \in Files
  <2>1. <<f, "config">> \in Keys  BY DEF Keys, Names
  <2> QED  BY <2>1 DEF InstallerTyped
<1>3. job' \in Jobs  BY <1>1, <1>2, NoFileIs, NoRecordIs DEF Jobs, InstallerTyped, Places
<1>4. JobFits'  BY <1>1, <1>3 DEF JobFits, InstallerTyped
<1>5. RecordsFit'  BY <1>1, RecordsStay
<1>6. BeforeFits'  BY <1>1 DEF BeforeFits
<1>7. InstallerTyped'
  <2>1. <<"joined", f, "">> \in {"joined", "stopped", "edited"} \X Places \X (Names \cup {"hook", ""})  BY DEF Places
  <2>2. commands' \in Nat  BY <1>1, OneMoreIsNat DEF InstallerTyped
  <2>3. spoilt' \subseteq {"joined", "stopped", "edited"} \X Places \X (Names \cup {"hook", ""})
    BY <1>1, <2>1 DEF InstallerTyped
  <2> QED  BY <1>1, <1>3, <2>2, <2>3, Zenon DEF InstallerTyped
<1> QED  BY <1>4, <1>5, <1>6, <1>7

LEMMA LastChanges ==
  ASSUME InstallerTyped, NEW f \in Folders,
         NEW did \in {"nothing", "changing", "connected", "disconnected", "stopped", "edited"},
         last' = [last EXCEPT ![f].did = did]
  PROVE  /\ last' \in [Folders -> LastKind]
         /\ \A g \in Folders : last'[g].request = last[g].request /\ last'[g].did = IF g = f THEN did ELSE last[g].did
  BY DEF InstallerTyped, LastKind

LEMMA DisconnectBase == ASSUME Base, NEW f \in Folders, Disconnect(f) PROVE Base'
<1> USE DEF Base
<1> DEFINE steps == UninstallSteps(f)  writes == [n \in Names |-> Without(f, n)]
<1>1. /\ UNCHANGED <<disk, hook, chained, record, index, registered, copies, served, upsets, before, spoilt>>
      /\ commands' = commands + 1 /\ last' = [last EXCEPT ![f].did = "changing"]
      /\ job' = [at |-> "uninstall", folder |-> f, request |-> NoRequest, found |-> disk[<<f, "config">>],
                 version |-> served, steps |-> steps, writes |-> writes, keeps |-> NoRecord, raced |-> {}]
  BY DEF Disconnect, Begin, system
<1>2. disk[<<f, "config">>] \in Files
  <2>1. <<f, "config">> \in Keys  BY DEF Keys, Names
  <2> QED  BY <2>1 DEF InstallerTyped
<1>3. writes \in [Names -> Files]  BY WithoutIs
<1>4. steps \subseteq StepsOfUninstall  BY UninstallStepsAre
<1> HIDE DEF steps, writes
<1>5. job' \in Jobs  BY <1>1, <1>2, <1>3, <1>4, NoRecordIs DEF Jobs, InstallerTyped, Places
<1>6. JobFits'  BY <1>1, <1>4 DEF JobFits
<1>7. RecordsFit'  BY <1>1, RecordsStay
<1>8. BeforeFits'  BY <1>1 DEF BeforeFits
<1>9. InstallerTyped'
  <2>1. commands' \in Nat  BY <1>1, OneMoreIsNat DEF InstallerTyped
  <2>2. last' \in [Folders -> LastKind]  BY <1>1, LastChanges
  <2> QED  BY <1>1, <1>5, <2>1, <2>2, Zenon DEF InstallerTyped, LastKind
<1> QED  BY <1>6, <1>7, <1>8, <1>9

(* The install planned, or not.                                            *)
Plans ==
  LET f == job.folder
      r == job.request IN
  /\ ~Stopping(f, r, job.found)
  /\ job' = [job EXCEPT !.at = "install", !.steps = InstallSteps(f, r),
                        !.writes = [n \in Names |-> With(f, r, n)], !.keeps = Recorded(f, r)]
  /\ last' = [last EXCEPT ![f].did = "changing"]

LEMMA PlansOrNot ==
  ASSUME PlanInstall
  PROVE  job.at = "fetch" /\ UNCHANGED <<system, served, commands, upsets, before, spoilt>>
         /\ (Plans \/ (job' = Idle /\ UNCHANGED last))
  BY DEF PlanInstall, Plans, counts

LEMMA PlansAre ==
  ASSUME Base, job.at = "fetch", Plans
  PROVE  LET f == job.folder
             r == job.request IN
         /\ f \in Folders /\ r \in Requests /\ job' \in Jobs
         /\ job'.at = "install" /\ job'.folder = f /\ job'.request = r /\ job'.version = job.version
         /\ job'.raced = job.raced /\ job'.steps = InstallSteps(f, r) /\ job'.keeps = Recorded(f, r)
         /\ \A n \in Names : job'.writes[n] = With(f, r, n)
<1> USE DEF Base
<1> DEFINE f == job.folder  r == job.request  steps == InstallSteps(f, r)
           writes == [n \in Names |-> With(f, r, n)]  keeps == Recorded(f, r)
<1>1. f \in Folders /\ r \in Requests  BY DEF JobFits
<1>2. writes \in [Names -> Files]  BY <1>1, WithIs
<1>3. keeps \in InstallRecords  BY <1>1, RecordedIs
<1>4. steps \subseteq StepsOfInstall  BY <1>1, InstallStepsAre
<1>5. \A n \in Names : writes[n] = With(f, r, n)  OBVIOUS
<1>6. job' = [job EXCEPT !.at = "install", !.steps = steps, !.writes = writes, !.keeps = keeps]  BY DEF Plans
<1> HIDE DEF steps, writes, keeps
<1>7. /\ job' \in Jobs /\ job'.at = "install" /\ job'.folder = f /\ job'.request = r /\ job'.version = job.version
      /\ job'.raced = job.raced /\ job'.steps = steps /\ job'.keeps = keeps /\ job'.writes = writes
  BY <1>2, <1>3, <1>4, <1>6 DEF InstallerTyped, Jobs
<1> QED  BY <1>1, <1>5, <1>7 DEF steps, keeps

LEMMA PlanInstallBase == ASSUME Base, PlanInstall PROVE Base'
<1> USE DEF Base
<1>1. job.at = "fetch" /\ (Plans \/ (job' = Idle /\ UNCHANGED last))
      /\ UNCHANGED <<disk, hook, chained, record, index, registered, copies, served, commands, upsets, before, spoilt>>
  BY PlansOrNot DEF system
<1>2. BeforeFits'  BY <1>1 DEF BeforeFits
<1>3. CASE job' = Idle /\ UNCHANGED last
  <2>1. JobFits'  BY <1>3, IdleTyped DEF JobFits
  <2>2. RecordsFit'  BY <1>1, <1>3, IdleTyped, RecordsStay
  <2>3. InstallerTyped'  BY <1>1, <1>3, IdleTyped DEF InstallerTyped
  <2> QED  BY <1>2, <2>1, <2>2, <2>3
<1>4. CASE Plans
  <2> DEFINE f == job.folder  r == job.request
  <2>1. /\ f \in Folders /\ r \in Requests /\ job' \in Jobs
        /\ job'.at = "install" /\ job'.folder = f /\ job'.request = r /\ job'.version = job.version
        /\ job'.steps = InstallSteps(f, r) /\ job'.keeps = Recorded(f, r)
    BY <1>1, <1>4, PlansAre
  <2>2. JobFits'  BY <1>1, <2>1, InstallStepsAre DEF JobFits
  <2>3. RecordFits(f, Recorded(f, r)) /\ Recorded(f, r).there  BY <2>1, RecordedFits
  <2>4. RecordsFit'  BY <1>1, <2>1, <2>3, RecordsStay
  <2>5. last' = [last EXCEPT ![f].did = "changing"]  BY <1>4 DEF Plans
  <2>6. InstallerTyped'  BY <1>1, <2>1, <2>5, LastChanges DEF InstallerTyped, LastKind
  <2> QED  BY <1>2, <2>2, <2>4, <2>6
<1> QED  BY <1>1, <1>3, <1>4

LEMMA IdleBase ==
  ASSUME Base, job' = Idle, UNCHANGED <<record, before>>, spoilt \subseteq spoilt'
  PROVE  JobFits' /\ RecordsFit' /\ BeforeFits' /\ job' \in Jobs
<1> USE DEF Base
<1>1. JobFits' /\ job' \in Jobs  BY IdleTyped DEF JobFits
<1>2. RecordsFit'  BY IdleTyped, RecordsStay
<1> QED  BY <1>1, <1>2 DEF BeforeFits

LEMMA FinishBase == ASSUME Base, Finish PROVE Base'
<1> USE DEF Base
<1>1. /\ UNCHANGED <<disk, hook, chained, record, index, registered, copies, served, commands, upsets, before, spoilt>>
      /\ job' = Idle /\ job.folder \in Folders
  BY JobIs DEF Finish, system, counts
<1>2. last' \in [Folders -> LastKind]
  <2> DEFINE did == IF last[job.folder].did # "changing" THEN last[job.folder].did
                    ELSE IF job.at = "install" THEN "connected" ELSE "disconnected"
  <2>1. last' = [last EXCEPT ![job.folder] = [did |-> did, request |-> job.request]]  BY DEF Finish
  <2>2. did \in {"nothing", "changing", "connected", "disconnected", "stopped", "edited"} /\ job.request \in Requests \cup {NoRequest}
    BY <1>1, JobIs DEF InstallerTyped
  <2> HIDE DEF did
  <2> QED  BY <1>1, <2>1, <2>2 DEF InstallerTyped, LastKind
<1> QED  BY <1>1, <1>2, IdleBase DEF InstallerTyped, LastKind

LEMMA AbandonBase ==
  ASSUME Base, Working, Abandon, disk' \in [Keys -> Files], upsets' \in Nat
  PROVE  Base'
<1> USE DEF Base
<1>1. /\ UNCHANGED <<hook, chained, record, index, registered, copies, served, commands, before>>
      /\ job' = Idle /\ job.folder \in Folders /\ spoilt' = spoilt \cup {<<"stopped", job.folder, "">>}
      /\ last' = [last EXCEPT ![job.folder].did = "stopped"]
  BY JobIs DEF Abandon
<1>2. last' \in [Folders -> LastKind]  BY <1>1, LastChanges
<1>3. <<"stopped", job.folder, "">> \in {"joined", "stopped", "edited"} \X Places \X (Names \cup {"hook", ""})
  BY <1>1 DEF Places
<1>4. InstallerTyped'  BY <1>1, <1>2, <1>3, IdleTyped DEF InstallerTyped, LastKind
<1> QED  BY <1>1, <1>4, IdleBase

LEMMA FailBase == ASSUME Base, Fail PROVE Base'
<1>1. Working /\ Abandon /\ UNCHANGED <<disk, upsets>>  BY DEF Fail
<1> QED  BY <1>1, AbandonBase DEF Base, InstallerTyped

(* A write stopped half way.                                               *)
LEMMA StopIs ==
  ASSUME Base, Stop
  PROVE  /\ Working /\ Abandon /\ upsets' = upsets + 1
         /\ \/ UNCHANGED disk
            \/ \E n \in job.steps \cap (Names \ {"exclude"}), torn \in Files :
                 disk' = [disk EXCEPT ![Key(job.folder, n)] = torn]
<1>1. Text({}) \in Files /\ Text({Unread}) \in Files
  <2>1. {} \in SUBSET Lines /\ {Unread} \in SUBSET Lines  BY LinesTyped
  <2> QED  BY <2>1, TextsAre
<1>2. PICK step \in job.steps : UNCHANGED disk \/ Torn(step)  BY DEF Stop
<1>3. CASE Torn(step)
  <2>1. PICK torn \in {Text({}), Text({Unread})} : disk' = [disk EXCEPT ![Key(job.folder, step)] = torn]
    BY <1>3 DEF Torn
  <2>2. step \in job.steps \cap (Names \ {"exclude"}) /\ torn \in Files  BY <1>1, <1>3, <2>1 DEF Torn
  <2> QED  BY <2>1, <2>2 DEF Stop
<1> QED  BY <1>2, <1>3 DEF Stop

LEMMA StopBase == ASSUME Base, Stop PROVE Base'
<1>1. Working /\ Abandon /\ upsets' = upsets + 1  BY StopIs
<1>2. disk' \in [Keys -> Files]
  <2>1. disk \in [Keys -> Files]  BY DEF Base, InstallerTyped
  <2> QED  BY <2>1, StopIs
<1>3. upsets' \in Nat  BY <1>1, OneMoreIsNat DEF Base, InstallerTyped
<1> QED  BY <1>1, <1>2, <1>3, AbandonBase

LEMMA EditedIs ==
  ASSUME NEW n, NEW file \in Files
  PROVE  /\ Edited(n, file) \subseteq Files
         /\ \A now \in Edited(n, file) : \A line \in now.says : IsHook(line) => line \in file.says
         /\ \A now \in Edited(n, file) : now.says \subseteq file.says \cup {Hand} \/ now.says = {Unread}
<1>1. file.says \cup {Hand} \in SUBSET Lines /\ {Unread} \in SUBSET Lines /\ {line \in file.says : ~IsHook(line)} \in SUBSET Lines
  BY FilesAre, LinesTyped
<1>2. ASSUME NEW now \in Edited(n, file)
      PROVE  now \in Files /\ (now.says = file.says \cup {Hand} \/ now.says = {Unread} \/ now.says = {}
                               \/ now.says = {line \in file.says : ~IsHook(line)})
  BY <1>1, <1>2, TextsAre, NoFileIs DEF Edited
<1> QED  BY <1>2, HookLines

(* A hand that touches a file or the hook leaves a command its plan.       *)
Apart(place, name) ==
  /\ UNCHANGED <<chained, record, index, registered, copies, served, commands, before>>
  /\ spoilt' = spoilt \cup {<<"edited", place, name>>}
  /\ job'.at = job.at /\ job'.folder = job.folder /\ job'.request = job.request /\ job'.version = job.version
  /\ job'.steps = job.steps /\ job'.writes = job.writes /\ job'.keeps = job.keeps /\ job'.found = job.found
  /\ job.at # "idle" => job'.raced = job.raced \cup {<<place, name>>}
  /\ job.at = "idle" => job' = Idle
  /\ \A f \in Folders :
       /\ last'[f].request = last[f].request
       /\ last'[f].did = IF last[f].did # "nothing" /\ (f = place \/ (place = Git /\ f \in Checkouts)) THEN "edited" ELSE last[f].did

LEMMA TouchesAre ==
  ASSUME Base, NEW place \in Places, NEW name \in Names \cup {"hook"}, Touches(place, name)
  PROVE  Apart(place, name) /\ job' \in Jobs /\ last' \in [Folders -> LastKind] /\ upsets' \in Nat
         /\ spoilt' \subseteq {"joined", "stopped", "edited"} \X Places \X (Names \cup {"hook", ""})
<1> USE DEF Base
<1>1. /\ UNCHANGED <<chained, record, index, registered, copies, served, commands, before>>
      /\ upsets' = upsets + 1 /\ spoilt' = spoilt \cup {<<"edited", place, name>>}
      /\ job' = IF job = Idle THEN job ELSE [job EXCEPT !.raced = @ \cup {<<place, name>>}]
      /\ last' = [f \in Folders |->
                    IF last[f].did # "nothing" /\ (f = place \/ (place = Git /\ f \in Checkouts))
                    THEN [last[f] EXCEPT !.did = "edited"] ELSE last[f]]
  BY DEF Touches
<1>2. job.at = "idle" <=> job = Idle  BY IdleTyped DEF JobFits
<1>3. /\ job'.at = job.at /\ job'.folder = job.folder /\ job'.request = job.request /\ job'.version = job.version
      /\ job'.steps = job.steps /\ job'.writes = job.writes /\ job'.keeps = job.keeps /\ job'.found = job.found
      /\ job.at # "idle" => job'.raced = job.raced \cup {<<place, name>>}
      /\ job.at = "idle" => job' = Idle
      /\ job' \in Jobs
  <2>1. CASE job = Idle  BY <1>1, <1>2, <2>1, IdleTyped
  <2>2. CASE job # Idle
    <3> DEFINE raced == job.raced \cup {<<place, name>>}
    <3>1. job' = [job EXCEPT !.raced = raced]  BY <1>1, <2>2
    <3>2. raced \in SUBSET (Places \X (Names \cup {"hook"}))  BY JobIs
    <3> HIDE DEF raced
    <3>3. /\ job' \in Jobs /\ job'.raced = raced
          /\ job'.at = job.at /\ job'.folder = job.folder /\ job'.request = job.request /\ job'.version = job.version
          /\ job'.steps = job.steps /\ job'.writes = job.writes /\ job'.keeps = job.keeps /\ job'.found = job.found
      BY <3>1, <3>2 DEF InstallerTyped, Jobs
    <3> QED  BY <1>2, <2>2, <3>3 DEF raced
  <2> QED  BY <2>1, <2>2
<1>4. last' \in [Folders -> LastKind]
      /\ \A f \in Folders :
           /\ last'[f].request = last[f].request
           /\ last'[f].did = IF last[f].did # "nothing" /\ (f = place \/ (place = Git /\ f \in Checkouts)) THEN "edited" ELSE last[f].did
  <2>1. \A f \in Folders : last[f] \in LastKind /\ [last[f] EXCEPT !.did = "edited"] \in LastKind
                            /\ [last[f] EXCEPT !.did = "edited"].did = "edited"
                            /\ [last[f] EXCEPT !.did = "edited"].request = last[f].request
    <3>1. ASSUME NEW f \in Folders PROVE last[f] \in LastKind  BY DEF InstallerTyped, LastKind
    <3>2. ASSUME NEW kind \in LastKind
          PROVE  /\ [kind EXCEPT !.did = "edited"] \in LastKind
                 /\ [kind EXCEPT !.did = "edited"].did = "edited"
                 /\ [kind EXCEPT !.did = "edited"].request = kind.request
      BY DEF LastKind
    <3> QED  BY <3>1, <3>2
  <2>2. \A f \in Folders :
           last'[f] = IF last[f].did # "nothing" /\ (f = place \/ (place = Git /\ f \in Checkouts))
                      THEN [last[f] EXCEPT !.did = "edited"] ELSE last[f]
    BY <1>1
  <2>3. last' \in [Folders -> LastKind]  BY <1>1, <2>1
  <2> QED  BY <2>1, <2>2, <2>3
<1>5. upsets' \in Nat  BY <1>1, OneMoreIsNat DEF InstallerTyped
<1>6. spoilt' \subseteq {"joined", "stopped", "edited"} \X Places \X (Names \cup {"hook", ""})
  <2>1. <<"edited", place, name>> \in {"joined", "stopped", "edited"} \X Places \X (Names \cup {"hook", ""})  OBVIOUS
  <2> QED  BY <1>1, <2>1 DEF InstallerTyped
<1> QED  BY <1>1, <1>3, <1>4, <1>5, <1>6 DEF Apart

LEMMA TouchedBase ==
  ASSUME Base, NEW place \in Places, NEW name \in Names \cup {"hook"}, Touches(place, name),
         disk' \in [Keys -> Files], hook' \in HookStates
  PROVE  Base'
<1> USE DEF Base
<1>1. Apart(place, name) /\ job' \in Jobs /\ last' \in [Folders -> LastKind] /\ upsets' \in Nat
      /\ spoilt' \subseteq {"joined", "stopped", "edited"} \X Places \X (Names \cup {"hook", ""})
  BY TouchesAre
<1>2. JobFits'  BY <1>1 DEF Apart, JobFits
<1>3. job'.at = "install" => RecordFits(job'.folder, job'.keeps) /\ job'.keeps.there
  BY <1>1 DEF Apart, RecordsFit
<1>4. RecordsFit'  BY <1>1, <1>3, RecordsStay DEF Apart
<1>5. BeforeFits'  BY <1>1 DEF BeforeFits, Apart
<1>6. InstallerTyped'  BY <1>1 DEF InstallerTyped, LastKind, Apart
<1> QED  BY <1>2, <1>4, <1>5, <1>6

LEMMA EditIs ==
  ASSUME Base, NEW f \in Folders, NEW n \in Names, Edit(f, n)
  PROVE  /\ Touches(Key(f, n)[1], n) /\ UNCHANGED hook /\ Key(f, n)[1] \in Places /\ Key(f, n) = <<Key(f, n)[1], n>>
         /\ \E file \in Edited(n, disk[Key(f, n)]) : disk' = [disk EXCEPT ![Key(f, n)] = file]
         /\ disk' \in [Keys -> Files]
<1>1. disk \in [Keys -> Files]  BY DEF Base, InstallerTyped
<1>2. Key(f, n) \in Keys /\ disk[Key(f, n)] \in Files  BY <1>1, KeysAre
<1>3. PICK file \in Edited(n, disk[Key(f, n)]) : disk' = [disk EXCEPT ![Key(f, n)] = file]  BY DEF Edit
<1>4. file \in Files  BY <1>2, EditedIs
<1>5. Key(f, n)[1] \in Places /\ Key(f, n) = <<Key(f, n)[1], n>>  BY DEF Key, Places
<1> QED  BY <1>1, <1>2, <1>3, <1>4, <1>5 DEF Edit

LEMMA EditBase == ASSUME Base, NEW f \in Folders, NEW n \in Names, Edit(f, n) PROVE Base'
<1>1. /\ Touches(Key(f, n)[1], n) /\ UNCHANGED hook /\ Key(f, n)[1] \in Places /\ disk' \in [Keys -> Files]
  BY EditIs
<1>2. hook' \in HookStates  BY <1>1 DEF Base, InstallerTyped
<1> QED  BY <1>1, <1>2, TouchedBase

LEMMA EditHookBase == ASSUME Base, EditHook PROVE Base'
<1>1. Touches(Git, "hook") /\ UNCHANGED disk /\ hook' = "hand" /\ Git \in Places  BY DEF EditHook, Places
<1>2. disk' \in [Keys -> Files] /\ hook' \in HookStates  BY <1>1 DEF Base, InstallerTyped, HookStates
<1> QED  BY <1>1, <1>2, TouchedBase

LEMMA DeployBase == ASSUME Base, Deploy PROVE Base'
<1> USE DEF Base
<1>1. /\ UNCHANGED <<disk, hook, chained, record, index, registered, copies, job, commands, last, before, spoilt>>
      /\ upsets' = upsets + 1 /\ served' = served + 1
  BY DEF Deploy, system, past
<1>2. upsets' \in Nat /\ served' \in Nat \ {0}
  <2>1. upsets \in Nat /\ served \in Nat \ {0}  BY DEF InstallerTyped
  <2> QED  BY <1>1, <2>1
<1>3. InstallerTyped'  BY <1>1, <1>2, Zenon DEF InstallerTyped
<1>4. JobFits' /\ BeforeFits'  BY <1>1 DEF JobFits, BeforeFits
<1>5. RecordsFit'  BY <1>1, RecordsStay DEF RecordsFit
<1> QED  BY <1>3, <1>4, <1>5

LEMMA StutterBase == ASSUME Base, UNCHANGED vars PROVE Base'
<1>1. UNCHANGED <<disk, hook, chained, record, index, registered, copies, served, job, commands, upsets, last, before, spoilt>>
  BY DEF vars, system, counts, past
<1> QED  BY <1>1 DEF Base, InstallerTyped, JobFits, BeforeFits, RecordsFit, RecordFits, IsTracked

LEMMA BaseStep == ASSUME Base, [Next]_vars PROVE Base'
<1>1. CASE UNCHANGED vars  BY <1>1, StutterBase
<1>2. CASE \E f \in Folders : Disconnect(f) \/ \E r \in Requests : Connect(f, r)
  BY <1>2, DisconnectBase, ConnectBase
<1>3. CASE PlanInstall  BY <1>3, PlanInstallBase
<1>4. CASE Step  BY <1>4, StepBase
<1>5. CASE Finish  BY <1>5, FinishBase
<1>6. CASE Fail  BY <1>6, FailBase
<1>7. CASE Stop  BY <1>7, StopBase
<1>8. CASE \E f \in Folders, n \in Names : Edit(f, n)  BY <1>8, EditBase
<1>9. CASE EditHook  BY <1>9, EditHookBase
<1>10. CASE Deploy  BY <1>10, DeployBase
<1> QED  BY <1>1, <1>2, <1>3, <1>4, <1>5, <1>6, <1>7, <1>8, <1>9, <1>10 DEF Next

LEMMA BaseAlways == Spec => []Base
<1>1. Init => Base  BY BaseStart
<1>2. Base /\ [Next]_vars => Base'  BY BaseStep
<1> QED  BY <1>1, <1>2, PTL DEF Spec

(* Every reachable state is typed.                                         *)
THEOREM InstallerTypeCorrect == Spec => []InstallerTyped
<1>1. Base => InstallerTyped  BY DEF Base
<1> QED  BY <1>1, BaseAlways, PTL

-----------------------------------------------------------------------------
(* NOTHING OF OTHERS' IS OVERWRITTEN.                                      *)

Kept == WritesKeep /\ FoundFits /\ HookSafe

LEMMA StepIs ==
  ASSUME Base, Step
  PROVE  /\ Working /\ job.folder \in Folders /\ UNCHANGED <<served, commands, upsets, last, before, spoilt>>
         /\ job'.at = job.at /\ job'.folder = job.folder /\ job'.request = job.request /\ job'.version = job.version
         /\ job'.writes = job.writes /\ job'.keeps = job.keeps /\ job'.found = job.found /\ job'.raced = job.raced
         /\ \E step \in job.steps : IsNext(step) /\ ~Fails(step) /\ Does(step) /\ job'.steps = job.steps \ {step}
<1>1. Working /\ job.folder \in Folders /\ UNCHANGED <<served, commands, upsets, last, before, spoilt>>
  BY JobIs DEF Base, Step, counts, past
<1>2. job \in Jobs  BY DEF Base, InstallerTyped
<1>3. PICK step \in job.steps : IsNext(step) /\ ~Fails(step) /\ Does(step) /\ job' = [job EXCEPT !.steps = @ \ {step}]
  BY DEF Step
<1>4. /\ job'.at = job.at /\ job'.folder = job.folder /\ job'.request = job.request /\ job'.version = job.version
      /\ job'.writes = job.writes /\ job'.keeps = job.keeps /\ job'.found = job.found /\ job'.raced = job.raced
      /\ job'.steps = job.steps \ {step}
  BY <1>2, <1>3 DEF Jobs
<1> QED  BY <1>1, <1>3, <1>4

(* One step does one thing.                                                *)
LEMMA DoesOne ==
  ASSUME Base, NEW step \in job.steps, Does(step)
  PROVE  \/ /\ step \in Names /\ disk' = [disk EXCEPT ![Key(job.folder, step)] = job.writes[step]]
            /\ UNCHANGED <<hook, chained, record, index, registered, copies>>
         \/ /\ step \notin Names /\ UNCHANGED disk
            /\ \/ /\ step \in Copies /\ copies' = [copies EXCEPT ![step] = job.version]
                  /\ UNCHANGED <<hook, chained, record, index>>
               \/ step \in {"register", "unregister"} /\ UNCHANGED <<hook, chained, record, index, copies>>
               \/ /\ \/ step = "chain" /\ chained' = hook /\ hook' = "none"
                     \/ step = "hook" /\ hook' = "ours" /\ UNCHANGED chained
                     \/ step = "unhook" /\ hook' = chained /\ chained' = "none"
                  /\ UNCHANGED <<record, index, copies>>
               \/ /\ \/ step = "record" /\ record' = [record EXCEPT ![job.folder] = job.keeps]
                     \/ step = "unrecord" /\ record' = [record EXCEPT ![job.folder] = NoRecord]
                  /\ UNCHANGED <<hook, chained, index, copies>>
               \/ /\ \/ step = "index" /\ index' = index \cup {job.folder}
                     \/ step = "unindex" /\ index' = index \ {job.folder}
                  /\ UNCHANGED <<hook, chained, record, copies>>
<1>1. CASE Writes(step)  BY <1>1 DEF Writes
<1>2. CASE CopiesOne(step)  BY <1>2, NamesAre DEF CopiesOne, Copies, SettingsAgents
<1>3. CASE Registration(step)  BY <1>3, NamesAre DEF Registration, SettingsAgents
<1>4. CASE HookFiles(step)  BY <1>4, NamesAre DEF HookFiles, SettingsAgents
<1>5. CASE Records(step)  BY <1>5, NamesAre DEF Records, SettingsAgents
<1>6. CASE Indexes(step)  BY <1>6, NamesAre DEF Indexes, SettingsAgents
<1> QED  BY <1>1, <1>2, <1>3, <1>4, <1>5, <1>6 DEF Does

LEMMA WritesAt ==
  ASSUME Base, NEW n \in Names, job.folder \in Folders, disk' = [disk EXCEPT ![Key(job.folder, n)] = job.writes[n]]
  PROVE  /\ disk'[Key(job.folder, n)] = job.writes[n]
         /\ \A k \in Keys : k # Key(job.folder, n) => disk'[k] = disk[k]
         /\ \A m \in Names : m # n => disk'[Key(job.folder, m)] = disk[Key(job.folder, m)]
<1>1. disk \in [Keys -> Files] /\ Key(job.folder, n) \in Keys  BY KeysAre DEF Base, InstallerTyped
<1>2. \A m \in Names : m # n => Key(job.folder, m) \in Keys /\ Key(job.folder, m) # Key(job.folder, n)
  BY KeysAre
<1> QED  BY <1>1, <1>2

LEMMA StepWritesKeep == ASSUME Base, Kept, Step PROVE WritesKeep' /\ FoundFits'
<1>1. /\ Working /\ job.folder \in Folders /\ job'.at = job.at /\ job'.folder = job.folder /\ job'.request = job.request
      /\ job'.writes = job.writes /\ job'.raced = job.raced
  BY StepIs
<1>2. PICK step \in job.steps : IsNext(step) /\ Does(step) /\ job'.steps = job.steps \ {step}  BY StepIs
<1>3. FoundFits'  BY <1>1 DEF FoundFits, Working
<1>4. ASSUME NEW n \in Names \cap job'.steps
      PROVE  /\ Unraced(n)' <=> Unraced(n)
             /\ disk'[Key(job.folder, n)] = disk[Key(job.folder, n)]
             /\ job.at = "uninstall" => record' = record \/ ~(n \in job.steps \cap Names)
  <2>1. n \in job.steps /\ n # step  BY <1>2
  <2>2. disk'[Key(job.folder, n)] = disk[Key(job.folder, n)]
    <3>1. CASE step \in Names /\ disk' = [disk EXCEPT ![Key(job.folder, step)] = job.writes[step]]
      BY <1>1, <2>1, <3>1, WritesAt
    <3>2. CASE UNCHANGED disk  BY <3>2
    <3> QED  BY <1>2, <3>1, <3>2, DoesOne
  <2>3. job.at = "uninstall" => record' = record
    <3>1. ASSUME job.at = "uninstall" PROVE step \notin {"record", "unrecord"}
      <4>1. step # "record"  BY <3>1, NamesAre DEF Base, JobFits, StepsOfUninstall, SettingsAgents
      <4>2. step # "unrecord"  BY <1>2, <2>1, <3>1, UnrecordLast
      <4> QED  BY <4>1, <4>2
    <3> QED  BY <1>2, <3>1, DoesOne
  <2>4. Unraced(n)' <=> Unraced(n)  BY <1>1 DEF Unraced
  <2> QED  BY <2>2, <2>3, <2>4
<1>5. WritesKeep'
  <2> SUFFICES ASSUME NEW n \in Names \cap job'.steps, Unraced(n)'
               PROVE  LET now == disk'[Key(job'.folder, n)].says
                          next == job'.writes[n].says IN
                      /\ job'.at = "install" /\ n \in SettingsAgents \cup {"exclude"} => now \subseteq next
                      /\ job'.at = "install" /\ n = "config" /\ job'.request.form = "connect" /\ Include \in now => Include \in next
                      /\ job'.at = "uninstall" /\ n \in SettingsAgents \cup {"exclude"} /\ Hand \in now
                           /\ Hand \notin record'[job'.folder].installed[n].says => Hand \in next
    BY DEF WritesKeep
  <2>1. n \in job.steps /\ Unraced(n)  BY <1>2, <1>4
  <2> QED  BY <1>1, <1>4, <2>1 DEF Kept, WritesKeep
<1> QED  BY <1>3, <1>5

LEMMA StepHookSafe == ASSUME Base, Kept, Step PROVE HookSafe'
<1>1. /\ job'.at = job.at /\ UNCHANGED <<spoilt>> /\ Working  BY StepIs
<1>2. PICK step \in job.steps : IsNext(step) /\ Does(step) /\ job'.steps = job.steps \ {step}  BY StepIs
<1>3. step = "hook" => "chain" \notin job.steps
  <2>1. step = "hook" => job.at = "install"  BY <1>1, NamesAre DEF Base, JobFits, StepsOfUninstall, SettingsAgents, Working
  <2> QED  BY <1>2, <2>1, HookAfterChain
<1>4. \/ step \notin {"chain", "hook", "unhook"} /\ UNCHANGED <<hook, chained>>
      \/ step = "chain" /\ chained' = hook /\ hook' = "none"
      \/ step = "hook" /\ hook' = "ours" /\ UNCHANGED chained
      \/ step = "unhook" /\ hook' = chained /\ chained' = "none"
  <2>1. step \in Names \cup Copies => step \notin {"chain", "hook", "unhook"}
    BY NamesAre DEF Copies, SettingsAgents
  <2> QED  BY <1>2, <2>1, DoesOne
<1>5. "unhook" \in job.steps => "hook" \notin job.steps
  <2>1. "unhook" \notin StepsOfInstall /\ "hook" \notin StepsOfUninstall
    BY NamesAre DEF StepsOfInstall, StepsOfUninstall, SettingsAgents, Copies
  <2> QED  BY <1>1, <2>1 DEF Base, JobFits, Working
<1> QED  BY <1>1, <1>2, <1>3, <1>4, <1>5 DEF Kept, HookSafe, UneditedHook

(* A hand's lines are in what an uninstall leaves, unless the install had  *)
(* written them itself.                                                    *)
LEMMA HandStays ==
  ASSUME Base, NEW f \in Folders, NEW n \in Names, n \in SettingsAgents \cup {"exclude"},
         Hand \in disk[Key(f, n)].says, Hand \notin record[f].installed[n].says
  PROVE  Hand \in Without(f, n).says
<1> DEFINE file == disk[Key(f, n)]  rec == record[f]
<1>1. file \in Files /\ file.there
  <2>1. file \in Files  BY KeysAre DEF Base, InstallerTyped
  <2> QED  BY <2>1, FilesAre
<1>2. RecordFits(f, rec)  BY DEF Base, RecordsFit
<1>3. ~Unchanged(rec, n, file)  BY DEF Unchanged
<1>4. ~Restorable(rec, n, file) /\ ~Created(rec, n, file)  BY <1>2, <1>3 DEF Restorable, Created, RecordFits
<1>5. CASE n = "exclude"
  <2>1. Hand \notin LinesOf(rec, file)  BY <1>2, LinesDiffer DEF LinesOf, RecordFits
  <2>2. Without(f, n) = Text(file.says \ LinesOf(rec, file))  BY <1>1, <1>4, <1>5 DEF Without, WithoutLines
  <2> QED  BY <2>1, <2>2 DEF Text
<1>6. CASE n \in SettingsAgents
  <2>1. Hand \notin OursIn(rec, n, file)
    <3>1. CASE rec.there  BY <1>2, <3>1, HookLines DEF OursIn, RecordFits
    <3>2. CASE ~rec.there  BY <3>2, HookLines DEF OursIn
    <3> QED  BY <3>1, <3>2
  <2> DEFINE left == file.says \ OursIn(rec, n, file)
  <2>2. Hand \in left /\ left # {}  BY <2>1
  <2>3. Without(f, n) = WithoutSettings(rec, n, file)  BY <1>6, NamesAre DEF Without
  <2>4. WithoutSettings(rec, n, file) \in {file, Text(left)}
    BY <1>1, <1>4, <2>2 DEF WithoutSettings
  <2>5. Text(left).says = left  BY DEF Text
  <2> QED  BY <2>2, <2>3, <2>4, <2>5
<1> QED  BY <1>5, <1>6

LEMMA KeptStart == ASSUME Init PROVE Kept
<1>1. job = Idle /\ chained = "none" /\ spoilt = {}  BY DEF Init
<1>2. hook \in {"none", "own"}
  <2>1. PICK b \in Found : hook = b.hook  BY DEF Init
  <2> QED  BY <2>1, InstallerAssumption
<1> QED  BY <1>1, <1>2, IdleTyped DEF Kept, WritesKeep, FoundFits, HookSafe

(* A command that ends, however it does.                                   *)
LEMMA KeptIdle ==
  ASSUME Kept, job' = Idle, UNCHANGED <<hook, chained>>, spoilt \subseteq spoilt'
  PROVE  Kept'
  BY IdleTyped DEF Kept, WritesKeep, FoundFits, HookSafe, UneditedHook

LEMMA ConnectKept == ASSUME Base, Kept, NEW f \in Folders, NEW r \in Requests, Connect(f, r) PROVE Kept'
<1>1. /\ UNCHANGED <<disk, hook, chained>> /\ spoilt \subseteq spoilt'
      /\ job'.at = "fetch" /\ job'.folder = f /\ job'.found = disk[<<f, "config">>] /\ job'.steps = {}
  BY DEF Connect, Begin, system
<1>2. Key(f, "config") = <<f, "config">>  BY DEF Key
<1> QED  BY <1>1, <1>2 DEF Kept, WritesKeep, FoundFits, HookSafe, UneditedHook

LEMMA DisconnectKept == ASSUME Base, Kept, NEW f \in Folders, Disconnect(f) PROVE Kept'
<1> DEFINE steps == UninstallSteps(f)  writes == [n \in Names |-> Without(f, n)]
<1>1. /\ UNCHANGED <<disk, hook, chained, record, spoilt>>
      /\ job'.at = "uninstall" /\ job'.folder = f /\ job'.steps = steps /\ job'.writes = writes
  BY DEF Disconnect, Begin, system
<1>2. "chain" \notin steps /\ "hook" \notin steps /\ ("unhook" \in steps => hook = "ours")
  BY NamesAre DEF UninstallSteps, Optional, SettingsAgents
<1>3. \A n \in Names : writes[n] = Without(f, n)  OBVIOUS
<1> HIDE DEF steps, writes
<1>4. WritesKeep'  BY <1>1, <1>3, HandStays DEF WritesKeep
<1> QED  BY <1>1, <1>2, <1>4 DEF Kept, FoundFits, HookSafe, UneditedHook

LEMMA WithKeeps ==
  ASSUME Base, Kept, job.at = "fetch", NEW n \in Names, Unraced(n)
  PROVE  LET f == job.folder
             r == job.request
             now == disk[Key(f, n)].says IN
         /\ n \in SettingsAgents \cup {"exclude"} => now \subseteq With(f, r, n).says
         /\ n = "config" /\ r.form = "connect" /\ Include \in now => Include \in With(f, r, n).says
<1> USE DEF Base
<1> DEFINE f == job.folder  r == job.request  now == disk[Key(f, n)].says
<1>1. f \in Folders /\ r \in Requests  BY DEF JobFits
<1>2. CASE n = "exclude"
  <2>1. With(f, r, n) = Excluding(f, r)  BY <1>2 DEF With
  <2>2. now \subseteq Excluding(f, r).says  BY <1>1, <1>2, ExcludingIs
  <2> QED  BY <1>2, <2>1, <2>2, NamesAre
<1>3. CASE n \in SettingsAgents
  <2>1. With(f, r, n) = Settings(f, n, r)  BY <1>3, NamesAre DEF With, Data
  <2>2. now \subseteq Settings(f, n, r).says  BY <1>1, <1>3, SettingsAre
  <2> QED  BY <1>3, <2>1, <2>2, NamesAre
<1>4. CASE n = "config"
  <2>1. job.found = disk[Key(f, n)]  BY <1>4 DEF Kept, FoundFits
  <2>2. job.found \in Files  BY JobIs
  <2>3. With(f, r, n) = ConfigText(r, job.found)  BY <1>4 DEF With, Data
  <2>4. r.form = "connect" /\ Include \in now => Include \in ConfigText(r, job.found).says
    BY <1>1, <2>1, <2>2, ConfigTextIs
  <2> QED  BY <1>4, <2>3, <2>4, NamesAre
<1>5. CASE n = "muse"  BY <1>5 DEF SettingsAgents
<1> QED  BY <1>2, <1>3, <1>4, <1>5, NamesAre

LEMMA HookStepsAre ==
  ASSUME NEW f, NEW r \in Requests
  PROVE  LET steps == InstallSteps(f, r) IN
         /\ "hook" \in steps <=> Hooks(f)
         /\ "chain" \in steps <=> Hooks(f) /\ hook # "none"
         /\ "unhook" \notin steps /\ "unrecord" \notin steps /\ "record" \in steps
         /\ "index" \in steps <=> f \notin index
         /\ \A n \in Names : n \in steps <=> n \in Changed(f, r)
         /\ \A c \in Copies : copies[c] # job.version => c \in steps
<1>1. {"hook", "chain", "unhook", "record", "unrecord", "index", "register"} \cap (Names \cup Copies) = {} /\ Names \cap Copies = {}
  BY NamesAre DEF Copies, SettingsAgents
<1>2. Changed(f, r) \subseteq Names  BY ChangedAre
<1> QED  BY <1>1, <1>2 DEF InstallSteps, HookSteps, Optional

LEMMA PlanInstallKept == ASSUME Base, Kept, PlanInstall PROVE Kept'
<1>1. /\ job.at = "fetch" /\ UNCHANGED <<disk, hook, chained, record, before, spoilt>>
      /\ Plans \/ (job' = Idle /\ UNCHANGED last)
  BY PlansOrNot DEF system
<1>2. CASE job' = Idle  BY <1>1, <1>2, KeptIdle
<1>3. CASE Plans
  <2> DEFINE f == job.folder  r == job.request
  <2>1. /\ f \in Folders /\ r \in Requests /\ job'.at = "install" /\ job'.folder = f /\ job'.request = r
        /\ job'.raced = job.raced /\ job'.steps = InstallSteps(f, r)
        /\ \A n \in Names : job'.writes[n] = With(f, r, n)
    BY <1>1, <1>3, PlansAre
  <2>2. \A n \in Names : Unraced(n)' <=> Unraced(n)  BY <2>1 DEF Unraced
  <2>3. WritesKeep'
    <3> SUFFICES ASSUME NEW n \in Names, Unraced(n)'
                 PROVE  LET now == disk'[Key(job'.folder, n)].says
                            next == job'.writes[n].says IN
                        /\ n \in SettingsAgents \cup {"exclude"} => now \subseteq next
                        /\ n = "config" /\ job'.request.form = "connect" /\ Include \in now => Include \in next
      BY <2>1 DEF WritesKeep
    <3> QED  BY <1>1, <2>1, <2>2, WithKeeps
  <2>4. HookSafe'
    <3>1. hook \in HookStates  BY DEF Base, InstallerTyped
    <3> QED  BY <1>1, <2>1, <3>1, HookStepsAre DEF Kept, HookSafe, UneditedHook, Hooks, HookStates
  <2>5. FoundFits'  BY <2>1 DEF FoundFits
  <2> QED  BY <2>3, <2>4, <2>5 DEF Kept
<1> QED  BY <1>1, <1>2, <1>3

LEMMA EditKept == ASSUME Base, Kept, NEW f \in Folders, NEW n \in Names, Edit(f, n) PROVE Kept'
<1> DEFINE place == Key(f, n)[1]
<1>1. /\ Touches(place, n) /\ UNCHANGED hook /\ place \in Places /\ Key(f, n) = <<place, n>>
      /\ \E file \in Edited(n, disk[Key(f, n)]) : disk' = [disk EXCEPT ![Key(f, n)] = file]
  BY EditIs
<1> HIDE DEF place
<1>2. Apart(place, n)  BY <1>1, TouchesAre
<1>3. ASSUME NEW m \in Names, job.at # "idle", Unraced(m)'
      PROVE  Unraced(m) /\ disk'[Key(job.folder, m)] = disk[Key(job.folder, m)]
  <2>1. /\ Key(job.folder, m) \notin job.raced \cup {<<place, n>>} /\ job.folder \in Folders
        /\ disk \in [Keys -> Files]
    BY <1>2, <1>3 DEF Apart, Unraced, Base, JobFits, InstallerTyped
  <2>2. Key(job.folder, m) # Key(f, n) /\ Key(job.folder, m) \in Keys  BY <1>1, <2>1, KeysAre
  <2> QED  BY <1>1, <2>1, <2>2 DEF Unraced
<1>4. WritesKeep'
  <2>1. job.at = "idle" => job.steps = {}  BY JobIs DEF Base
  <2> QED  BY <1>2, <1>3, <2>1 DEF WritesKeep, Kept, Apart
<1>5. FoundFits'  BY <1>2, <1>3, NamesAre DEF FoundFits, Kept, Apart
<1>6. HookSafe'  BY <1>1, <1>2 DEF HookSafe, Kept, Apart, UneditedHook
<1> QED  BY <1>4, <1>5, <1>6 DEF Kept

LEMMA EditHookKept == ASSUME Base, Kept, EditHook PROVE Kept'
<1>1. Touches(Git, "hook") /\ UNCHANGED disk /\ Git \in Places  BY DEF EditHook, Places
<1>2. Apart(Git, "hook")  BY <1>1, TouchesAre
<1>3. \A m \in Names : job.at # "idle" /\ Unraced(m)' => Unraced(m)  BY <1>2 DEF Apart, Unraced
<1>4. WritesKeep'
  <2>1. job.at = "idle" => job.steps = {}  BY JobIs DEF Base
  <2> QED  BY <1>1, <1>2, <1>3, <2>1 DEF WritesKeep, Kept, Apart
<1>5. FoundFits'  BY <1>1, <1>2, <1>3, NamesAre DEF FoundFits, Kept, Apart
<1>6. HookSafe'  BY <1>2 DEF HookSafe, Kept, Apart, UneditedHook
<1> QED  BY <1>4, <1>5, <1>6 DEF Kept

LEMMA KeptSame ==
  ASSUME Kept, UNCHANGED <<disk, hook, chained, record, job, spoilt>> PROVE Kept'
  BY DEF Kept, WritesKeep, FoundFits, HookSafe, UneditedHook, Unraced

LEMMA KeptStep == ASSUME Base, Kept, [Next]_vars PROVE Kept'
<1>1. CASE UNCHANGED vars  BY <1>1, KeptSame DEF vars, system, past
<1>2. CASE \E f \in Folders : Disconnect(f) \/ \E r \in Requests : Connect(f, r)
  BY <1>2, DisconnectKept, ConnectKept
<1>3. CASE PlanInstall  BY <1>3, PlanInstallKept
<1>4. CASE Step  BY <1>4, StepWritesKeep, StepHookSafe DEF Kept
<1>5. CASE Finish  BY <1>5, KeptIdle DEF Finish, system
<1>6. CASE Fail  BY <1>6, KeptIdle DEF Fail, Abandon
<1>7. CASE Stop  BY <1>7, KeptIdle DEF Stop, Abandon
<1>8. CASE \E f \in Folders, n \in Names : Edit(f, n)  BY <1>8, EditKept
<1>9. CASE EditHook  BY <1>9, EditHookKept
<1>10. CASE Deploy  BY <1>10, KeptSame DEF Deploy, system, past
<1> QED  BY <1>1, <1>2, <1>3, <1>4, <1>5, <1>6, <1>7, <1>8, <1>9, <1>10 DEF Next

LEMMA KeptAlways == Spec => [](Base /\ Kept)
<1>1. Init => Base /\ Kept  BY BaseStart, KeptStart
<1>2. Base /\ Kept /\ [Next]_vars => (Base /\ Kept)'  BY BaseStep, KeptStep
<1> QED  BY <1>1, <1>2, PTL DEF Spec

LEMMA StepKeepsOthers ==
  ASSUME Base, Kept, Step
  PROVE  KeepsOwnHook /\ (\A k \in Keys : KeepsHand(k)) /\ (\A f \in Folders : KeepsList(f))
<1>1. Working /\ job.folder \in Folders /\ UNCHANGED spoilt  BY StepIs
<1>2. PICK step \in job.steps : IsNext(step) /\ Does(step)  BY StepIs
<1>3. KeepsOwnHook
  <2>1. step = "hook" => "chain" \notin job.steps
    <3>1. step = "hook" => job.at = "install"  BY <1>1, NamesAre DEF Base, JobFits, StepsOfUninstall, SettingsAgents, Working
    <3> QED  BY <1>2, <3>1, HookAfterChain
  <2> QED  BY <1>2, <2>1, DoesOne DEF KeepsOwnHook, Kept, HookSafe, UneditedHook
<1>4. ASSUME NEW k \in Keys, disk'[k] # disk[k]
      PROVE  step \in Names \cap job.steps /\ k = Key(job.folder, step) /\ k[2] = step /\ disk'[k] = job.writes[step]
  <2>1. step \in Names /\ disk' = [disk EXCEPT ![Key(job.folder, step)] = job.writes[step]]
    BY <1>2, <1>4, DoesOne
  <2> QED  BY <1>1, <1>4, <2>1, WritesAt, KeysAre
<1>5. ASSUME NEW k \in Keys PROVE KeepsHand(k)
  <2>1. CASE disk'[k] = disk[k]  BY <2>1 DEF KeepsHand
  <2>2. CASE disk'[k] # disk[k]
    <3>1. /\ step \in Names \cap job.steps /\ k = Key(job.folder, step) /\ k[2] = step
          /\ disk'[k] = job.writes[step]
      BY <1>4, <2>2
    <3> QED  BY <1>1, <3>1 DEF KeepsHand, Merged, Digested, Kept, WritesKeep, Unraced, Working
  <2> QED  BY <2>1, <2>2
<1>6. ASSUME NEW f \in Folders PROVE KeepsList(f)
  <2> DEFINE k == <<f, "config">>
  <2>1. k \in Keys /\ k[2] = "config"  BY DEF Keys, Names
  <2> HIDE DEF k
  <2>2. CASE disk'[k] = disk[k]  BY <2>2 DEF KeepsList, k
  <2>3. CASE disk'[k] # disk[k]
    <3>1. /\ step \in Names \cap job.steps /\ k = Key(job.folder, step) /\ step = "config"
          /\ disk'[k] = job.writes[step]
      BY <1>4, <2>1, <2>3
    <3> QED  BY <1>1, <3>1 DEF KeepsList, ConnectsAgain, Kept, WritesKeep, Unraced, k
  <2> QED  BY <2>2, <2>3
<1> QED  BY <1>3, <1>5, <1>6

(* No step of any command overwrites what is not the install's own.        *)
THEOREM NothingOverwritten == Spec => OthersKept
<1>1. Base /\ Kept /\ [Next]_vars =>
        [Step => KeepsOwnHook /\ (\A k \in Keys : KeepsHand(k)) /\ (\A f \in Folders : KeepsList(f))]_vars
  BY StepKeepsOthers
<1> QED  BY <1>1, KeptAlways, PTL DEF Spec, OthersKept


-----------------------------------------------------------------------------
(* DISCONNECTED MEANS IT.                                                  *)

Undo == FilesInv /\ LinesKnown /\ GitSideInv /\ EndedInv

(* A step changes nothing of what its command will leave.                  *)
LEMMA StepLeaves ==
  ASSUME Base, Kept, Step
  PROVE  /\ \A f \in Folders, n \in Names : Left(f, n)' = Left(f, n)
         /\ \A f \in Folders : RecordLeft(f)' = RecordLeft(f)
         /\ HookLeft' = HookLeft /\ ChainedLeft' = ChainedLeft
<1>1. /\ job'.at = job.at /\ job'.folder = job.folder /\ job'.writes = job.writes /\ job'.keeps = job.keeps
      /\ Working /\ job.folder \in Folders
  BY StepIs
<1>2. PICK step \in job.steps : IsNext(step) /\ Does(step) /\ job'.steps = job.steps \ {step}  BY StepIs
<1>3. ASSUME NEW f \in Folders, NEW n \in Names PROVE Left(f, n)' = Left(f, n)
  <2>1. Key(f, n) \in Keys /\ (Key(job.folder, step) = Key(f, n) => step = n)  BY KeysAre
  <2>2. CASE step \in Names /\ disk' = [disk EXCEPT ![Key(job.folder, step)] = job.writes[step]]
    <3>1. disk'[Key(job.folder, step)] = job.writes[step]
          /\ (Key(f, n) # Key(job.folder, step) => disk'[Key(f, n)] = disk[Key(f, n)])
      BY <1>1, <2>1, <2>2, WritesAt
    <3> QED  BY <1>1, <1>2, <2>1, <3>1 DEF Left
  <2>3. CASE step \notin Names /\ UNCHANGED disk  BY <1>1, <1>2, <2>3 DEF Left
  <2> QED  BY <1>2, <2>2, <2>3, DoesOne
<1>4. job.at = "install" => {"unhook", "unrecord", "unindex"} \cap job.steps = {}
  BY NamesAre DEF Base, JobFits, StepsOfInstall, SettingsAgents, Copies
<1>5. job.at = "uninstall" => {"chain", "hook", "record", "index"} \cap job.steps = {}
  BY NamesAre DEF Base, JobFits, StepsOfUninstall, SettingsAgents
<1>6. {"chain", "hook", "unhook", "record", "unrecord", "index", "unindex"} \cap (Names \cup Copies) = {}
  BY NamesAre DEF Copies, SettingsAgents
<1>7. ASSUME NEW f \in Folders PROVE RecordLeft(f)' = RecordLeft(f)
  <2>1. record \in [Folders -> InstallRecords]  BY DEF Base, InstallerTyped
  <2>2. CASE step = "record"
    <3>1. record' = [record EXCEPT ![job.folder] = job.keeps]  BY <1>2, <1>6, <2>2, DoesOne
    <3> QED  BY <1>1, <1>2, <1>4, <1>5, <2>1, <2>2, <3>1 DEF RecordLeft, Working
  <2>3. CASE step = "unrecord"
    <3>1. record' = [record EXCEPT ![job.folder] = NoRecord]  BY <1>2, <1>6, <2>3, DoesOne
    <3> QED  BY <1>1, <1>2, <1>4, <1>5, <2>1, <2>3, <3>1 DEF RecordLeft, Working
  <2>4. CASE step \notin {"record", "unrecord"}
    <3>1. UNCHANGED record  BY <1>2, <2>4, DoesOne
    <3> QED  BY <1>1, <1>2, <2>4, <3>1 DEF RecordLeft
  <2> QED  BY <2>2, <2>3, <2>4
<1>8. HookLeft' = HookLeft /\ ChainedLeft' = ChainedLeft
  <2>1. step = "hook" => "chain" \notin job.steps
    <3>1. step = "hook" => job.at = "install"  BY <1>1, <1>2, <1>5 DEF Working
    <3> QED  BY <1>2, <3>1, HookAfterChain
  <2>2. "chain" \in job.steps => "hook" \in job.steps  BY DEF Kept, HookSafe
  <2>3. \/ step \notin {"chain", "hook", "unhook"} /\ UNCHANGED <<hook, chained>>
        \/ step = "chain" /\ chained' = hook /\ hook' = "none"
        \/ step = "hook" /\ hook' = "ours" /\ UNCHANGED chained
        \/ step = "unhook" /\ hook' = chained /\ chained' = "none"
    BY <1>2, <1>6, DoesOne
  <2> QED  BY <1>1, <1>2, <1>4, <1>5, <2>1, <2>2, <2>3 DEF HookLeft, ChainedLeft, Working
<1> QED  BY <1>3, <1>7, <1>8

(* What a command would leave is what is there when none is at work.       *)
LEMMA NothingPending ==
  ASSUME job.steps = {}
  PROVE  /\ \A f, n : Left(f, n) = disk[Key(f, n)]
         /\ \A f : RecordLeft(f) = record[f]
         /\ HookLeft = hook /\ ChainedLeft = chained
  BY DEF Left, RecordLeft, HookLeft, ChainedLeft

Leaves ==
  /\ \A f \in Folders, n \in Names : Left(f, n)' = Left(f, n)
  /\ \A f \in Folders : RecordLeft(f)' = RecordLeft(f)
  /\ HookLeft' = HookLeft /\ ChainedLeft' = ChainedLeft

LEMMA StaysPending ==
  ASSUME UNCHANGED <<disk, record, hook, chained>>,
         \/ job.steps = {} /\ job'.steps = {}
         \/ job'.steps = job.steps /\ job'.folder = job.folder /\ job'.writes = job.writes /\ job'.keeps = job.keeps
  PROVE  Leaves
<1>1. CASE job.steps = {} /\ job'.steps = {}
  BY <1>1 DEF Leaves, Left, RecordLeft, HookLeft, ChainedLeft
<1>2. CASE job'.steps = job.steps /\ job'.folder = job.folder /\ job'.writes = job.writes /\ job'.keeps = job.keeps
  BY <1>2 DEF Leaves, Left, RecordLeft, HookLeft, ChainedLeft
<1> QED  BY <1>1, <1>2

(* What is left decides all but how the commands ended.                    *)
LEMMA UndoStays ==
  ASSUME FilesInv, LinesKnown, GitSideInv, Leaves, UNCHANGED before, spoilt \subseteq spoilt',
         job'.steps \subseteq job.steps, job'.steps # {} => job'.folder = job.folder
  PROVE  FilesInv' /\ LinesKnown' /\ GitSideInv'
<1>1. \A f \in Folders : Unstopped(f)' => Unstopped(f)  BY DEF Unstopped
<1>2. \A f \in Folders, n \in Names : Unedited(f, n)' => Unedited(f, n)  BY DEF Unedited
<1>3. \A f \in Folders : Alone(f)' => Alone(f)  BY DEF Alone
<1>4. UneditedHook' => UneditedHook  BY DEF UneditedHook
<1>5. FilesInv'
  <2> SUFFICES ASSUME NEW f \in Folders, NEW n \in Names, Unstopped(f)', Unedited(f, n)', n = "exclude" => Alone(f)'
               PROVE  LET was == before.disk[Key(f, n)] IN
                      \/ Untouched(RecordLeft(f), n, Left(f, n), was)
                      \/ Undoable(RecordLeft(f), n, Left(f, n), was)
    BY DEF FilesInv, Leaves, Untouched, Undoable, EntryFor
  <2> QED  BY <1>1, <1>2, <1>3 DEF FilesInv
<1>6. LinesKnown'  BY <1>1 DEF LinesKnown, Known, Readable, Leaves
<1>7. GitSideInv'
  <2> SUFFICES ASSUME NEW f \in Folders, Unstopped(f)', Alone(f)'
               PROVE  /\ job'.folder # f /\ Unedited(f, "exclude")' => "exclude" \notin job'.steps
                      /\ job'.folder # f /\ UneditedHook' => "hook" \notin job'.steps /\ "unhook" \notin job'.steps
                      /\ UneditedHook' =>
                           \/ HookLeft = before.hook /\ ChainedLeft = "none"
                           \/ HookLeft = "ours" /\ ChainedLeft = before.hook /\ RecordLeft(f).there
    BY DEF GitSideInv, Leaves
  <2> QED  BY <1>1, <1>2, <1>3, <1>4, NamesAre DEF GitSideInv
<1> QED  BY <1>5, <1>6, <1>7

LEMMA StepUndo == ASSUME Base, Kept, Undo, Step PROVE Undo'
<1>1. /\ job'.at = job.at /\ job'.folder = job.folder /\ UNCHANGED <<last, before, spoilt>>
      /\ Working /\ job.folder \in Folders
  BY StepIs
<1>2. PICK step \in job.steps : Does(step) /\ job'.steps = job.steps \ {step}  BY StepIs
<1>3. FilesInv' /\ LinesKnown' /\ GitSideInv'
  <2>1. Leaves  BY StepLeaves DEF Leaves
  <2>2. job'.steps \subseteq job.steps  BY <1>2
  <2> QED  BY <1>1, <2>1, <2>2, UndoStays DEF Undo
<1>4. \A f \in Folders : f # job.folder => record'[f] = record[f] /\ (f \in index' <=> f \in index)
  <2>1. record \in [Folders -> InstallRecords]  BY DEF Base, InstallerTyped
  <2> QED  BY <1>2, <2>1, DoesOne
<1>5. ASSUME job.at = "uninstall"
      PROVE  /\ record'[job.folder].there => "unrecord" \in job'.steps
             /\ job.folder \in index' => "unindex" \in job'.steps
  <2>1. step \notin {"record", "index"}
    BY <1>5, NamesAre DEF Base, JobFits, StepsOfUninstall, SettingsAgents
  <2>2. /\ record[job.folder].there => "unrecord" \in job.steps
        /\ job.folder \in index => "unindex" \in job.steps
    BY <1>5 DEF Undo, EndedInv
  <2>3. /\ (step = "unrecord" /\ ~record'[job.folder].there) \/ (step # "unrecord" /\ record' = record)
    <3>1. record \in [Folders -> InstallRecords]  BY DEF Base, InstallerTyped
    <3>2. "unrecord" \notin Names \cup Copies  BY NamesAre DEF Copies, SettingsAgents
    <3> QED  BY <1>1, <1>2, <2>1, <3>1, <3>2, DoesOne, NoRecordIs
  <2>4. (step = "unindex" /\ job.folder \notin index') \/ (step # "unindex" /\ index' = index)
    <3>2. "unindex" \notin Names \cup Copies  BY NamesAre DEF Copies, SettingsAgents
    <3> QED  BY <1>2, <2>1, <3>2, DoesOne
  <2> QED  BY <1>2, <2>2, <2>3, <2>4
<1>6. EndedInv'
  <2>1. Working'  BY <1>1 DEF Working
  <2> QED  BY <1>1, <1>4, <1>5, <2>1 DEF Undo, EndedInv, Unstopped
<1> QED  BY <1>3, <1>6 DEF Undo

LEMMA ConnectUndo == ASSUME Base, Undo, NEW f \in Folders, NEW r \in Requests, Connect(f, r) PROVE Undo'
<1>1. /\ UNCHANGED <<disk, hook, chained, record, index, before, last>> /\ spoilt' = spoilt \cup {<<"joined", f, "">>}
      /\ job = Idle /\ job'.at = "fetch" /\ job'.folder = f /\ job'.steps = {}
  BY DEF Connect, Begin, system
<1>2. job.steps = {} /\ job.at = "idle"  BY <1>1, IdleTyped
<1>3. FilesInv' /\ LinesKnown' /\ GitSideInv'  BY <1>1, <1>2, StaysPending, UndoStays DEF Undo
<1>4. EndedInv'
  <2>1. ~Working /\ ~Working'  BY <1>1, <1>2 DEF Working
  <2>2. \A g \in Folders : Unstopped(g)' => Unstopped(g)  BY <1>1 DEF Unstopped
  <2> QED  BY <1>1, <2>1, <2>2 DEF Undo, EndedInv
<1> QED  BY <1>3, <1>4 DEF Undo

LEMMA FinishUndo == ASSUME Base, Undo, Finish PROVE Undo'
<1> DEFINE f == job.folder
<1>1. /\ UNCHANGED <<disk, hook, chained, record, index, before, spoilt>>
      /\ Working /\ job.steps = {} /\ job' = Idle /\ f \in Folders
  BY JobIs DEF Finish, system, Base
<1>2. job'.steps = {} /\ job'.at = "idle"  BY <1>1, IdleTyped
<1>3. FilesInv' /\ LinesKnown' /\ GitSideInv'  BY <1>1, <1>2, StaysPending, UndoStays DEF Undo
<1>4. /\ \A g \in Folders : g # f => last'[g] = last[g]
      /\ last'[f].did = IF last[f].did # "changing" THEN last[f].did
                        ELSE IF job.at = "install" THEN "connected" ELSE "disconnected"
  BY <1>1 DEF Finish, Base, InstallerTyped
<1>5. last'[f].did # "changing" /\ (last'[f].did = "disconnected" => ~record[f].there /\ f \notin index)
  <2>1. CASE last[f].did # "changing"  BY <1>1, <1>4, <2>1 DEF Undo, EndedInv
  <2>2. CASE last[f].did = "changing"  BY <1>1, <1>4, <2>2 DEF Undo, EndedInv, Working
  <2> QED  BY <2>1, <2>2
<1>6. EndedInv'
  <2>1. ~Working'  BY <1>2 DEF Working
  <2> QED  BY <1>1, <1>2, <1>4, <1>5, <2>1 DEF Undo, EndedInv, Unstopped
<1> QED  BY <1>3, <1>6 DEF Undo

LEMMA AbandonUndo ==
  ASSUME Base, Kept, Undo, Working, Abandon,
         \/ UNCHANGED disk
         \/ \E n \in job.steps \cap (Names \ {"exclude"}), torn \in Files :
              disk' = [disk EXCEPT ![Key(job.folder, n)] = torn]
  PROVE  Undo'
<1>0. PICK f \in Folders : f = job.folder  BY JobIs DEF Base
<1>1. /\ UNCHANGED <<hook, chained, record, index, before>> /\ spoilt' = spoilt \cup {<<"stopped", f, "">>}
      /\ job' = Idle /\ last' = [last EXCEPT ![f].did = "stopped"]
  BY <1>0 DEF Abandon
<1>2. job'.steps = {} /\ job'.at = "idle"  BY <1>1, IdleTyped
<1>3. ~Unstopped(f)' /\ \A g \in Folders : Unstopped(g)' => g # f /\ Unstopped(g)
  BY <1>1 DEF Unstopped
<1>4. (\A g \in Folders, n \in Names : Unedited(g, n)' <=> Unedited(g, n)) /\ (\A g \in Folders : Alone(g)' <=> Alone(g))
      /\ (UneditedHook' <=> UneditedHook)
  BY <1>1 DEF Unedited, Alone, UneditedHook
<1>5. ASSUME NEW g \in Folders, NEW n \in Names, g # f \/ n = "exclude"
      PROVE  disk'[Key(g, n)] = disk[Key(g, n)]
  <2>1. disk \in [Keys -> Files] /\ Key(g, n) \in Keys /\ \A m \in Names : Key(f, m) \in Keys
    BY <1>1, KeysAre DEF Base, InstallerTyped
  <2>2. \A m \in Names \ {"exclude"} : Key(f, m) # Key(g, n)  BY <1>5, KeysAre
  <2>3. CASE UNCHANGED disk  BY <2>3
  <2>4. CASE \E m \in job.steps \cap (Names \ {"exclude"}), torn \in Files : disk' = [disk EXCEPT ![Key(job.folder, m)] = torn]
    BY <1>0, <2>1, <2>2, <2>4
  <2> QED  BY <2>3, <2>4
<1>6. ASSUME NEW g \in Folders, g # f PROVE RecordLeft(g)' = record[g] /\ RecordLeft(g) = record[g]
  BY <1>0, <1>1, <1>2, <1>6 DEF RecordLeft
<1>7. ASSUME NEW g \in Folders, NEW n \in Names, g # f, n # "exclude" \/ "exclude" \notin job.steps
      PROVE  Left(g, n)' = Left(g, n)
  <2>1. n \in job.steps => Key(f, n) # Key(g, n)  BY <1>7, KeysAre
  <2> QED  BY <1>0, <1>2, <1>5, <1>7, <2>1 DEF Left
<1>8. FilesInv'
  <2>0. UNCHANGED before  BY <1>1
  <2> SUFFICES ASSUME NEW g \in Folders, NEW n \in Names, Unstopped(g)', Unedited(g, n)', n = "exclude" => Alone(g)'
               PROVE  LET was == before.disk[Key(g, n)] IN
                      \/ Untouched(RecordLeft(g)', n, Left(g, n)', was)
                      \/ Undoable(RecordLeft(g)', n, Left(g, n)', was)
    BY <2>0 DEF FilesInv, Untouched, Undoable, EntryFor
  <2>1. g # f /\ Unstopped(g) /\ Unedited(g, n) /\ (n = "exclude" => Alone(g))  BY <1>3, <1>4
  <2>2. n # "exclude" \/ "exclude" \notin job.steps  BY <1>0, <2>1 DEF Undo, GitSideInv
  <2>3. Left(g, n)' = Left(g, n) /\ RecordLeft(g)' = RecordLeft(g)  BY <1>6, <1>7, <2>1, <2>2
  <2> QED  BY <2>1, <2>3 DEF Undo, FilesInv
<1>9. LinesKnown'
  <2> SUFFICES ASSUME NEW g \in Folders, NEW n \in Names \cap SettingsAgents, Unstopped(g)'
               PROVE  Known(n, RecordLeft(g)', Left(g, n)') /\ \A line \in RecordLeft(g)'.originals[n].says : ~IsHook(line)
    BY DEF LinesKnown, Known, Readable
  <2>1. g # f /\ Unstopped(g) /\ n # "exclude"  BY <1>3, NamesAre
  <2>2. Left(g, n)' = Left(g, n) /\ RecordLeft(g)' = RecordLeft(g)  BY <1>6, <1>7, <2>1
  <2> QED  BY <2>1, <2>2 DEF Undo, LinesKnown
<1>10. GitSideInv'
  <2> SUFFICES ASSUME NEW g \in Folders, Unstopped(g)', Alone(g)', UneditedHook'
               PROVE  \/ hook = before.hook /\ chained = "none"
                      \/ hook = "ours" /\ chained = before.hook /\ record[g].there
    <3>1. HookLeft' = hook /\ ChainedLeft' = chained /\ \A g \in Folders : RecordLeft(g)' = record[g]
      BY <1>1, <1>2 DEF HookLeft, ChainedLeft, RecordLeft
    <3> QED  BY <1>1, <1>2, <3>1 DEF GitSideInv
  <2>1. g # f /\ Unstopped(g) /\ Alone(g) /\ UneditedHook  BY <1>3, <1>4
  <2>2. "hook" \notin job.steps /\ "unhook" \notin job.steps  BY <1>0, <2>1 DEF Undo, GitSideInv
  <2>3. "chain" \notin job.steps  BY <2>2 DEF Kept, HookSafe
  <2>4. HookLeft = hook /\ ChainedLeft = chained  BY <2>2, <2>3 DEF HookLeft, ChainedLeft
  <2> QED  BY <1>6, <2>1, <2>4 DEF Undo, GitSideInv
<1>11. EndedInv'
  <2>1. ~Working'  BY <1>2 DEF Working
  <2>2. \A g \in Folders : last'[g].did = IF g = f THEN "stopped" ELSE last[g].did
    BY <1>1, LastChanges DEF Base
  <2>3. UNCHANGED <<record, index>>  BY <1>1
  <2>4. \A g \in Folders : last'[g].did = "disconnected" /\ Unstopped(g)' => ~record'[g].there /\ g \notin index'
    BY <1>3, <2>2, <2>3 DEF Undo, EndedInv
  <2>5. \A g \in Folders : last'[g].did # "changing"  BY <1>0, <2>2 DEF Undo, EndedInv
  <2> QED  BY <1>2, <2>1, <2>4, <2>5 DEF EndedInv
<1> QED  BY <1>8, <1>9, <1>10, <1>11 DEF Undo

LEMMA FailUndo == ASSUME Base, Kept, Undo, Fail PROVE Undo'
<1>1. Working /\ Abandon /\ UNCHANGED disk  BY DEF Fail
<1> QED  BY <1>1, AbandonUndo

LEMMA StopUndo == ASSUME Base, Kept, Undo, Stop PROVE Undo'
  BY StopIs, AbandonUndo

LEMMA EditUndo == ASSUME Base, Undo, NEW f \in Folders, NEW n \in Names, Edit(f, n) PROVE Undo'
<1> DEFINE place == Key(f, n)[1]
<1>1. /\ Touches(place, n) /\ UNCHANGED hook /\ place \in Places /\ Key(f, n) = <<place, n>>
      /\ \E file \in Edited(n, disk[Key(f, n)]) : disk' = [disk EXCEPT ![Key(f, n)] = file]
  BY EditIs
<1> HIDE DEF place
<1>2. Apart(place, n)  BY <1>1, TouchesAre
<1>3. /\ UNCHANGED <<hook, chained, record, index, before>> /\ spoilt' = spoilt \cup {<<"edited", place, n>>}
      /\ job'.at = job.at /\ job'.folder = job.folder /\ job'.steps = job.steps /\ job'.writes = job.writes
      /\ job'.keeps = job.keeps
      /\ \A g \in Folders : last'[g].did \in {last[g].did, "edited"}
  BY <1>1, <1>2 DEF Apart
<1>4. disk \in [Keys -> Files] /\ \A g \in Folders, m \in Names : Key(g, m) \in Keys
  BY KeysAre DEF Base, InstallerTyped
<1>5. /\ \A g \in Folders : RecordLeft(g)' = RecordLeft(g)
      /\ HookLeft' = HookLeft /\ ChainedLeft' = ChainedLeft
  BY <1>3 DEF RecordLeft, HookLeft, ChainedLeft
<1>6. ASSUME NEW g \in Folders, NEW m \in Names, Key(g, m) # Key(f, n) PROVE Left(g, m)' = Left(g, m)
  <2>1. disk'[Key(g, m)] = disk[Key(g, m)]  BY <1>1, <1>4, <1>6
  <2> QED  BY <1>3, <2>1 DEF Left
<1>7. /\ \A g \in Folders : (Unstopped(g)' => Unstopped(g)) /\ (Alone(g)' => Alone(g))
      /\ \A g \in Folders, m \in Names : Unedited(g, m)' => Unedited(g, m) /\ Key(g, m) # Key(f, n)
      /\ UneditedHook' => UneditedHook
  <2>1. /\ \A g \in Folders : (Unstopped(g)' => Unstopped(g)) /\ (Alone(g)' => Alone(g))
        /\ \A g \in Folders, m \in Names : Unedited(g, m)' => Unedited(g, m) /\ <<Key(g, m)[1], m>> # <<place, n>>
        /\ UneditedHook' => UneditedHook
    BY <1>3 DEF Unstopped, Alone, Unedited, UneditedHook
  <2>2. \A g \in Folders, m \in Names : Key(g, m) = Key(f, n) => <<Key(g, m)[1], m>> = <<place, n>>
    BY KeysAre DEF place
  <2> QED  BY <2>1, <2>2, Zenon
<1>8. FilesInv'
  <2> SUFFICES ASSUME NEW g \in Folders, NEW m \in Names, Unstopped(g)', Unedited(g, m)', m = "exclude" => Alone(g)'
               PROVE  LET was == before.disk[Key(g, m)] IN
                      \/ Untouched(RecordLeft(g)', m, Left(g, m)', was)
                      \/ Undoable(RecordLeft(g)', m, Left(g, m)', was)
    BY <1>3 DEF FilesInv, Untouched, Undoable, EntryFor
  <2>1. Unstopped(g) /\ Unedited(g, m) /\ (m = "exclude" => Alone(g)) /\ Key(g, m) # Key(f, n)  BY <1>7
  <2>2. Left(g, m)' = Left(g, m) /\ RecordLeft(g)' = RecordLeft(g)  BY <1>5, <1>6, <2>1
  <2> QED  BY <2>1, <2>2 DEF Undo, FilesInv
<1>9. LinesKnown'
  <2> SUFFICES ASSUME NEW g \in Folders, NEW m \in Names \cap SettingsAgents, Unstopped(g)'
               PROVE  Known(m, RecordLeft(g)', Left(g, m)') /\ \A line \in RecordLeft(g)'.originals[m].says : ~IsHook(line)
    BY DEF LinesKnown, Known, Readable
  <2>1. Unstopped(g) /\ RecordLeft(g)' = RecordLeft(g)  BY <1>5, <1>7
  <2>2. Known(m, RecordLeft(g), Left(g, m)) /\ \A line \in RecordLeft(g).originals[m].says : ~IsHook(line)
    BY <2>1 DEF Undo, LinesKnown
  <2>3. CASE Left(g, m)' = Left(g, m)  BY <2>1, <2>2, <2>3
  <2>4. CASE Left(g, m)' # Left(g, m)
    <3>1. Key(g, m) = Key(f, n) /\ m = n  BY <1>6, <2>4, KeysAre
    <3>2. Left(g, m) = disk[Key(f, n)] /\ Left(g, m)' = disk'[Key(f, n)]
      BY <1>3, <2>4, <3>1 DEF Left
    <3>3. Left(g, m)' \in Edited(n, Left(g, m)) /\ Left(g, m) \in Files
      BY <1>1, <1>4, <3>1, <3>2
    <3> DEFINE now == Left(g, m)'  file == Left(g, m)
    <3>4. ASSUME NEW line \in now.says, IsHook(line) PROVE line \in file.says /\ (Readable(file) => Readable(now))
      <4>1. line \in file.says  BY <3>3, <3>4, EditedIs
      <4>2. now.says \subseteq file.says \cup {Hand}  BY <3>3, <3>4, EditedIs, HookLines
      <4> QED  BY <4>1, <4>2, LinesDiffer DEF Readable
    <3> QED  BY <2>1, <2>2, <3>4 DEF Known
  <2> QED  BY <2>3, <2>4
<1>10. GitSideInv'
  <2> SUFFICES ASSUME NEW g \in Folders, Unstopped(g)', Alone(g)'
               PROVE  /\ job.folder # g /\ Unedited(g, "exclude")' => "exclude" \notin job.steps
                      /\ job.folder # g /\ UneditedHook' => "hook" \notin job.steps /\ "unhook" \notin job.steps
                      /\ UneditedHook' =>
                           \/ HookLeft = before.hook /\ ChainedLeft = "none"
                           \/ HookLeft = "ours" /\ ChainedLeft = before.hook /\ RecordLeft(g).there
    BY <1>3, <1>5 DEF GitSideInv
  <2> QED  BY <1>7, NamesAre DEF Undo, GitSideInv
<1>11. EndedInv'
  <2>1. Working' <=> Working  BY <1>3 DEF Working
  <2> QED  BY <1>3, <1>7, <2>1 DEF Undo, EndedInv
<1> QED  BY <1>8, <1>9, <1>10, <1>11 DEF Undo

LEMMA EditHookUndo == ASSUME Base, Undo, EditHook PROVE Undo'
<1>1. Touches(Git, "hook") /\ UNCHANGED disk /\ Git \in Places  BY DEF EditHook, Places
<1>2. Apart(Git, "hook")  BY <1>1, TouchesAre
<1>3. /\ UNCHANGED <<disk, chained, record, index, before>> /\ spoilt' = spoilt \cup {<<"edited", Git, "hook">>}
      /\ job'.at = job.at /\ job'.folder = job.folder /\ job'.steps = job.steps /\ job'.writes = job.writes
      /\ job'.keeps = job.keeps
      /\ \A g \in Folders : last'[g].did \in {last[g].did, "edited"}
  BY <1>1, <1>2 DEF Apart
<1>4. ~UneditedHook'  BY <1>3 DEF UneditedHook
<1>5. /\ \A g \in Folders, m \in Names : Left(g, m)' = Left(g, m)
      /\ \A g \in Folders : RecordLeft(g)' = RecordLeft(g)
  BY <1>3 DEF Left, RecordLeft
<1>6. /\ \A g \in Folders : (Unstopped(g)' => Unstopped(g)) /\ (Alone(g)' => Alone(g))
      /\ \A g \in Folders, m \in Names : Unedited(g, m)' => Unedited(g, m)
  BY <1>3 DEF Unstopped, Alone, Unedited
<1>7. FilesInv'
  <2> SUFFICES ASSUME NEW g \in Folders, NEW m \in Names, Unstopped(g)', Unedited(g, m)', m = "exclude" => Alone(g)'
               PROVE  LET was == before.disk[Key(g, m)] IN
                      \/ Untouched(RecordLeft(g), m, Left(g, m), was)
                      \/ Undoable(RecordLeft(g), m, Left(g, m), was)
    BY <1>3, <1>5 DEF FilesInv, Untouched, Undoable, EntryFor
  <2> QED  BY <1>6 DEF Undo, FilesInv
<1>8. LinesKnown'  BY <1>5, <1>6 DEF Undo, LinesKnown, Known, Readable
<1>9. GitSideInv'  BY <1>3, <1>4, <1>6, NamesAre DEF Undo, GitSideInv
<1>10. EndedInv'
  <2>1. Working' <=> Working  BY <1>3 DEF Working
  <2> QED  BY <1>3, <1>6, <2>1 DEF Undo, EndedInv
<1> QED  BY <1>7, <1>8, <1>9, <1>10 DEF Undo

LEMMA UndoSame ==
  ASSUME Undo, UNCHANGED <<disk, hook, chained, record, index, job, last, before, spoilt>> PROVE Undo'
<1>1. Leaves  BY StaysPending
<1>2. FilesInv' /\ LinesKnown' /\ GitSideInv'  BY <1>1, UndoStays DEF Undo
<1>3. EndedInv'  BY DEF Undo, EndedInv, Working, Unstopped
<1> QED  BY <1>2, <1>3 DEF Undo

(* What an uninstall leaves of a file is what was there before.            *)
LEMMA WithoutPutsBack ==
  ASSUME Base, NEW f \in Folders, NEW n \in Names,
         LET was == before.disk[Key(f, n)] IN
           Untouched(record[f], n, disk[Key(f, n)], was) \/ Undoable(record[f], n, disk[Key(f, n)], was),
         n \in SettingsAgents /\ ~record[f].there => \A line \in disk[Key(f, n)].says : ~IsHook(line)
  PROVE  Without(f, n) = before.disk[Key(f, n)]
<1> DEFINE rec == record[f]  file == disk[Key(f, n)]  was == before.disk[Key(f, n)]
<1>1. file \in Files /\ was \in Files /\ was.says \subseteq {Own, Include} /\ (n = "muse" => was = NoFile)
  <2>1. Key(f, n) \in Keys /\ (n = "muse" => Key(f, n) = <<f, "muse">> /\ "muse" \in Agents)
    BY KeysAre DEF Key, Names
  <2> QED  BY <2>1 DEF Base, InstallerTyped, BeforeFits
<1>2. (~file.there => file = NoFile) /\ (file.there => file = Text(file.says)) /\ (~was.there => was = NoFile)
  BY <1>1, FilesAre
<1>3. Untouched(rec, n, file, was) \/ Undoable(rec, n, file, was)  OBVIOUS
<1>4. n \in SettingsAgents /\ ~rec.there => \A line \in file.says : ~IsHook(line)  OBVIOUS
<1>5. Without(f, n) = CASE n = "config"  -> WithoutConfig(rec, file)
                        [] n = "muse"    -> WithoutMuse(rec, file)
                        [] n = "exclude" -> WithoutLines(rec, file)
                        [] OTHER         -> WithoutSettings(rec, n, file)
  BY DEF Without
<1>6. ~rec.there => rec = NoRecord  BY DEF Base, RecordsFit, RecordFits
<1>0. SUFFICES Without(f, n) = was  OBVIOUS
<1> HIDE DEF rec, file, was
<1>7. CASE Undoable(rec, n, file, was)
  <2>1. /\ rec.there /\ file.there /\ Unchanged(rec, n, file)
        /\ was.there => Restorable(rec, n, file) /\ rec.originals[n] = was
        /\ ~was.there => ~Restorable(rec, n, file) /\ Created(rec, n, file) /\ n \in rec.made
    BY <1>7, NoFileIs DEF Undoable, Unchanged, Restorable, Created
  <2>2. CASE n = "config"  BY <1>2, <1>5, <2>1, <2>2 DEF WithoutConfig
  <2>3. CASE n = "muse"  BY <1>2, <1>5, <2>1, <2>3 DEF WithoutMuse
  <2>4. CASE n = "exclude"  BY <1>2, <1>5, <2>1, <2>4 DEF WithoutLines
  <2>5. CASE n \in SettingsAgents
    <3>1. \E e \in rec.entries : e[2] = n  BY <1>7, <2>5 DEF Undoable, EntryFor
    <3>2. Without(f, n) = WithoutSettings(rec, n, file)  BY <1>5, <2>5, NamesAre
    <3> QED  BY <1>2, <2>1, <3>1, <3>2 DEF WithoutSettings
  <2> QED  BY <2>2, <2>3, <2>4, <2>5, NamesAre
<1>8. CASE Untouched(rec, n, file, was)
  <2>1. ~Restorable(rec, n, file) /\ ~Created(rec, n, file) /\ n \notin rec.made /\ file = was
    BY <1>8, NoFileIs DEF Untouched, Restorable, Created
  <2>2. CASE n = "config"  BY <1>5, <2>1, <2>2 DEF WithoutConfig
  <2>3. CASE n = "muse"  BY <1>1, <1>5, <2>1, <2>3, NoFileIs DEF WithoutMuse
  <2>4. CASE n = "exclude"
    <3>1. Marker \notin file.says  BY <1>1, <2>1, LinesDiffer
    <3>2. LinesOf(rec, file) = {}  BY <1>8, <2>4, <3>1 DEF LinesOf, Untouched
    <3>3. file.says \ {} = file.says  OBVIOUS
    <3> QED  BY <1>2, <1>5, <2>1, <2>4, <3>2, <3>3 DEF WithoutLines
  <2>5. CASE n \in SettingsAgents
    <3>1. rec.there => \A e \in rec.entries : e[2] # n  BY <1>8 DEF Untouched, EntryFor
    <3>2. ~rec.there => OursIn(rec, n, file) = {}  BY <1>4, <2>5 DEF OursIn
    <3>3. Without(f, n) = WithoutSettings(rec, n, file)  BY <1>5, <2>5, NamesAre
    <3> QED  BY <2>1, <3>1, <3>2, <3>3 DEF WithoutSettings
  <2> QED  BY <2>2, <2>3, <2>4, <2>5, NamesAre
<1> QED  BY <1>3, <1>7, <1>8

(* Nothing runs the hook in what an uninstall leaves of a settings file.   *)
LEMMA NoHooksLeft ==
  ASSUME Base, NEW f \in Folders, NEW n \in Names \cap SettingsAgents,
         Known(n, record[f], disk[Key(f, n)]), \A line \in record[f].originals[n].says : ~IsHook(line)
  PROVE  \A line \in Without(f, n).says : ~IsHook(line)
<1> DEFINE rec == record[f]  file == disk[Key(f, n)]  ours == OursIn(rec, n, file)  left == file.says \ ours
<1>1. Without(f, n) = WithoutSettings(rec, n, file)  BY NamesAre DEF Without
<1>2. \A line \in left : ~IsHook(line)
  <2>1. CASE rec.there  BY <2>1 DEF OursIn, Known
  <2>2. CASE ~rec.there  BY <2>2 DEF OursIn
  <2> QED  BY <2>1, <2>2
<1>3. file \in Files
  <2>1. Key(f, n) \in Keys  BY KeysAre
  <2> QED  BY <2>1 DEF Base, InstallerTyped
<1>4. ~file.there \/ (rec.there /\ (\A e \in rec.entries : e[2] # n)) \/ ~Readable(file) \/ ours = {}
        => \A line \in file.says : ~IsHook(line)
  <2>1. CASE ~file.there  BY <1>3, <2>1, FilesAre
  <2>2. CASE \A e \in rec.entries : e[2] # n  BY <2>2 DEF Known
  <2>3. CASE ~Readable(file)  BY <2>3 DEF Known
  <2>4. CASE ours = {}  BY <1>2, <2>4
  <2> QED  BY <2>1, <2>2, <2>3, <2>4
<1>5. Text(left).says = left  BY DEF Text
<1>6. \A line \in rec.originals[n].says : ~IsHook(line)  OBVIOUS
<1> HIDE DEF rec, file, left, ours
<1>7. \/ WithoutSettings(rec, n, file) \in {rec.originals[n], NoFile, Text(left)}
      \/ WithoutSettings(rec, n, file) = file
           /\ (~file.there \/ (rec.there /\ (\A e \in rec.entries : e[2] # n)) \/ ~Readable(file) \/ ours = {})
  BY DEF WithoutSettings, ours, left
<1>8. CASE WithoutSettings(rec, n, file) \in {rec.originals[n], NoFile, Text(left)}
  BY <1>1, <1>2, <1>5, <1>6, <1>8, NoFileIs
<1>9. CASE WithoutSettings(rec, n, file) = file
             /\ (~file.there \/ (rec.there /\ (\A e \in rec.entries : e[2] # n)) \/ ~Readable(file) \/ ours = {})
  BY <1>1, <1>4, <1>9
<1> QED  BY <1>7, <1>8, <1>9

(* What a disconnect starts with, and what it will leave.                  *)
LEMMA DisconnectLeaves ==
  ASSUME Base, NEW f \in Folders, Disconnect(f)
  PROVE  /\ UNCHANGED <<disk, hook, chained, record, index, before, spoilt>> /\ job = Idle
         /\ job'.at = "uninstall" /\ job'.folder = f /\ last' = [last EXCEPT ![f].did = "changing"]
         /\ \A n \in Names \ {"exclude"} : Left(f, n)' = Without(f, n)
         /\ \A g \in Folders, n \in Names : g # f /\ n # "exclude" => Left(g, n)' = disk[Key(g, n)]
         /\ \A g \in Folders : Left(g, "exclude")' = IF "exclude" \in job'.steps THEN Without(f, "exclude")
                                                     ELSE disk[Key(g, "exclude")]
         /\ "exclude" \in job'.steps <=>
              f \in Checkouts /\ LastCheckout(f) /\ Without(f, "exclude") # disk[Key(f, "exclude")]
         /\ \A g \in Folders : RecordLeft(g)' = IF g = f THEN NoRecord ELSE record[g]
         /\ "unhook" \in job'.steps <=> f \in Checkouts /\ LastCheckout(f) /\ hook = "ours"
         /\ "hook" \notin job'.steps /\ "chain" \notin job'.steps
         /\ record[f].there => "unrecord" \in job'.steps
         /\ f \in index => "unindex" \in job'.steps
<1> DEFINE steps == UninstallSteps(f)  writes == [n \in Names |-> Without(f, n)]
<1>1. /\ UNCHANGED <<disk, hook, chained, record, index, before, spoilt>> /\ job = Idle
      /\ job'.at = "uninstall" /\ job'.folder = f /\ last' = [last EXCEPT ![f].did = "changing"]
      /\ job'.steps = steps /\ job'.writes = writes
  BY DEF Disconnect, Begin, system
<1>2. {"hook", "chain", "unhook", "record", "unrecord", "index", "unindex", "unregister"} \cap Names = {}
  BY NamesAre DEF SettingsAgents
<1>3. /\ \A n \in Names : n \in steps <=> Without(f, n) # disk[Key(f, n)] /\ (n = "exclude" => f \in Checkouts /\ LastCheckout(f))
      /\ "unhook" \in steps <=> f \in Checkouts /\ LastCheckout(f) /\ hook = "ours"
      /\ "hook" \notin steps /\ "chain" \notin steps /\ "record" \notin steps
      /\ record[f].there <=> "unrecord" \in steps
      /\ f \in index => "unindex" \in steps
  BY <1>2 DEF UninstallSteps, Optional
<1>4. \A n \in Names : writes[n] = Without(f, n)  OBVIOUS
<1> HIDE DEF steps, writes
<1>5. \A g \in Folders, n \in Names :
        Left(g, n)' = IF n \in steps /\ Key(f, n) = Key(g, n) THEN Without(f, n) ELSE disk[Key(g, n)]
  BY <1>1, <1>4 DEF Left
<1>6. \A n \in Names \ {"exclude"} : Left(f, n)' = Without(f, n)  BY <1>3, <1>5
<1>7. \A g \in Folders, n \in Names : g # f /\ n # "exclude" => Left(g, n)' = disk[Key(g, n)]
  <2>1. \A g \in Folders, n \in Names : g # f /\ n # "exclude" => Key(f, n) # Key(g, n)  BY KeysAre
  <2> QED  BY <1>5, <2>1
<1>8. \A g \in Folders : Left(g, "exclude")' = IF "exclude" \in steps THEN Without(f, "exclude") ELSE disk[Key(g, "exclude")]
  BY <1>5, KeysAre, NamesAre
<1>9. \A g \in Folders : RecordLeft(g)' = IF g = f THEN NoRecord ELSE record[g]
  <2>1. ~record[f].there => record[f] = NoRecord  BY DEF Base, RecordsFit, RecordFits
  <2> QED  BY <1>1, <1>3, <2>1 DEF RecordLeft
<1>10. "exclude" \in steps <=> f \in Checkouts /\ LastCheckout(f) /\ Without(f, "exclude") # disk[Key(f, "exclude")]
  BY <1>3, NamesAre
<1> QED  BY <1>1, <1>3, <1>6, <1>7, <1>8, <1>9, <1>10

LEMMA AloneIsLast ==
  ASSUME Base, NEW g \in Folders, Alone(g)
  PROVE  g \in Checkouts /\ LastCheckout(g) /\ \A f \in Checkouts \ {g} : ~record[f].there
  BY InstallerAssumption DEF Base, RecordsFit, Alone, LastCheckout

LEMMA DisconnectUndo == ASSUME Base, Undo, NEW f \in Folders, Disconnect(f) PROVE Undo'
<1>1. /\ UNCHANGED <<disk, hook, chained, record, index, before, spoilt>>
      /\ job'.at = "uninstall" /\ job'.folder = f /\ last' = [last EXCEPT ![f].did = "changing"]
      /\ "hook" \notin job'.steps /\ "chain" \notin job'.steps
      /\ "unhook" \in job'.steps <=> f \in Checkouts /\ LastCheckout(f) /\ hook = "ours"
      /\ "exclude" \in job'.steps <=>
           f \in Checkouts /\ LastCheckout(f) /\ Without(f, "exclude") # disk[Key(f, "exclude")]
      /\ record[f].there => "unrecord" \in job'.steps
      /\ f \in index => "unindex" \in job'.steps
  BY DisconnectLeaves
<1>2. job.steps = {} /\ ~Working /\ Working'  BY <1>1, DisconnectLeaves, IdleTyped DEF Working
<1>3. /\ \A g \in Folders, n \in Names : Left(g, n) = disk[Key(g, n)]
      /\ \A g \in Folders : RecordLeft(g) = record[g]
      /\ HookLeft = hook /\ ChainedLeft = chained
  BY <1>2, NothingPending
<1>4. /\ \A n \in Names \ {"exclude"} : Left(f, n)' = Without(f, n)
      /\ \A g \in Folders, n \in Names : g # f /\ n # "exclude" => Left(g, n)' = disk[Key(g, n)]
      /\ \A g \in Folders : Left(g, "exclude")' = IF "exclude" \in job'.steps THEN Without(f, "exclude")
                                                  ELSE disk[Key(g, "exclude")]
      /\ \A g \in Folders : RecordLeft(g)' = IF g = f THEN NoRecord ELSE record[g]
  BY DisconnectLeaves
<1>5. /\ \A g \in Folders : (Unstopped(g)' <=> Unstopped(g)) /\ (Alone(g)' <=> Alone(g))
      /\ \A g \in Folders, n \in Names : Unedited(g, n)' <=> Unedited(g, n)
      /\ UneditedHook' <=> UneditedHook
  BY <1>1 DEF Unstopped, Alone, Unedited, UneditedHook
<1>6. ASSUME NEW g \in Folders, NEW n \in Names, Unstopped(g), Unedited(g, n), n = "exclude" => Alone(g)
      PROVE  LET was == before.disk[Key(g, n)] IN
             Untouched(record[g], n, disk[Key(g, n)], was) \/ Undoable(record[g], n, disk[Key(g, n)], was)
  BY <1>3, <1>6 DEF Undo, FilesInv
<1>7. ASSUME NEW g \in Folders, NEW n \in Names \cap SettingsAgents, Unstopped(g)
      PROVE  /\ Known(n, record[g], disk[Key(g, n)])
             /\ \A line \in record[g].originals[n].says : ~IsHook(line)
             /\ ~record[g].there => \A line \in disk[Key(g, n)].says : ~IsHook(line)
  <2>1. /\ Known(n, record[g], disk[Key(g, n)])
        /\ \A line \in record[g].originals[n].says : ~IsHook(line)
    BY <1>3, <1>7 DEF Undo, LinesKnown
  <2>2. ~record[g].there => record[g] = NoRecord  BY DEF Base, RecordsFit, RecordFits
  <2> QED  BY <2>1, <2>2, NoRecordIs DEF Known
<1>8. ASSUME NEW n \in Names, Unstopped(f), Unedited(f, n), n = "exclude" => Alone(f)
      PROVE  Without(f, n) = before.disk[Key(f, n)]
  <2>1. n \in SettingsAgents /\ ~record[f].there => \A line \in disk[Key(f, n)].says : ~IsHook(line)
    BY <1>7, <1>8
  <2> QED  BY <1>6, <1>8, <2>1, WithoutPutsBack
<1>9. ASSUME NEW g \in Folders, g # f, Unstopped(g), Alone(g), Unedited(g, "exclude")
      PROVE  "exclude" \notin job'.steps
  <2> SUFFICES ASSUME f \in Checkouts, LastCheckout(f) PROVE Without(f, "exclude") = disk[Key(f, "exclude")]
    BY <1>1
  <2>1. g \in Checkouts /\ ~record[g].there /\ ~record[f].there  BY <1>9, AloneIsLast DEF LastCheckout
  <2>2. record[f] = NoRecord  BY <2>1 DEF Base, RecordsFit, RecordFits
  <2>3. disk[Key(f, "exclude")] = before.disk[Key(f, "exclude")]
    <3>1. Key(g, "exclude") = Key(f, "exclude")  BY KeysAre
    <3>2. ~Undoable(record[g], "exclude", disk[Key(g, "exclude")], before.disk[Key(g, "exclude")])  BY <2>1 DEF Undoable
    <3>3. Untouched(record[g], "exclude", disk[Key(g, "exclude")], before.disk[Key(g, "exclude")])
      BY <1>6, <1>9, <3>2, NamesAre
    <3> QED  BY <3>1, <3>3 DEF Untouched
  <2>4. Untouched(record[f], "exclude", disk[Key(f, "exclude")], before.disk[Key(f, "exclude")])
    BY <2>2, <2>3, NoRecordIs, NamesAre DEF Untouched, EntryFor
  <2>5. Without(f, "exclude") = before.disk[Key(f, "exclude")]  BY <2>4, WithoutPutsBack, NamesAre
  <2> QED  BY <2>3, <2>5
<1>10. FilesInv'
  <2> SUFFICES ASSUME NEW g \in Folders, NEW n \in Names, Unstopped(g), Unedited(g, n), n = "exclude" => Alone(g)
               PROVE  LET was == before.disk[Key(g, n)] IN
                      \/ Untouched(RecordLeft(g)', n, Left(g, n)', was)
                      \/ Undoable(RecordLeft(g)', n, Left(g, n)', was)
    <3>1. UNCHANGED before  BY <1>1
    <3> QED  BY <1>5, <3>1 DEF FilesInv, Untouched, Undoable, EntryFor
  <2>1. CASE g # f
    <3>1. Left(g, n)' = disk[Key(g, n)]
      <4>1. CASE n # "exclude"  BY <1>4, <2>1, <4>1
      <4>2. CASE n = "exclude"  BY <1>4, <1>9, <2>1, <4>2
      <4> QED  BY <4>1, <4>2
    <3> QED  BY <1>4, <1>6, <2>1, <3>1
  <2>2. CASE g = f
    <3>1. Left(f, n)' = before.disk[Key(f, n)]
      <4>1. Without(f, n) = before.disk[Key(f, n)]  BY <1>8, <2>2
      <4>2. CASE n # "exclude"  BY <1>4, <4>1, <4>2
      <4>3. CASE n = "exclude"
        <5>1. f \in Checkouts /\ LastCheckout(f)  BY <2>2, <4>3, AloneIsLast
        <5> QED  BY <1>1, <1>4, <4>1, <4>3, <5>1
      <4> QED  BY <4>2, <4>3
    <3>2. Untouched(NoRecord, n, Left(f, n)', before.disk[Key(f, n)])
      BY <3>1, NoRecordIs DEF Untouched, EntryFor
    <3> QED  BY <1>4, <2>2, <3>2
  <2> QED  BY <2>1, <2>2
<1>11. LinesKnown'
  <2> SUFFICES ASSUME NEW g \in Folders, NEW n \in Names \cap SettingsAgents, Unstopped(g)
               PROVE  Known(n, RecordLeft(g)', Left(g, n)') /\ \A line \in RecordLeft(g)'.originals[n].says : ~IsHook(line)
    BY <1>5 DEF LinesKnown, Known, Readable
  <2>0. n # "exclude"  BY NamesAre
  <2>1. CASE g # f  BY <1>4, <1>7, <2>0, <2>1
  <2>2. CASE g = f
    <3>1. \A line \in Without(f, n).says : ~IsHook(line)  BY <1>7, <2>2, NoHooksLeft
    <3> QED  BY <1>4, <2>0, <2>2, <3>1, NoRecordIs, NoFileIs DEF Known
  <2> QED  BY <2>1, <2>2
<1>12. ASSUME NEW g \in Folders, Unstopped(g), Alone(g), UneditedHook
       PROVE  /\ g # f => "unhook" \notin job'.steps
              /\ \/ HookLeft' = before.hook /\ ChainedLeft' = "none"
                 \/ HookLeft' = "ours" /\ ChainedLeft' = before.hook /\ RecordLeft(g)'.there
  <2>1. \/ hook = before.hook /\ chained = "none"
        \/ hook = "ours" /\ chained = before.hook /\ record[g].there
    BY <1>3, <1>12 DEF Undo, GitSideInv
  <2>2. before.hook # "ours"  BY DEF Base, InstallerTyped
  <2>3. HookLeft' = (IF "unhook" \in job'.steps THEN chained ELSE hook)
        /\ ChainedLeft' = (IF "unhook" \in job'.steps THEN "none" ELSE chained)
    BY <1>1 DEF HookLeft, ChainedLeft
  <2>4. CASE g # f
    <3>1. "unhook" \notin job'.steps
      <4> SUFFICES ASSUME f \in Checkouts, LastCheckout(f), hook = "ours" PROVE FALSE  BY <1>1
      <4>1. g \in Checkouts \ {f}  BY <1>12, <2>4 DEF Alone
      <4>2. ~record[g].there  BY <4>1 DEF LastCheckout
      <4> QED  BY <2>1, <2>2, <4>2
    <3> QED  BY <1>4, <2>1, <2>3, <2>4, <3>1
  <2>5. CASE g = f
    <3>1. f \in Checkouts /\ LastCheckout(f)  BY <1>12, <2>5, AloneIsLast
    <3>2. "unhook" \in job'.steps <=> hook = "ours"  BY <1>1, <3>1
    <3> QED  BY <2>1, <2>2, <2>3, <2>5, <3>2
  <2> QED  BY <2>4, <2>5
<1>13. GitSideInv'
  <2> SUFFICES ASSUME NEW g \in Folders, Unstopped(g), Alone(g)
               PROVE  /\ g # f /\ Unedited(g, "exclude") => "exclude" \notin job'.steps
                      /\ g # f /\ UneditedHook => "hook" \notin job'.steps /\ "unhook" \notin job'.steps
                      /\ UneditedHook =>
                           \/ HookLeft' = before.hook /\ ChainedLeft' = "none"
                           \/ HookLeft' = "ours" /\ ChainedLeft' = before.hook /\ RecordLeft(g)'.there
    <3>1. UNCHANGED before /\ job'.folder = f  BY <1>1
    <3>2. \A g \in Folders : Unedited(g, "exclude")' <=> Unedited(g, "exclude")  BY <1>5, NamesAre
    <3> QED  BY <1>5, <3>1, <3>2 DEF GitSideInv
  <2> QED  BY <1>1, <1>9, <1>12
<1>14. EndedInv'
  <2>1. \A g \in Folders : last'[g].did = IF g = f THEN "changing" ELSE last[g].did
    BY <1>1, LastChanges DEF Base
  <2>2. UNCHANGED <<record, index>>  BY <1>1
  <2>3. \A g \in Folders : last'[g].did = "disconnected" /\ Unstopped(g)' => ~record'[g].there /\ g \notin index'
    BY <1>5, <2>1, <2>2 DEF Undo, EndedInv
  <2>4. \A g \in Folders : last'[g].did \in {"connected", "disconnected"} => g # f  BY <2>1
  <2>5. \A g \in Folders : last'[g].did = "changing" => g = f  BY <1>2, <2>1 DEF Undo, EndedInv
  <2> QED  BY <1>1, <1>2, <2>2, <2>3, <2>4, <2>5 DEF EndedInv
<1> QED  BY <1>10, <1>11, <1>13, <1>14 DEF Undo

(* What an install planned will leave.                                     *)
LEMMA PlanLeaves ==
  ASSUME Base, PlanInstall, Plans, NEW f \in Folders, NEW r \in Requests, f = job.folder, r = job.request
  PROVE  /\ UNCHANGED <<disk, hook, chained, record, index, copies, before, spoilt>>
         /\ job.at = "fetch" /\ job.steps = {} /\ ~Stopping(f, r, job.found)
         /\ job'.at = "install" /\ job'.folder = f /\ job'.request = r /\ last' = [last EXCEPT ![f].did = "changing"]
         /\ job'.version = job.version /\ job'.steps = InstallSteps(f, r)
         /\ \A n \in Names : job'.writes[n] = With(f, r, n)
         /\ \A n \in Names : Left(f, n)' = IF n \in Changed(f, r) THEN With(f, r, n) ELSE disk[Key(f, n)]
         /\ \A g \in Folders, n \in Names :
              g # f /\ (n # "exclude" \/ n \notin Changed(f, r)) => Left(g, n)' = disk[Key(g, n)]
         /\ "exclude" \in job'.steps <=> "exclude" \in Changed(f, r)
         /\ \A g \in Folders : RecordLeft(g)' = IF g = f THEN Recorded(f, r) ELSE record[g]
         /\ HookLeft' = IF Hooks(f) THEN "ours" ELSE hook
         /\ ChainedLeft' = IF Hooks(f) /\ hook # "none" THEN hook ELSE chained
         /\ "hook" \in job'.steps <=> Hooks(f)
         /\ "unhook" \notin job'.steps
<1>1. /\ UNCHANGED <<disk, hook, chained, record, index, copies, before, spoilt>>
      /\ job.at = "fetch" /\ ~Stopping(f, r, job.found)
      /\ last' = [last EXCEPT ![f].did = "changing"]
  BY PlansOrNot DEF Plans, system
<1>2. /\ job'.at = "install" /\ job'.folder = f /\ job'.request = r /\ job'.steps = InstallSteps(f, r)
      /\ job'.keeps = Recorded(f, r) /\ job'.version = job.version
      /\ \A n \in Names : job'.writes[n] = With(f, r, n)
  BY <1>1, PlansAre
<1>3. job.steps = {}  BY <1>1, JobIs DEF Base
<1>4. /\ \A n \in Names : n \in InstallSteps(f, r) <=> n \in Changed(f, r)
      /\ "hook" \in InstallSteps(f, r) <=> Hooks(f)
      /\ "chain" \in InstallSteps(f, r) <=> Hooks(f) /\ hook # "none"
      /\ "unhook" \notin InstallSteps(f, r) /\ "unrecord" \notin InstallSteps(f, r) /\ "record" \in InstallSteps(f, r)
  BY HookStepsAre
<1>5. \A g \in Folders, n \in Names :
        Left(g, n)' = IF n \in Changed(f, r) /\ Key(f, n) = Key(g, n) THEN With(f, r, n) ELSE disk[Key(g, n)]
  BY <1>1, <1>2, <1>4 DEF Left
<1>6. \A g \in Folders, n \in Names : g # f /\ (n # "exclude" \/ n \notin Changed(f, r)) => Left(g, n)' = disk[Key(g, n)]
  <2>1. \A g \in Folders, n \in Names : g # f /\ n # "exclude" => Key(f, n) # Key(g, n)  BY KeysAre
  <2> QED  BY <1>5, <2>1
<1>7. \A g \in Folders : RecordLeft(g)' = IF g = f THEN Recorded(f, r) ELSE record[g]
  BY <1>1, <1>2, <1>4 DEF RecordLeft
<1>8. /\ HookLeft' = IF Hooks(f) THEN "ours" ELSE hook
      /\ ChainedLeft' = IF Hooks(f) /\ hook # "none" THEN hook ELSE chained
  BY <1>1, <1>2, <1>4 DEF HookLeft, ChainedLeft
<1>9. \A n \in Names : Left(f, n)' = IF n \in Changed(f, r) THEN With(f, r, n) ELSE disk[Key(f, n)]
  BY <1>5
<1>10. "exclude" \in job'.steps <=> "exclude" \in Changed(f, r)  BY <1>2, <1>4, NamesAre
<1> QED  BY <1>1, <1>2, <1>3, <1>4, <1>6, <1>7, <1>8, <1>9, <1>10

(* What an install plans to write it can undo.                             *)
LEMMA RecordsTheOld ==
  ASSUME Base, NEW f \in Folders, NEW r \in Requests, NEW n \in Names, NEW was \in Files,
         Untouched(record[f], n, disk[Key(f, n)], was) \/ Undoable(record[f], n, disk[Key(f, n)], was)
  PROVE  LET left == IF n \in Changed(f, r) THEN With(f, r, n) ELSE disk[Key(f, n)] IN
         Untouched(Recorded(f, r), n, left, was) \/ Undoable(Recorded(f, r), n, left, was)
<1> DEFINE old == record[f]  rec == Recorded(f, r)  file == disk[Key(f, n)]  changed == Changed(f, r)
<1>1. /\ rec.there
      /\ n \in rec.made <=> n \in old.made \/ (n \in changed /\ ~file.there)
      /\ rec.originals[n] = IF n \in changed THEN Original(old, n, file) ELSE old.originals[n]
      /\ rec.installed[n] = IF n \in changed THEN With(f, r, n) ELSE old.installed[n]
      /\ n = "exclude" /\ n \notin changed => rec.lines = old.lines
  <2>1. /\ rec.there
        /\ rec.made = old.made \cup {m \in changed : ~disk[Key(f, m)].there}
        /\ rec.originals[n] = IF n \in changed THEN Original(old, n, file) ELSE old.originals[n]
        /\ rec.installed[n] = IF n \in changed THEN With(f, r, n) ELSE old.installed[n]
    BY Marking DEF Base
  <2>2. n \in rec.made <=> n \in old.made \/ (n \in changed /\ ~file.there)  BY <2>1
  <2>3. ASSUME "exclude" \notin changed PROVE rec.lines = old.lines
    <3>1. rec.lines = old.lines \cup {}  BY <2>3, Marking DEF Base
    <3> QED  BY <3>1
  <2> QED  BY <2>1, <2>2, <2>3
<1>2. EntryFor(rec, n) <=> EntryFor(old, n) \/ n \in changed \cap SettingsAgents  BY EntriesFor DEF Base
<1>3. With(f, r, n).there  BY WithIs DEF Base
<1>4. Untouched(old, n, file, was) \/ Undoable(old, n, file, was)  OBVIOUS
<1>5. (~was.there => was = NoFile) /\ (~NoFile.there)  BY FilesAre, NoFileIs
<1>6. SUFFICES LET left == IF n \in changed THEN With(f, r, n) ELSE file IN
               Untouched(rec, n, left, was) \/ Undoable(rec, n, left, was)
  OBVIOUS
<1> HIDE DEF old, rec, file, changed
<1>7. CASE n \notin changed
  <2>1. CASE Untouched(old, n, file, was)  BY <1>1, <1>2, <1>7, <2>1 DEF Untouched
  <2>2. CASE Undoable(old, n, file, was)  BY <1>1, <1>2, <1>7, <2>2 DEF Undoable
  <2> QED  BY <1>4, <2>1, <2>2
<1>8. CASE n \in changed
  <2>1. CASE Untouched(old, n, file, was)
    <3>1. Original(old, n, file) = IF was.there THEN was ELSE NoFile  BY <1>5, <2>1 DEF Untouched, Original
    <3>2. n \in rec.made <=> ~was.there  BY <1>1, <1>8, <2>1 DEF Untouched
    <3> QED  BY <1>1, <1>2, <1>3, <1>8, <3>1, <3>2 DEF Undoable
  <2>2. CASE Undoable(old, n, file, was)
    <3>1. Original(old, n, file) = old.originals[n]  BY <1>5, <2>2 DEF Undoable, Original
    <3>2. n \in rec.made <=> n \in old.made  BY <1>1, <1>8, <2>2 DEF Undoable
    <3> QED  BY <1>1, <1>2, <1>3, <1>8, <2>2, <3>1, <3>2 DEF Undoable
  <2> QED  BY <1>4, <2>1, <2>2
<1> QED  BY <1>7, <1>8

(* ... and the hook lines it writes it records.                            *)
LEMMA RecordsTheLines ==
  ASSUME Base, NEW f \in Folders, NEW r \in Requests, NEW n \in Names \cap SettingsAgents,
         ~Stopping(f, r, job.found), Known(n, record[f], disk[Key(f, n)]),
         \A line \in record[f].originals[n].says : ~IsHook(line)
  PROVE  LET left == IF n \in Changed(f, r) THEN With(f, r, n) ELSE disk[Key(f, n)] IN
         /\ Known(n, Recorded(f, r), left)
         /\ \A line \in Recorded(f, r).originals[n].says : ~IsHook(line)
<1> DEFINE old == record[f]  rec == Recorded(f, r)  file == disk[Key(f, n)]  changed == Changed(f, r)
<1>1. /\ rec.entries = old.entries \cup {HookLine(m, r.python) : m \in changed \cap SettingsAgents}
      /\ rec.originals[n] = IF n \in changed THEN Original(old, n, file) ELSE old.originals[n]
  BY Marking DEF Base
<1>2. n # "exclude"  BY NamesAre
<1>3. CASE n \notin changed
  <2>1. Known(n, rec, file)  BY <1>1 DEF Known
  <2> QED  BY <1>1, <1>3, <2>1
<1>4. CASE n \in changed
  <2>1. With(f, r, n) = Settings(f, n, r)  BY NamesAre DEF With, Data
  <2>2. Settings(f, n, r).says = file.says \cup {HookLine(n, r.python)}  BY SettingsAre DEF Base
  <2>3. HookLine(n, r.python) \in rec.entries  BY <1>1, <1>4
  <2>4. Readable(file)
    <3>1. n \in r.agents /\ ~IsTracked(f, n)  BY <1>2, <1>4, ChangedAre, NamesAre DEF Wanted
    <3>2. Key(f, n) = <<f, n>>  BY <1>2 DEF Key
    <3> QED  BY <3>1, <3>2 DEF Stopping
  <2>5. Readable(With(f, r, n))  BY <2>1, <2>2, <2>4, LinesDiffer DEF Readable
  <2>6. Known(n, rec, With(f, r, n))  BY <1>1, <2>1, <2>2, <2>3, <2>5, HookLines DEF Known
  <2>7. \A line \in rec.originals[n].says : ~IsHook(line)
    <3>1. CASE Original(old, n, file) = old.originals[n]  BY <1>1, <1>4, <3>1
    <3>2. CASE Original(old, n, file) # old.originals[n]
      <4>1. Original(old, n, file) = file /\ ~old.originals[n].there /\ n \notin old.made
        BY <3>2 DEF Original
      <4>2. ~EntryFor(old, n)  BY <4>1 DEF Base, RecordsFit, RecordFits
      <4>3. \A line \in file.says : ~IsHook(line)  BY <4>2 DEF Known, EntryFor
      <4> QED  BY <1>1, <1>4, <4>1, <4>3
    <3> QED  BY <3>1, <3>2
  <2> QED  BY <1>4, <2>6, <2>7
<1> QED  BY <1>3, <1>4

LEMMA PlansUndo == ASSUME Base, Undo, PlanInstall, Plans PROVE Undo'
<1>0. PICK f \in Folders, r \in Requests : f = job.folder /\ r = job.request
  BY PlansOrNot DEF Base, JobFits
<1>1. /\ UNCHANGED <<disk, hook, chained, record, index, before, spoilt>>
      /\ job.at = "fetch" /\ job.steps = {} /\ ~Stopping(f, r, job.found)
      /\ job'.at = "install" /\ job'.folder = f /\ last' = [last EXCEPT ![f].did = "changing"]
      /\ "exclude" \in job'.steps <=> "exclude" \in Changed(f, r)
      /\ HookLeft' = IF Hooks(f) THEN "ours" ELSE hook
      /\ ChainedLeft' = IF Hooks(f) /\ hook # "none" THEN hook ELSE chained
      /\ "hook" \in job'.steps <=> Hooks(f)
      /\ "unhook" \notin job'.steps
  BY <1>0, PlanLeaves
<1>2. /\ \A n \in Names : Left(f, n)' = IF n \in Changed(f, r) THEN With(f, r, n) ELSE disk[Key(f, n)]
      /\ \A g \in Folders, n \in Names :
           g # f /\ (n # "exclude" \/ n \notin Changed(f, r)) => Left(g, n)' = disk[Key(g, n)]
      /\ \A g \in Folders : RecordLeft(g)' = IF g = f THEN Recorded(f, r) ELSE record[g]
  BY <1>0, PlanLeaves
<1>3. /\ \A g \in Folders, n \in Names : Left(g, n) = disk[Key(g, n)]
      /\ \A g \in Folders : RecordLeft(g) = record[g]
      /\ HookLeft = hook /\ ChainedLeft = chained
  BY <1>1, NothingPending
<1>4. /\ \A g \in Folders : (Unstopped(g)' <=> Unstopped(g)) /\ (Alone(g)' <=> Alone(g))
      /\ \A g \in Folders, n \in Names : Unedited(g, n)' <=> Unedited(g, n)
      /\ UneditedHook' <=> UneditedHook
  BY <1>1 DEF Unstopped, Alone, Unedited, UneditedHook
<1>5. ASSUME NEW g \in Folders, g # f, Alone(g) PROVE f \notin Checkouts
  <2>1. <<"joined", f, "">> \in spoilt  BY <1>0, <1>1 DEF Base, JobFits
  <2> QED  BY <1>5, <2>1 DEF Alone
<1>6. "exclude" \in Changed(f, r) => f \in Checkouts  BY ChangedAre
<1>7. Recorded(f, r).there  BY Marking DEF Base
<1>8. FilesInv'
  <2> SUFFICES ASSUME NEW g \in Folders, NEW n \in Names, Unstopped(g), Unedited(g, n), n = "exclude" => Alone(g)
               PROVE  LET was == before.disk[Key(g, n)] IN
                      \/ Untouched(RecordLeft(g)', n, Left(g, n)', was)
                      \/ Undoable(RecordLeft(g)', n, Left(g, n)', was)
    <3>1. UNCHANGED before  BY <1>1
    <3> QED  BY <1>4, <3>1 DEF FilesInv, Untouched, Undoable, EntryFor
  <2> DEFINE was == before.disk[Key(g, n)]
  <2>1. Untouched(record[g], n, disk[Key(g, n)], was) \/ Undoable(record[g], n, disk[Key(g, n)], was)
    BY <1>3 DEF Undo, FilesInv
  <2>2. was \in Files
    <3>1. Key(g, n) \in Keys  BY KeysAre
    <3> QED  BY <3>1 DEF Base, InstallerTyped
  <2>3. CASE g # f
    <3>1. n # "exclude" \/ n \notin Changed(f, r)  BY <1>5, <1>6, <2>3
    <3> QED  BY <1>2, <2>1, <2>3, <3>1
  <2>4. CASE g = f
    <3> DEFINE left == IF n \in Changed(f, r) THEN With(f, r, n) ELSE disk[Key(f, n)]
    <3>1. Untouched(Recorded(f, r), n, left, was) \/ Undoable(Recorded(f, r), n, left, was)
      BY <2>1, <2>2, <2>4, RecordsTheOld
    <3> QED  BY <1>2, <2>4, <3>1
  <2> QED  BY <2>3, <2>4
<1>9. LinesKnown'
  <2> SUFFICES ASSUME NEW g \in Folders, NEW n \in Names \cap SettingsAgents, Unstopped(g)
               PROVE  Known(n, RecordLeft(g)', Left(g, n)') /\ \A line \in RecordLeft(g)'.originals[n].says : ~IsHook(line)
    BY <1>4 DEF LinesKnown, Known, Readable
  <2>1. n # "exclude"  BY NamesAre
  <2>2. Known(n, record[g], disk[Key(g, n)]) /\ \A line \in record[g].originals[n].says : ~IsHook(line)
    BY <1>3 DEF Undo, LinesKnown
  <2>3. CASE g # f  BY <1>2, <2>1, <2>2, <2>3
  <2>4. CASE g = f
    <3> DEFINE left == IF n \in Changed(f, r) THEN With(f, r, n) ELSE disk[Key(f, n)]
    <3>1. Known(n, Recorded(f, r), left) /\ \A line \in Recorded(f, r).originals[n].says : ~IsHook(line)
      BY <1>1, <2>2, <2>4, RecordsTheLines
    <3> QED  BY <1>2, <2>4, <3>1
  <2> QED  BY <2>3, <2>4
<1>10. ASSUME NEW g \in Folders, Unstopped(g), Alone(g), UneditedHook
       PROVE  \/ HookLeft' = before.hook /\ ChainedLeft' = "none"
              \/ HookLeft' = "ours" /\ ChainedLeft' = before.hook /\ RecordLeft(g)'.there
  <2>1. \/ hook = before.hook /\ chained = "none"
        \/ hook = "ours" /\ chained = before.hook /\ record[g].there
    BY <1>3, <1>10 DEF Undo, GitSideInv
  <2>2. CASE g # f
    <3>1. ~Hooks(f)  BY <1>5, <1>10, <2>2 DEF Hooks
    <3> QED  BY <1>1, <1>2, <2>1, <2>2, <3>1
  <2>3. CASE g = f
    <3>1. RecordLeft(g)'.there  BY <1>2, <1>7, <2>3
    <3>2. Hooks(f) => hook # "ours"  BY DEF Hooks
    <3> QED  BY <1>1, <2>1, <3>1, <3>2
  <2> QED  BY <2>2, <2>3
<1>11. GitSideInv'
  <2> SUFFICES ASSUME NEW g \in Folders, Unstopped(g), Alone(g)
               PROVE  /\ g # f /\ Unedited(g, "exclude") => "exclude" \notin job'.steps
                      /\ g # f /\ UneditedHook => "hook" \notin job'.steps /\ "unhook" \notin job'.steps
                      /\ UneditedHook =>
                           \/ HookLeft' = before.hook /\ ChainedLeft' = "none"
                           \/ HookLeft' = "ours" /\ ChainedLeft' = before.hook /\ RecordLeft(g)'.there
    <3>1. UNCHANGED before /\ job'.folder = f  BY <1>1
    <3>2. \A g \in Folders : Unedited(g, "exclude")' <=> Unedited(g, "exclude")  BY <1>4, NamesAre
    <3> QED  BY <1>4, <3>1, <3>2 DEF GitSideInv
  <2>1. g # f => "exclude" \notin job'.steps /\ "hook" \notin job'.steps
    BY <1>1, <1>5, <1>6 DEF Hooks
  <2> QED  BY <1>1, <1>10, <2>1
<1>12. EndedInv'
  <2>1. \A g \in Folders : last'[g].did = IF g = f THEN "changing" ELSE last[g].did
    BY <1>1, LastChanges DEF Base
  <2>2. UNCHANGED <<record, index>>  BY <1>1
  <2>3. \A g \in Folders : last'[g].did = "disconnected" /\ Unstopped(g)' => ~record'[g].there /\ g \notin index'
    BY <1>4, <2>1, <2>2 DEF Undo, EndedInv
  <2>4. \A g \in Folders : last'[g].did \in {"connected", "disconnected"} => g # f  BY <2>1
  <2>5. ~Working /\ Working'  BY <1>1 DEF Working
  <2>6. \A g \in Folders : last'[g].did = "changing" => g = f  BY <2>1, <2>5 DEF Undo, EndedInv
  <2> QED  BY <1>1, <2>3, <2>4, <2>5, <2>6 DEF EndedInv
<1> QED  BY <1>8, <1>9, <1>11, <1>12 DEF Undo

LEMMA PlanInstallUndo == ASSUME Base, Undo, PlanInstall PROVE Undo'
<1>1. CASE Plans  BY <1>1, PlansUndo
<1>2. CASE job' = Idle /\ UNCHANGED last
  <2>1. /\ UNCHANGED <<disk, hook, chained, record, index, before, spoilt>>
        /\ job.at = "fetch" /\ job.steps = {}
    BY PlansOrNot, JobIs DEF system, Base
  <2>2. job'.steps = {} /\ job'.at = "idle"  BY <1>2, IdleTyped
  <2>3. FilesInv' /\ LinesKnown' /\ GitSideInv'  BY <2>1, <2>2, StaysPending, UndoStays DEF Undo
  <2>4. EndedInv'
    <3>1. ~Working /\ ~Working'  BY <2>1, <2>2 DEF Working
    <3> QED  BY <1>2, <2>1, <2>2, <3>1 DEF Undo, EndedInv, Unstopped
  <2> QED  BY <2>3, <2>4 DEF Undo
<1> QED  BY <1>1, <1>2, PlansOrNot

LEMMA UndoStart == ASSUME Init PROVE Undo
<1>1. PICK b \in Found :
        /\ disk = [k \in Keys |-> IF k[2] \notin b.files THEN NoFile
                                  ELSE IF k[2] = "config" THEN Text({Own, Include}) ELSE Text({Own})]
        /\ before = [disk |-> disk, hook |-> hook, tracked |-> b.tracked, hooksPath |-> b.hooksPath]
        /\ hook = b.hook
  BY DEF Init
<1>2. /\ before.disk = disk /\ before.hook = hook /\ chained = "none" /\ job.steps = {} /\ job.at = "idle"
      /\ \A f \in Folders : record[f] = NoRecord /\ last[f].did = "nothing"
  BY <1>1, IdleTyped DEF Init
<1>3. /\ \A f \in Folders, n \in Names : Left(f, n) = disk[Key(f, n)]
      /\ \A f \in Folders : RecordLeft(f) = NoRecord
      /\ HookLeft = hook /\ ChainedLeft = chained
  BY <1>2, NothingPending
<1>4. FilesInv
  <2>1. \A f \in Folders, n \in Names : Untouched(NoRecord, n, disk[Key(f, n)], before.disk[Key(f, n)])
    BY <1>2, NoRecordIs DEF Untouched, EntryFor
  <2> QED  BY <1>3, <2>1 DEF FilesInv
<1>5. LinesKnown
  <2>1. \A f \in Folders, n \in Names : \A line \in disk[Key(f, n)].says : ~IsHook(line)
    <3>1. BeforeFits  BY BaseStart DEF Base
    <3> QED  BY <1>2, <3>1, KeysAre, HookLines DEF BeforeFits
  <2> QED  BY <1>3, <2>1, NoRecordIs, NoFileIs DEF LinesKnown, Known
<1>6. GitSideInv  BY <1>2, <1>3 DEF GitSideInv
<1>7. EndedInv  BY <1>2 DEF EndedInv
<1> QED  BY <1>4, <1>5, <1>6, <1>7 DEF Undo

LEMMA UndoStep == ASSUME Base, Kept, Undo, [Next]_vars PROVE Undo'
<1>1. CASE UNCHANGED vars  BY <1>1, UndoSame DEF vars, system, past
<1>2. CASE \E f \in Folders : Disconnect(f) \/ \E r \in Requests : Connect(f, r)
  BY <1>2, DisconnectUndo, ConnectUndo
<1>3. CASE PlanInstall  BY <1>3, PlanInstallUndo
<1>4. CASE Step  BY <1>4, StepUndo
<1>5. CASE Finish  BY <1>5, FinishUndo
<1>6. CASE Fail  BY <1>6, FailUndo
<1>7. CASE Stop  BY <1>7, StopUndo
<1>8. CASE \E f \in Folders, n \in Names : Edit(f, n)  BY <1>8, EditUndo
<1>9. CASE EditHook  BY <1>9, EditHookUndo
<1>10. CASE Deploy  BY <1>10, UndoSame DEF Deploy, system, past
<1> QED  BY <1>1, <1>2, <1>3, <1>4, <1>5, <1>6, <1>7, <1>8, <1>9, <1>10 DEF Next

LEMMA UndoAlways == Spec => [](Base /\ Kept /\ Undo)
<1>1. Init => Base /\ Kept /\ Undo  BY BaseStart, KeptStart, UndoStart
<1>2. Base /\ Kept /\ Undo /\ [Next]_vars => (Base /\ Kept /\ Undo)'  BY BaseStep, KeptStep, UndoStep
<1> QED  BY <1>1, <1>2, PTL DEF Spec

LEMMA UndoRestores == ASSUME Base, Kept, Undo PROVE DisconnectHolds
<1> SUFFICES ASSUME NEW f \in Folders, last[f].did = "disconnected", Unstopped(f)
             PROVE  Restored(f) /\ Unhooked(f)
  BY DEF DisconnectHolds, Unstopped
<1>1. ~record[f].there /\ f \notin index /\ (Working => job.folder # f)  BY DEF Undo, EndedInv
<1>2. record[f] = NoRecord  BY <1>1 DEF Base, RecordsFit, RecordFits
<1>3. job.steps # {} => job.folder # f  BY <1>1, JobIs DEF Base
<1>4. RecordLeft(f) = NoRecord  BY <1>2, <1>3 DEF RecordLeft
<1>5. ASSUME NEW n \in Names, n = "exclude" => "exclude" \notin job.steps PROVE Left(f, n) = disk[Key(f, n)]
  <2>1. n \in job.steps => Key(job.folder, n) # Key(f, n)  BY <1>3, <1>5, KeysAre
  <2> QED  BY <2>1 DEF Left
<1>6. ASSUME NEW n \in Names, Unedited(f, n), n = "exclude" => Alone(f)
      PROVE  disk[Key(f, n)] = before.disk[Key(f, n)]
  <2>1. n = "exclude" => "exclude" \notin job.steps  BY <1>3, <1>6 DEF Undo, GitSideInv
  <2>2. Left(f, n) = disk[Key(f, n)]  BY <1>5, <2>1
  <2> QED  BY <1>4, <1>6, <2>2, NoRecordIs DEF Undo, FilesInv, Untouched, Undoable
<1>7. ASSUME NEW n \in Names \ {"exclude"}, <<"edited", f, n>> \notin spoilt
      PROVE  disk[<<f, n>>] = before.disk[<<f, n>>]
  <2>1. Key(f, n) = <<f, n>> /\ Unedited(f, n)  BY <1>7 DEF Key, Unedited
  <2> QED  BY <1>6, <2>1
<1>8. ASSUME Alone(f), <<"edited", Git, "exclude">> \notin spoilt
      PROVE  disk[<<Git, "exclude">>] = before.disk[<<Git, "exclude">>]
  <2>1. Key(f, "exclude") = <<Git, "exclude">> /\ Unedited(f, "exclude")  BY <1>8 DEF Key, Unedited
  <2> QED  BY <1>6, <1>8, <2>1, NamesAre
<1>9. ASSUME Alone(f), UneditedHook PROVE hook = before.hook /\ chained = "none"
  <2>1. "hook" \notin job.steps /\ "unhook" \notin job.steps /\ "chain" \notin job.steps
    <3>1. "hook" \notin job.steps /\ "unhook" \notin job.steps  BY <1>3, <1>9 DEF Undo, GitSideInv
    <3> QED  BY <3>1 DEF Kept, HookSafe
  <2> QED  BY <1>4, <1>9, <2>1, NoRecordIs DEF Undo, GitSideInv, HookLeft, ChainedLeft
<1>10. Restored(f)  BY <1>7, <1>8, <1>9 DEF Restored, Alone, UneditedHook
<1>11. Unhooked(f)
  <2>1. ASSUME NEW n \in Names \cap SettingsAgents, NEW line \in disk[<<f, n>>].says PROVE ~IsHook(line)
    <3>1. n # "exclude" /\ Key(f, n) = <<f, n>>  BY NamesAre DEF Key
    <3>2. Left(f, n) = disk[<<f, n>>]  BY <1>5, <3>1
    <3> QED  BY <1>4, <3>2, NoRecordIs DEF Undo, LinesKnown, Known
  <2> QED  BY <1>1, <2>1 DEF Unhooked
<1> QED  BY <1>10, <1>11

(* Whatever sequence of installs went before, a disconnect puts back what  *)
(* was there before the first, and nothing runs the hook any more.         *)
THEOREM DisconnectPutsBack == Spec => []DisconnectHolds
<1>1. Base /\ Kept /\ Undo => DisconnectHolds  BY UndoRestores
<1> QED  BY <1>1, UndoAlways, PTL

-----------------------------------------------------------------------------
(* CONNECTED MEANS IT.                                                     *)

Stays == InstallsAll /\ CopiesThere /\ StaysInPlace

LEMMA KeyIs == ASSUME NEW f, NEW n PROVE Key(f, n) = IF n = "exclude" THEN <<Git, "exclude">> ELSE <<f, n>>
  BY DEF Key

LEMMA AgentsOf == ASSUME NEW r \in Requests \cup {NoRequest} PROVE r.agents \subseteq Agents /\ Agents \subseteq Names \ {"exclude"}
<1>1. r.agents \subseteq Agents
  <2>1. CASE r \in Requests  BY <2>1, RequestsAre
  <2>2. CASE r = NoRequest  BY <2>2 DEF NoRequest
  <2> QED  BY <2>1, <2>2
<1>2. Agents \subseteq Names \ {"exclude"}  BY NamesAre DEF SettingsAgents
<1> QED  BY <1>1, <1>2

LEMMA CopiesAbove ==
  ASSUME InstallerTyped', NEW c \in Copies, copies'[c] # 0 PROVE copies'[c] > 0
<1>1. copies'[c] \in Nat  BY DEF InstallerTyped
<1> QED  BY <1>1

LEMMA GovernedStays ==
  ASSUME NEW f \in Folders, NEW r \in Requests \cup {NoRequest}, Governed(f, r), UNCHANGED before,
         \A n \in Names \ {"exclude"} : disk'[<<f, n>>] = disk[<<f, n>>],
         \A c \in Copies : copies'[c] > 0,
         f \in Checkouts => /\ ~before.hooksPath => hook' = "ours"
                            /\ GitOverlooks(r, record'[f], disk'[<<Git, "exclude">>].says),
         record'[f].there, f \in index'
  PROVE  Governed(f, r)'
<1>1. "muse" \in r.agents /\ ~IsTracked(f, "muse")' => disk'[<<f, "muse">>].there
  BY AgentsOf DEF Governed, IsTracked
<1>2. \A n \in (r.agents \cap SettingsAgents) : ~IsTracked(f, n)' => Present(f, n, r)'
  BY AgentsOf DEF Governed, IsTracked, Present
<1>3. f \in Checkouts /\ ~before'.hooksPath => hook' = "ours"  OBVIOUS
<1>4. f \in Checkouts => \A n \in record'[f].made \cap ({"config"} \cup r.agents) :
                           Listed(n) \in disk'[<<Git, "exclude">>].says
  BY DEF GitOverlooks
<1> QED  BY <1>1, <1>2, <1>3, <1>4 DEF Governed

LEMMA GovernedGives ==
  ASSUME NEW f \in Folders, NEW r, Governed(f, r)
  PROVE  /\ record[f].there /\ f \in index
         /\ f \in Checkouts => /\ ~before.hooksPath => hook = "ours"
                               /\ GitOverlooks(r, record[f], disk[<<Git, "exclude">>].says)
  BY DEF Governed, GitOverlooks

(* The copies an install needs.                                            *)
LEMMA StepCopies == ASSUME Base, Stays, Step PROVE CopiesThere'
<1>1. /\ job'.at = job.at /\ UNCHANGED <<last>> /\ Working  BY StepIs
<1>2. PICK step \in job.steps : Does(step) /\ job'.steps = job.steps \ {step}  BY StepIs
<1>3. copies \in [Copies -> Nat]  BY DEF Base, InstallerTyped
<1>4. CASE step \in Copies
  <2>1. job.at = "install"
    <3>1. step \notin StepsOfUninstall  BY <1>4, NamesAre DEF Copies, StepsOfUninstall, SettingsAgents
    <3> QED  BY <1>1, <3>1 DEF Base, JobFits, Working
  <2>2. copies' = [copies EXCEPT ![step] = job.version]
    <3>1. step \notin Names  BY <1>4, NamesAre DEF Copies, SettingsAgents
    <3>2. step \notin {"register", "unregister", "chain", "hook", "unhook", "record", "unrecord", "index", "unindex"}
      BY <1>4 DEF Copies
    <3> QED  BY <1>2, <1>4, <3>1, <3>2, DoesOne
  <2>3. job.version # 0  BY <2>1 DEF Base, JobFits
  <2>4. \A c \in Copies : copies'[c] = IF c = step THEN job.version ELSE copies[c]  BY <1>3, <2>2
  <2> QED  BY <1>1, <1>2, <1>4, <2>3, <2>4 DEF Stays, CopiesThere
<1>5. CASE step \notin Copies
  <2>1. UNCHANGED copies  BY <1>2, <1>5, DoesOne
  <2> QED  BY <1>1, <1>2, <1>5, <2>1 DEF Stays, CopiesThere
<1> QED  BY <1>4, <1>5

LEMMA StepInstalls == ASSUME Base, Kept, Stays, Step PROVE InstallsAll'
<1>1. /\ job'.at = job.at /\ job'.folder = job.folder /\ job'.request = job.request /\ UNCHANGED <<last, before>>
  BY StepIs
<1>2. PICK step \in job.steps : Does(step) /\ job'.steps = job.steps \ {step}  BY StepIs
<1>3. /\ \A f \in Folders, n \in Names : Left(f, n)' = Left(f, n)
      /\ \A f \in Folders : RecordLeft(f)' = RecordLeft(f)
      /\ HookLeft' = HookLeft
  BY StepLeaves
<1> SUFFICES ASSUME NEW f \in Folders, NEW r \in Requests,
                    job.at = "install", job.folder = f, job.request = r, last[f].did = "changing"
             PROVE  Installs(f, r)'
  BY <1>1 DEF InstallsAll
<1>4. Installs(f, r)  BY DEF Stays, InstallsAll
<1>5. f \notin index' => "index" \in job'.steps
  <2>1. f \notin index => "index" \in job.steps  BY <1>4 DEF Installs
  <2>2. "index" \notin Names \cup Copies  BY NamesAre DEF Copies, SettingsAgents
  <2>3. step # "unindex"  BY NamesAre DEF Base, JobFits, StepsOfInstall, Copies, SettingsAgents
  <2>4. (step = "index" /\ index' = index \cup {f}) \/ (step # "index" /\ index' = index)
    BY <1>2, <2>2, <2>3, DoesOne
  <2> QED  BY <1>2, <2>1, <2>4
<1>6. UNCHANGED before  BY <1>1
<1>7. "exclude" \in Names /\ r.agents \subseteq Names  BY AgentsOf, NamesAre
<1>8. Left(f, "exclude")' = Left(f, "exclude") /\ (\A n \in r.agents : Left(f, n)' = Left(f, n))
      /\ RecordLeft(f)' = RecordLeft(f)
  BY <1>3, <1>7
<1> QED  BY <1>3, <1>4, <1>5, <1>6, <1>8 DEF Installs, IsTracked, GitOverlooks

LEMMA StepStays == ASSUME Base, Kept, Undo, Stays, Step PROVE StaysInPlace'
<1>1. /\ job'.folder = job.folder /\ job'.writes = job.writes /\ UNCHANGED <<last, before>> /\ Working
      /\ job.folder \in Folders
  BY StepIs
<1>2. PICK step \in job.steps : Does(step) /\ job'.steps = job.steps \ {step}  BY StepIs
<1> SUFFICES ASSUME NEW f \in Folders, NEW r \in Requests \cup {NoRequest},
                    last[f].did = "connected", last[f].request = r
             PROVE  InPlace(f, r)'
  BY <1>1 DEF StaysInPlace
<1>3. InPlace(f, r) /\ Governed(f, r)  BY DEF Stays, StaysInPlace, InPlace
<1>4. job.folder # f  BY <1>1 DEF Undo, EndedInv
<1>5. record'[f] = record[f] /\ (f \in index' <=> f \in index)
  <2>1. record \in [Folders -> InstallRecords]  BY DEF Base, InstallerTyped
  <2> QED  BY <1>2, <1>4, <2>1, DoesOne
<1>6. ASSUME NEW n \in Names, ~(n = "exclude" /\ step = "exclude")
      PROVE  disk'[Key(f, n)] = disk[Key(f, n)]
  <2>1. Key(f, n) \in Keys /\ Key(f, n) # Key(job.folder, step)  BY <1>4, <1>6, KeysAre
  <2>2. CASE step \in Names /\ disk' = [disk EXCEPT ![Key(job.folder, step)] = job.writes[step]]
    BY <1>1, <2>1, <2>2, WritesAt
  <2>3. CASE UNCHANGED disk  BY <2>3
  <2> QED  BY <1>2, <2>2, <2>3, DoesOne
<1>7. \A n \in Names \ {"exclude"} : disk'[<<f, n>>] = disk[<<f, n>>]  BY <1>6, KeyIs
<1>8. f \in Checkouts => GitOverlooks(r, record'[f], disk'[<<Git, "exclude">>].says)
  <2> SUFFICES ASSUME f \in Checkouts PROVE GitOverlooks(r, record[f], disk'[Key(f, "exclude")].says)
    BY <1>5, KeyIs
  <2>1. CASE step = "exclude"
    <3>1. GitOverlooks(r, record[f], job.writes["exclude"].says)  BY <1>1, <1>3, <2>1 DEF InPlace
    <3>2. disk' = [disk EXCEPT ![Key(job.folder, "exclude")] = job.writes["exclude"]]
      BY <1>2, <2>1, DoesOne, NamesAre
    <3>3. disk'[Key(job.folder, "exclude")] = job.writes["exclude"]  BY <1>1, <3>2, WritesAt, NamesAre
    <3>4. Key(job.folder, "exclude") = Key(f, "exclude")  BY KeysAre
    <3> QED  BY <3>1, <3>3, <3>4
  <2>2. CASE step # "exclude"
    <3>1. disk'[Key(f, "exclude")] = disk[Key(f, "exclude")]  BY <1>6, <2>2, NamesAre
    <3> QED  BY <1>3, <3>1, GovernedGives, KeyIs
  <2> QED  BY <2>1, <2>2
<1>9. f \in Checkouts /\ ~before.hooksPath => hook' = "ours" /\ "chain" \notin job'.steps /\ "unhook" \notin job'.steps
  <2> SUFFICES ASSUME f \in Checkouts, ~before.hooksPath PROVE hook' = "ours" /\ "chain" \notin job'.steps /\ "unhook" \notin job'.steps
    OBVIOUS
  <2>1. hook = "ours" /\ "chain" \notin job.steps /\ "unhook" \notin job.steps
    BY <1>1, <1>3, GovernedGives DEF InPlace
  <2> QED  BY <1>2, <2>1, DoesOne
<1>10. \A c \in Copies : copies'[c] > 0
  <2>1. InstallerTyped'  BY BaseStep, <1>1 DEF Base, Next
  <2>2. \A c \in Copies : copies'[c] # 0  BY <1>1, StepCopies DEF CopiesThere
  <2> QED  BY <2>1, <2>2, CopiesAbove
<1>11. UNCHANGED before  BY <1>1
<1>12. Governed(f, r)'
  <2>1. record'[f].there /\ f \in index'  BY <1>3, <1>5, GovernedGives
  <2>2. f \in Checkouts => /\ ~before.hooksPath => hook' = "ours"
                           /\ GitOverlooks(r, record'[f], disk'[<<Git, "exclude">>].says)
    BY <1>8, <1>9
  <2> QED  BY <1>3, <1>7, <1>10, <1>11, <2>1, <2>2, GovernedStays
<1>13. "exclude" \in job'.steps /\ f \in Checkouts => GitOverlooks(r, record'[f], job'.writes["exclude"].says)
  BY <1>1, <1>2, <1>3, <1>5 DEF InPlace
<1> QED  BY <1>9, <1>11, <1>12, <1>13 DEF InPlace, GitOverlooks

(* A command that does not work on anything yet, or no more, and those     *)
(* that ended before it.                                                   *)
LEMMA OthersStay ==
  ASSUME Base, Stays, NEW at \in SUBSET Folders, ~Working', job'.at # "install",
         UNCHANGED <<hook, record, index, copies, before>>,
         \A f \in at : last[f].did = "connected" /\ last'[f] = last[f],
         \A f \in at, n \in Names : disk'[Key(f, n)] = disk[Key(f, n)],
         \A f \in Folders \ at : last'[f].did # "connected"
  PROVE  Stays'
<1>1. InstallsAll'  BY DEF InstallsAll
<1>2. CopiesThere'
  <2>1. \A f \in Folders : last'[f].did = "connected" => f \in at  OBVIOUS
  <2> QED  BY <2>1 DEF Stays, CopiesThere
<1>3. StaysInPlace'
  <2> SUFFICES ASSUME NEW f \in Folders, NEW r \in Requests \cup {NoRequest},
                      last'[f].did = "connected", last'[f].request = r
               PROVE  InPlace(f, r)'
    BY DEF StaysInPlace
  <2>1. f \in at /\ last[f].did = "connected" /\ last[f].request = r  OBVIOUS
  <2>2. InPlace(f, r) /\ Governed(f, r)  BY <2>1 DEF Stays, StaysInPlace, InPlace
  <2>3. \A n \in Names : disk'[<<f, n>>] = disk[<<f, n>>] \/ n = "exclude"  BY <2>1, KeyIs
  <2>4. disk'[<<Git, "exclude">>] = disk[<<Git, "exclude">>]  BY <2>1, KeyIs, NamesAre
  <2>5. \A c \in Copies : copies'[c] > 0  BY <2>2 DEF Governed
  <2>6. Governed(f, r)'  BY <2>2, <2>3, <2>4, <2>5, GovernedGives, GovernedStays
  <2> QED  BY <2>6 DEF InPlace
<1> QED  BY <1>1, <1>2, <1>3 DEF Stays

LEMMA ConnectStays == ASSUME Base, Stays, NEW f \in Folders, NEW r \in Requests, Connect(f, r) PROVE Stays'
<1>1. UNCHANGED <<disk, hook, record, index, copies, before, last>> /\ job'.at = "fetch"
  BY DEF Connect, Begin, system
<1> DEFINE at == {g \in Folders : last[g].did = "connected"}
<1>2. \A g \in at : last[g].did = "connected" /\ last'[g] = last[g]  BY <1>1
<1>3. \A g \in Folders \ at : last'[g].did # "connected"  BY <1>1
<1>4. ~Working'  BY <1>1 DEF Working
<1> HIDE DEF at
<1>5. at \in SUBSET Folders  BY DEF at
<1> QED  BY <1>1, <1>2, <1>3, <1>4, <1>5, OthersStay

LEMMA AbandonStays ==
  ASSUME Base, Undo, Stays, Working, Abandon,
         \/ UNCHANGED disk
         \/ \E n \in job.steps \cap (Names \ {"exclude"}), torn \in Files :
              disk' = [disk EXCEPT ![Key(job.folder, n)] = torn]
  PROVE  Stays'
<1>0. PICK f \in Folders : f = job.folder  BY JobIs DEF Base
<1>1. /\ UNCHANGED <<hook, record, index, copies, before>> /\ job' = Idle
      /\ last' = [last EXCEPT ![f].did = "stopped"]
  BY <1>0 DEF Abandon
<1>2. \A g \in Folders : (g # f => last'[g] = last[g]) /\ last'[f].did = "stopped"
  BY <1>1 DEF Base, InstallerTyped
<1> DEFINE at == {g \in Folders \ {f} : last[g].did = "connected"}
<1>3. \A g \in at : last[g].did = "connected" /\ last'[g] = last[g]  BY <1>2
<1>4. \A g \in Folders \ at : last'[g].did # "connected"  BY <1>2
<1>5. ASSUME NEW g \in at, NEW n \in Names PROVE disk'[Key(g, n)] = disk[Key(g, n)]
  <2>1. disk \in [Keys -> Files] /\ Key(g, n) \in Keys /\ \A m \in Names : Key(f, m) \in Keys
    BY KeysAre DEF Base, InstallerTyped
  <2>2. \A m \in Names \ {"exclude"} : Key(f, m) # Key(g, n)  BY KeysAre
  <2>3. CASE UNCHANGED disk  BY <2>3
  <2>4. CASE \E m \in job.steps \cap (Names \ {"exclude"}), torn \in Files : disk' = [disk EXCEPT ![Key(job.folder, m)] = torn]
    BY <1>0, <2>1, <2>2, <2>4
  <2> QED  BY <2>3, <2>4
<1>6. at \in SUBSET Folders  OBVIOUS
<1>7. ~Working' /\ job'.at # "install"  BY <1>1, IdleTyped DEF Working
<1> HIDE DEF at
<1> QED  BY <1>1, <1>3, <1>4, <1>5, <1>6, <1>7, OthersStay

LEMMA FailStays == ASSUME Base, Undo, Stays, Fail PROVE Stays'
<1>1. Working /\ Abandon /\ UNCHANGED disk  BY DEF Fail
<1> QED  BY <1>1, AbandonStays

LEMMA StopStays == ASSUME Base, Undo, Stays, Stop PROVE Stays'
  BY StopIs, AbandonStays

(* An install that ends has put everything in place.                       *)
LEMMA FinishStays == ASSUME Base, Undo, Stays, Finish PROVE Stays'
<1>0. PICK f \in Folders : f = job.folder  BY JobIs DEF Base, Finish
<1>1. /\ UNCHANGED <<disk, hook, chained, record, index, copies, before>> /\ job' = Idle
      /\ Working /\ job.steps = {}
  BY DEF Finish, system
<1>2. /\ \A g \in Folders : g # f => last'[g] = last[g]
      /\ last'[f].did = IF last[f].did # "changing" THEN last[f].did
                        ELSE IF job.at = "install" THEN "connected" ELSE "disconnected"
      /\ last'[f].request = job.request
  BY <1>0 DEF Finish, Base, InstallerTyped
<1>3. last[f].did # "connected"  BY <1>0, <1>1 DEF Undo, EndedInv
<1>4. ~Working' /\ job'.at # "install"  BY <1>1, IdleTyped DEF Working
<1>5. CASE last'[f].did # "connected"
  <2> DEFINE at == {g \in Folders \ {f} : last[g].did = "connected"}
  <2>1. \A g \in at : last[g].did = "connected" /\ last'[g] = last[g]  BY <1>2
  <2>2. \A g \in Folders \ at : last'[g].did # "connected"  BY <1>2, <1>5
  <2>3. at \in SUBSET Folders  OBVIOUS
  <2> HIDE DEF at
  <2> QED  BY <1>1, <1>4, <2>1, <2>2, <2>3, OthersStay
<1>6. CASE last'[f].did = "connected"
  <2>1. job.at = "install" /\ last[f].did = "changing"  BY <1>2, <1>3, <1>6
  <2>2. \A c \in Copies : copies[c] # 0  BY <1>1, <2>1 DEF Stays, CopiesThere
  <2>3. PICK r \in Requests : r = job.request  BY <2>1 DEF Base, JobFits
  <2>4. Installs(f, r)  BY <1>0, <2>1, <2>3 DEF Stays, InstallsAll
  <2>5. /\ \A n \in Names : Left(f, n) = disk[Key(f, n)]
        /\ RecordLeft(f) = record[f] /\ HookLeft = hook
    BY <1>1, NothingPending
  <2>6. \A c \in Copies : copies[c] > 0
    <3>1. \A c \in Copies : copies[c] \in Nat  BY DEF Base, InstallerTyped
    <3> QED  BY <2>2, <3>1
  <2>7. Governed(f, r)
    <3>1. "muse" \in r.agents /\ ~IsTracked(f, "muse") => disk[<<f, "muse">>].there
      BY <2>4, <2>5, AgentsOf, KeyIs DEF Installs
    <3>2. \A n \in (r.agents \cap SettingsAgents) : ~IsTracked(f, n) => Present(f, n, r)
      BY <2>4, <2>5, AgentsOf, KeyIs DEF Installs, Present
    <3>3. f \in Checkouts => /\ ~before.hooksPath => hook = "ours"
                             /\ GitOverlooks(r, record[f], disk[<<Git, "exclude">>].says)
      BY <2>4, <2>5, NamesAre, KeyIs DEF Installs
    <3>4. record[f].there /\ f \in index  BY <1>1, <2>4, <2>5 DEF Installs
    <3> QED  BY <2>6, <3>1, <3>2, <3>3, <3>4 DEF Governed, GitOverlooks
  <2>8. CopiesThere'  BY <1>1, <1>4, <2>2 DEF CopiesThere
  <2>9. StaysInPlace'
    <3> SUFFICES ASSUME NEW g \in Folders, NEW q \in Requests \cup {NoRequest},
                        last'[g].did = "connected", last'[g].request = q
                 PROVE  InPlace(g, q)'
      BY DEF StaysInPlace
    <3>1. Governed(g, q)
      <4>1. CASE g = f  BY <1>2, <2>3, <2>7, <4>1
      <4>2. CASE g # f  BY <1>2, <4>2 DEF Stays, StaysInPlace, InPlace
      <4> QED  BY <4>1, <4>2
    <3>2. Governed(g, q)'  BY <1>1, <2>6, <3>1, GovernedGives, GovernedStays
    <3> QED  BY <1>4, <3>2 DEF InPlace
  <2>10. InstallsAll'  BY <1>4 DEF InstallsAll
  <2> QED  BY <2>8, <2>9, <2>10 DEF Stays
<1> QED  BY <1>5, <1>6

LEMMA DisconnectStays == ASSUME Base, Undo, Stays, NEW f \in Folders, Disconnect(f) PROVE Stays'
<1>1. /\ UNCHANGED <<disk, hook, chained, record, index, before>> /\ job = Idle
      /\ job'.at = "uninstall" /\ job'.folder = f /\ last' = [last EXCEPT ![f].did = "changing"]
      /\ "chain" \notin job'.steps
      /\ "unhook" \in job'.steps => f \in Checkouts /\ LastCheckout(f)
      /\ "exclude" \in job'.steps => f \in Checkouts /\ LastCheckout(f)
  BY DisconnectLeaves
<1>2. UNCHANGED copies  BY DEF Disconnect, Begin, system
<1>3. /\ \A g \in Folders : g # f => last'[g] = last[g]
      /\ last'[f].did = "changing"
  BY <1>1 DEF Base, InstallerTyped
<1>4. InstallsAll'  BY <1>1 DEF InstallsAll
<1>5. CopiesThere'
  <2>1. \A g \in Folders : last'[g].did = "connected" => last[g].did = "connected"  BY <1>3
  <2> QED  BY <1>1, <1>2, <2>1 DEF Stays, CopiesThere
<1>6. StaysInPlace'
  <2> SUFFICES ASSUME NEW g \in Folders, NEW r \in Requests \cup {NoRequest},
                      last'[g].did = "connected", last'[g].request = r
               PROVE  InPlace(g, r)'
    BY DEF StaysInPlace
  <2>1. g # f /\ Governed(g, r)  BY <1>3 DEF Stays, StaysInPlace, InPlace
  <2>2. \A c \in Copies : copies'[c] > 0  BY <1>2, <2>1 DEF Governed
  <2>3. Governed(g, r)'  BY <1>1, <2>1, <2>2, GovernedGives, GovernedStays
  <2>4. g \in Checkouts => ~LastCheckout(f)  BY <2>1, GovernedGives DEF LastCheckout
  <2> QED  BY <1>1, <2>3, <2>4 DEF InPlace
<1> QED  BY <1>4, <1>5, <1>6 DEF Stays

(* What an install plans puts everything in place.                         *)
LEMMA PlansInstall ==
  ASSUME Base, NEW f \in Folders, NEW r \in Requests, NEW n \in r.agents, ~IsTracked(f, n)
  PROVE  LET left == IF n \in Changed(f, r) THEN With(f, r, n) ELSE disk[<<f, n>>] IN
         /\ n = "muse" => left.there
         /\ n \in SettingsAgents => HookLine(n, r.python) \in left.says
<1>1. n \in Names /\ n # "exclude"  BY AgentsOf
<1>2. With(f, r, n).there  BY <1>1, WithIs DEF Base
<1>3. n \in Changed(f, r) <=> n \in Wanted(f, r)  BY <1>1 DEF Changed
<1>4. CASE n = "muse"
  <2>1. n \notin Changed(f, r) => disk[<<f, n>>] = Data(f, r, n)  BY <1>3, <1>4 DEF Wanted, SettingsAgents
  <2>2. Data(f, r, n).there  BY <1>4 DEF Data, Text
  <2> QED  BY <1>2, <1>4, <2>1, <2>2 DEF SettingsAgents
<1>5. CASE n \in SettingsAgents
  <2>1. n \notin Changed(f, r) => Present(f, n, r)  BY <1>3, <1>5 DEF Wanted
  <2>2. With(f, r, n) = Settings(f, n, r)  BY <1>1, <1>5, NamesAre DEF With, Data
  <2>3. HookLine(n, r.python) \in Settings(f, n, r).says  BY DEF Settings, Text
  <2> QED  BY <1>5, <2>1, <2>2, <2>3 DEF Present, SettingsAgents
<1> QED  BY <1>4, <1>5

LEMMA PlansToOverlook ==
  ASSUME Base, NEW f \in Checkouts, NEW r \in Requests
  PROVE  LET left == IF "exclude" \in Changed(f, r) THEN With(f, r, "exclude") ELSE disk[Key(f, "exclude")] IN
         GitOverlooks(r, Recorded(f, r), left.says)
<1> DEFINE rec == Recorded(f, r)  changed == Changed(f, r)  says == disk[Key(f, "exclude")].says
           left == IF "exclude" \in changed THEN With(f, r, "exclude") ELSE disk[Key(f, "exclude")]
<1>0. f \in Folders  BY InstallerAssumption
<1>1. RecordFits(f, rec)  BY <1>0, RecordedFits DEF Base
<1>2. ASSUME NEW n \in rec.made \cap ({"config"} \cup r.agents) PROVE n \in Written(f, r)
  <2>1. n \in Names /\ n # "exclude"  BY AgentsOf, NamesAre DEF SettingsAgents
  <2>2. ~IsTracked(f, n)  BY <1>1, <2>1 DEF RecordFits
  <2>3. n \in changed => n \in Wanted(f, r)  BY <2>1, ChangedAre
  <2>4. CASE n = "config"  BY <2>2, <2>4 DEF Written
  <2>5. CASE n = "muse"
    <3>1. rec.installed[n].there  BY <1>1, <2>1, <2>5 DEF RecordFits
    <3>2. n \notin changed => rec.installed[n] = record[f].installed[n]  BY <1>0, <2>1, Marking DEF Base
    <3> QED  BY <2>2, <2>3, <2>5, <3>1, <3>2 DEF Written
  <2>6. CASE n \in SettingsAgents
    <3>1. EntryFor(rec, n)  BY <1>1, <2>1, <2>6 DEF RecordFits
    <3>2. EntryFor(record[f], n) \/ n \in changed  BY <1>0, <2>1, <3>1, EntriesFor DEF Base
    <3>3. n \in r.agents \cap SettingsAgents  BY <2>6 DEF SettingsAgents
    <3> QED  BY <2>3, <3>2, <3>3 DEF Written, EntryFor
  <2> QED  BY <2>1, <2>4, <2>5, <2>6, NamesAre
<1>3. ASSUME NEW n \in Written(f, r) PROVE Listed(n) \in left.says
  <2>1. Listed(n) \in says \/ Listed(n) \in Missing(f, r)  BY KeyIs DEF Missing
  <2>2. CASE "exclude" \in changed
    <3>1. left = Excluding(f, r)  BY <2>2 DEF With
    <3>2. Excluding(f, r).says = says \cup Missing(f, r) \cup {Marker}  BY <1>0, ExcludingIs DEF Base
    <3> QED  BY <2>1, <3>1, <3>2
  <2>3. CASE "exclude" \notin changed
    <3>1. Missing(f, r) = {}  BY <2>3, ChangedAre
    <3> QED  BY <2>1, <2>3, <3>1
  <2> QED  BY <2>2, <2>3
<1>4. GitOverlooks(r, rec, left.says)
  <2> HIDE DEF rec, left
  <2> QED  BY <1>2, <1>3 DEF GitOverlooks
<1> QED  BY <1>4

LEMMA PlansStays == ASSUME Base, Undo, Stays, PlanInstall, Plans PROVE Stays'
<1>0. PICK f \in Folders, r \in Requests : f = job.folder /\ r = job.request
  BY PlansOrNot DEF Base, JobFits
<1>1. /\ UNCHANGED <<disk, hook, record, index, copies, before>> /\ job.at = "fetch"
      /\ job'.at = "install" /\ job'.folder = f /\ job'.request = r /\ last' = [last EXCEPT ![f].did = "changing"]
      /\ job'.version = job.version /\ job'.steps = InstallSteps(f, r)
      /\ \A n \in Names : job'.writes[n] = With(f, r, n)
      /\ \A n \in Names : Left(f, n)' = IF n \in Changed(f, r) THEN With(f, r, n) ELSE disk[Key(f, n)]
      /\ RecordLeft(f)' = Recorded(f, r)
      /\ HookLeft' = IF Hooks(f) THEN "ours" ELSE hook
      /\ "unhook" \notin job'.steps
  BY <1>0, PlanLeaves
<1>2. /\ \A g \in Folders : g # f => last'[g] = last[g]
      /\ last'[f].did = "changing"
  <2>1. last' = [last EXCEPT ![f].did = "changing"]  BY <1>1
  <2> QED  BY <2>1 DEF Base, InstallerTyped
<1>3. /\ "chain" \in job'.steps <=> Hooks(f) /\ hook # "none"
      /\ "index" \in job'.steps <=> f \notin index
      /\ \A c \in Copies : copies[c] # job.version => c \in job'.steps
  BY <1>1, HookStepsAre
<1>4. Installs(f, r)'
  <2>0. UNCHANGED before  BY <1>1
  <2>1. ASSUME NEW n \in r.agents, ~IsTracked(f, n)
        PROVE  /\ n = "muse" => Left(f, n)'.there
               /\ n \in SettingsAgents => HookLine(n, r.python) \in Left(f, n)'.says
    <3>1. n \in Names /\ Key(f, n) = <<f, n>>  BY AgentsOf, KeyIs
    <3>2. Left(f, n)' = IF n \in Changed(f, r) THEN With(f, r, n) ELSE disk[<<f, n>>]  BY <1>1, <3>1
    <3> QED  BY <2>1, <3>2, PlansInstall
  <2>2. f \in Checkouts /\ ~before.hooksPath => HookLeft' = "ours"  BY <1>1 DEF Hooks
  <2>3. ASSUME f \in Checkouts PROVE GitOverlooks(r, RecordLeft(f)', Left(f, "exclude")'.says)
    <3> DEFINE left == IF "exclude" \in Changed(f, r) THEN With(f, r, "exclude") ELSE disk[Key(f, "exclude")]
    <3>1. GitOverlooks(r, Recorded(f, r), left.says)  BY <2>3, PlansToOverlook
    <3>2. Left(f, "exclude")' = left  BY <1>1, NamesAre
    <3> QED  BY <1>1, <3>1, <3>2
  <2>4. RecordLeft(f)'.there /\ (f \notin index' => "index" \in job'.steps)
    <3>1. Recorded(f, r).there  BY Marking DEF Base
    <3> QED  BY <1>1, <1>3, <3>1
  <2> QED  BY <2>0, <2>1, <2>2, <2>3, <2>4 DEF Installs, IsTracked, GitOverlooks
<1>5. InstallsAll'  BY <1>1, <1>4 DEF InstallsAll
<1>6. CopiesThere'
  <2>1. \A c \in Copies : copies'[c] = 0 => c \in job'.steps
    <3>1. job.version # 0  BY <1>1 DEF Base, JobFits
    <3> QED  BY <1>1, <1>3, <3>1
  <2>2. \A g \in Folders : last'[g].did = "connected" => last[g].did = "connected"  BY <1>2
  <2> QED  BY <1>1, <2>1, <2>2 DEF Stays, CopiesThere
<1>7. StaysInPlace'
  <2> SUFFICES ASSUME NEW g \in Folders, NEW q \in Requests \cup {NoRequest},
                      last'[g].did = "connected", last'[g].request = q
               PROVE  InPlace(g, q)'
    BY DEF StaysInPlace
  <2>1. g # f /\ Governed(g, q)  BY <1>2 DEF Stays, StaysInPlace, InPlace
  <2>2. \A c \in Copies : copies'[c] > 0  BY <1>1, <2>1 DEF Governed
  <2>3. Governed(g, q)'  BY <1>1, <2>1, <2>2, GovernedGives, GovernedStays
  <2>4. g \in Checkouts /\ ~before.hooksPath => "chain" \notin job'.steps
    BY <1>3, <2>1, GovernedGives DEF Hooks
  <2>5. ASSUME g \in Checkouts PROVE GitOverlooks(q, record'[g], job'.writes["exclude"].says)
    <3>1. GitOverlooks(q, record[g], disk[Key(f, "exclude")].says)  BY <2>1, <2>5, GovernedGives, KeyIs
    <3>2. job'.writes["exclude"] = Excluding(f, r)  BY <1>1, NamesAre DEF With
    <3>3. disk[Key(f, "exclude")].says \subseteq Excluding(f, r).says  BY ExcludingIs DEF Base
    <3> QED  BY <1>1, <3>1, <3>2, <3>3 DEF GitOverlooks
  <2> QED  BY <1>1, <2>3, <2>4, <2>5 DEF InPlace, GitOverlooks
<1> QED  BY <1>5, <1>6, <1>7 DEF Stays

LEMMA PlanInstallStays == ASSUME Base, Undo, Stays, PlanInstall PROVE Stays'
<1>1. CASE Plans  BY <1>1, PlansStays
<1>2. CASE job' = Idle /\ UNCHANGED last
  <2>1. UNCHANGED <<disk, hook, record, index, copies, before>>
    BY PlansOrNot DEF system
  <2>2. ~Working' /\ job'.at # "install"  BY <1>2, IdleTyped DEF Working
  <2> DEFINE at == {g \in Folders : last[g].did = "connected"}
  <2>3. \A g \in at : last[g].did = "connected" /\ last'[g] = last[g]  BY <1>2
  <2>4. \A g \in Folders \ at : last'[g].did # "connected"  BY <1>2
  <2>5. at \in SUBSET Folders  OBVIOUS
  <2> HIDE DEF at
  <2> QED  BY <2>1, <2>2, <2>3, <2>4, <2>5, OthersStay
<1> QED  BY <1>1, <1>2, PlansOrNot

(* A hand elsewhere leaves in place what an install put there.             *)
LEMMA TouchedStays ==
  ASSUME Base, Stays, NEW place \in Places, NEW name \in Names \cup {"hook"}, Apart(place, name),
         place # Git => UNCHANGED hook,
         \A g \in Folders, n \in Names : <<Key(g, n)[1], n>> # <<place, name>> => disk'[Key(g, n)] = disk[Key(g, n)],
         name = "exclude" => place = Git
  PROVE  Stays'
<1>1. /\ UNCHANGED <<record, index, copies, before>>
      /\ job'.at = job.at /\ job'.folder = job.folder /\ job'.request = job.request /\ job'.steps = job.steps
      /\ job'.writes = job.writes /\ job'.keeps = job.keeps
  BY DEF Apart
<1>2. ASSUME NEW g \in Folders, last'[g].did \in {"connected", "changing"}
      PROVE  /\ last'[g].did = last[g].did /\ last'[g].request = last[g].request
             /\ \A n \in Names \ {"exclude"} : disk'[Key(g, n)] = disk[Key(g, n)]
             /\ g \in Checkouts => UNCHANGED hook /\ disk'[Key(g, "exclude")] = disk[Key(g, "exclude")]
  <2>1. /\ last'[g].did = last[g].did /\ last'[g].request = last[g].request
        /\ g # place /\ (place = Git => g \notin Checkouts)
    BY <1>2 DEF Apart
  <2>2. \A n \in Names \ {"exclude"} : Key(g, n)[1] = g  BY KeyIs
  <2>3. \A n \in Names \ {"exclude"} : disk'[Key(g, n)] = disk[Key(g, n)]  BY <2>1, <2>2
  <2>4. Key(g, "exclude")[1] = Git  BY KeyIs
  <2>5. g \in Checkouts => disk'[Key(g, "exclude")] = disk[Key(g, "exclude")]  BY <2>1, <2>4, NamesAre
  <2> QED  BY <2>1, <2>3, <2>5
<1>3. InstallsAll'
  <2> SUFFICES ASSUME NEW f \in Folders, NEW r \in Requests,
                      job.at = "install", job.folder = f, job.request = r, last'[f].did = "changing"
               PROVE  Installs(f, r)'
    BY <1>1 DEF InstallsAll
  <2>1. Installs(f, r)  BY <1>2 DEF Stays, InstallsAll
  <2>2. /\ \A n \in Names \ {"exclude"} : Left(f, n)' = Left(f, n)
        /\ f \in Checkouts => Left(f, "exclude")' = Left(f, "exclude") /\ HookLeft' = HookLeft
        /\ RecordLeft(f)' = RecordLeft(f)
    <3>1. \A n \in Names \ {"exclude"} : Left(f, n)' = Left(f, n)  BY <1>1, <1>2 DEF Left
    <3>2. f \in Checkouts => Left(f, "exclude")' = Left(f, "exclude")  BY <1>1, <1>2 DEF Left
    <3>3. f \in Checkouts => HookLeft' = HookLeft
      <4>1. UNCHANGED chained  BY DEF Apart
      <4> QED  BY <1>1, <1>2, <4>1 DEF HookLeft
    <3>4. RecordLeft(f)' = RecordLeft(f)  BY <1>1 DEF RecordLeft
    <3> QED  BY <3>1, <3>2, <3>3, <3>4
  <2>3. r.agents \subseteq Names \ {"exclude"}  BY AgentsOf
  <2>4. "muse" \in r.agents /\ ~IsTracked(f, "muse")' => Left(f, "muse")'.there
    BY <1>1, <2>1, <2>2, <2>3 DEF Installs, IsTracked
  <2>5. \A n \in r.agents \cap SettingsAgents : ~IsTracked(f, n)' => HookLine(n, r.python) \in Left(f, n)'.says
    BY <1>1, <2>1, <2>2, <2>3 DEF Installs, IsTracked
  <2>6. f \in Checkouts => /\ ~before'.hooksPath => HookLeft' = "ours"
                           /\ GitOverlooks(r, RecordLeft(f)', Left(f, "exclude")'.says)
    BY <1>1, <2>1, <2>2 DEF Installs
  <2>7. RecordLeft(f)'.there /\ (f \notin index' => "index" \in job'.steps)  BY <1>1, <2>1, <2>2 DEF Installs
  <2> QED  BY <2>4, <2>5, <2>6, <2>7 DEF Installs, GitOverlooks
<1>4. CopiesThere'  BY <1>1, <1>2 DEF Stays, CopiesThere
<1>5. StaysInPlace'
  <2> SUFFICES ASSUME NEW g \in Folders, NEW q \in Requests \cup {NoRequest},
                      last'[g].did = "connected", last'[g].request = q
               PROVE  InPlace(g, q)'
    BY DEF StaysInPlace
  <2>1. InPlace(g, q) /\ Governed(g, q)  BY <1>2 DEF Stays, StaysInPlace, InPlace
  <2>2. \A c \in Copies : copies'[c] > 0  BY <1>1, <2>1 DEF Governed
  <2>3. \A n \in Names \ {"exclude"} : disk'[<<g, n>>] = disk[<<g, n>>]  BY <1>2, KeyIs
  <2>4. g \in Checkouts => UNCHANGED hook /\ disk'[<<Git, "exclude">>] = disk[<<Git, "exclude">>]
    BY <1>2, KeyIs
  <2>5. Governed(g, q)'  BY <1>1, <2>1, <2>2, <2>3, <2>4, GovernedGives, GovernedStays
  <2>6. Working' <=> Working  BY <1>1 DEF Working
  <2> QED  BY <1>1, <2>1, <2>5, <2>6 DEF InPlace, GitOverlooks
<1> QED  BY <1>3, <1>4, <1>5 DEF Stays

LEMMA EditStays == ASSUME Base, Stays, NEW f \in Folders, NEW n \in Names, Edit(f, n) PROVE Stays'
<1> DEFINE place == Key(f, n)[1]
<1>1. /\ Touches(place, n) /\ UNCHANGED hook /\ place \in Places /\ Key(f, n) = <<place, n>>
      /\ \E file \in Edited(n, disk[Key(f, n)]) : disk' = [disk EXCEPT ![Key(f, n)] = file]
  BY EditIs
<1>2. n = "exclude" => place = Git  BY KeyIs
<1>3. \A g \in Folders, m \in Names : Key(g, m) = <<Key(g, m)[1], m>> /\ Key(g, m) \in Keys  BY KeysAre, KeyIs
<1> HIDE DEF place
<1>4. Apart(place, n)  BY <1>1, TouchesAre
<1>5. ASSUME NEW g \in Folders, NEW m \in Names, <<Key(g, m)[1], m>> # <<place, n>>
      PROVE  disk'[Key(g, m)] = disk[Key(g, m)]
  <2>1. disk \in [Keys -> Files]  BY DEF Base, InstallerTyped
  <2>2. Key(g, m) # Key(f, n) /\ Key(g, m) \in Keys  BY <1>1, <1>3, <1>5
  <2> QED  BY <1>1, <2>1, <2>2
<1> QED  BY <1>1, <1>2, <1>4, <1>5, TouchedStays

LEMMA EditHookStays == ASSUME Base, Stays, EditHook PROVE Stays'
<1>1. Touches(Git, "hook") /\ UNCHANGED disk /\ Git \in Places  BY DEF EditHook, Places
<1>2. Apart(Git, "hook")  BY <1>1, TouchesAre
<1> QED  BY <1>1, <1>2, TouchedStays

LEMMA StaysSame ==
  ASSUME Stays, UNCHANGED <<disk, hook, chained, record, index, copies, job, last, before>> PROVE Stays'
<1>1. InstallsAll'
  BY DEF Stays, InstallsAll, Installs, Left, RecordLeft, HookLeft, IsTracked, GitOverlooks
<1>2. CopiesThere'  BY DEF Stays, CopiesThere
<1>3. StaysInPlace'
  BY DEF Stays, StaysInPlace, InPlace, Governed, Present, IsTracked, GitOverlooks, Working
<1> QED  BY <1>1, <1>2, <1>3 DEF Stays

LEMMA StaysStart == ASSUME Init PROVE Stays
<1>1. job = Idle /\ \A f \in Folders : last[f].did = "nothing"  BY DEF Init
<1> QED  BY <1>1, IdleTyped DEF Stays, InstallsAll, CopiesThere, StaysInPlace

LEMMA StaysStep == ASSUME Base, Kept, Undo, Stays, [Next]_vars PROVE Stays'
<1>1. CASE UNCHANGED vars  BY <1>1, StaysSame DEF vars, system, past
<1>2. CASE \E f \in Folders : Disconnect(f) \/ \E r \in Requests : Connect(f, r)
  BY <1>2, DisconnectStays, ConnectStays
<1>3. CASE PlanInstall  BY <1>3, PlanInstallStays
<1>4. CASE Step  BY <1>4, StepInstalls, StepCopies, StepStays DEF Stays
<1>5. CASE Finish  BY <1>5, FinishStays
<1>6. CASE Fail  BY <1>6, FailStays
<1>7. CASE Stop  BY <1>7, StopStays
<1>8. CASE \E f \in Folders, n \in Names : Edit(f, n)  BY <1>8, EditStays
<1>9. CASE EditHook  BY <1>9, EditHookStays
<1>10. CASE Deploy  BY <1>10, StaysSame DEF Deploy, system, past
<1> QED  BY <1>1, <1>2, <1>3, <1>4, <1>5, <1>6, <1>7, <1>8, <1>9, <1>10 DEF Next

LEMMA StaysAlways == Spec => [](Base /\ Stays)
<1>1. Init => Stays  BY StaysStart
<1>2. Base /\ Kept /\ Undo /\ Stays /\ [Next]_vars => Stays'  BY StaysStep
<1> QED  BY <1>1, <1>2, UndoAlways, PTL DEF Spec

(* Once connected, an agent is governed, and what other folders connect or *)
(* disconnect takes nothing of it away.                                    *)
THEOREM ConnectPutsInPlace == Spec => []ConnectHolds
<1>1. Base /\ Stays => ConnectHolds
  <2> SUFFICES ASSUME Base, Stays, NEW f \in Folders, last[f].did = "connected"
               PROVE  Governed(f, last[f].request)
    BY DEF ConnectHolds
  <2>1. PICK r \in Requests \cup {NoRequest} : last[f].request = r  BY DEF Base, InstallerTyped
  <2>2. Governed(f, r)  BY <2>1 DEF Stays, StaysInPlace, InPlace
  <2> QED  BY <2>1, <2>2
<1> QED  BY <1>1, StaysAlways, PTL
=============================================================================

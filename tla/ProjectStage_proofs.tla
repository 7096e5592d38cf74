-------------------------- MODULE ProjectStage_proofs --------------------------
(***************************************************************************)
(* What holds of ProjectStage for any number of containers and edits, any  *)
(* interval and any length of a request.                                   *)
(***************************************************************************)
EXTENDS ProjectStage, TLAPS

Entry == [config : Config, age : 0..Refresh, kept : BOOLEAN, late : Nat]
Job   == [at : {"idle", "put", "index"}, made : Config, ask : Asks,
          wait : 0..RequestTime, late : Nat]

(* A copy in use has been out of date for no longer than it has been held  *)
(* and its save had taken; one kept over a failed read is excepted.        *)
Recent(entry) ==
  entry.age < Refresh => entry.kept \/ entry.late <= entry.age + RequestTime

(* A save under way has been overtaken for no longer than it has run.      *)
Timely(e) == IF e.at = "index" THEN e.late <= e.wait ELSE e.late = 0

AgesInv ==
  /\ TypeOK
  /\ \A c \in Containers : Recent(held[c]) /\ Timely(edit[c])

LEMMA Lessers == ASSUME NEW a \in Nat, NEW b \in Nat
                 PROVE  /\ Lesser(a, b) \in Nat
                        /\ Lesser(a, b) <= a /\ Lesser(a, b) <= b
                        /\ Lesser(a, b) # b => Lesser(a, b) = a
BY DEF Lesser

(* What a read brings is typed and recent, in use or not.                  *)
LEMMA ReadsAreRecent ==
  ASSUME AgesInv, StageAssumption, NEW c \in Containers, NEW entry,
         \/ ReadsFresh(c, entry)
         \/ Reads(c, entry)
  PROVE  /\ entry \in Entry /\ Recent(entry)
         /\ entry.age < Refresh
         /\ faults' \in 0..MaxFaults
<1>1. held[c] \in Entry /\ Recent(held[c]) /\ stored \in Config /\ faults \in 0..MaxFaults
  BY DEF AgesInv, TypeOK, Entry
<1>2. Refresh \in Nat \ {0} /\ RequestTime \in Nat /\ MaxFaults \in Nat
  BY DEF StageAssumption
<1>3. CASE entry = Seen /\ UNCHANGED faults
  BY <1>1, <1>2, <1>3 DEF Seen, Entry, Recent
<1>4. CASE entry = Kept(c) /\ Fault
  <2>1. entry = [config |-> held[c].config, age |-> 0, kept |-> TRUE, late |-> held[c].late]
    BY <1>1, <1>4 DEF Kept, Entry
  <2>2. entry \in Entry /\ entry.age < Refresh
    BY <1>1, <1>2, <2>1 DEF Entry
  <2>3. entry.kept
    BY <2>1
  <2>4. faults' \in 0..MaxFaults
    BY <1>1, <1>2, <1>4 DEF Fault
  <2> QED BY <2>2, <2>3, <2>4 DEF Recent
<1>5. CASE held[c].age < Refresh /\ entry = held[c] /\ UNCHANGED faults
  BY <1>1, <1>2, <1>5
<1>6. CASE ReadsFresh(c, entry)
  BY <1>3, <1>4, <1>6 DEF ReadsFresh
<1>7. CASE Reads(c, entry)
  <2>1. CASE held[c].age < Refresh /\ ~ReadsEveryTime
    BY <1>5, <1>7, <2>1 DEF Reads, AsHeld
  <2>2. CASE ~(held[c].age < Refresh /\ ~ReadsEveryTime)
    BY <1>6, <1>7, <2>2 DEF Reads
  <2> QED BY <2>1, <2>2
<1> QED BY <1>6, <1>7

LEMMA MadeTyped ==
  ASSUME NEW v \in Versions, NEW base \in Config, NEW ask \in Asks
  PROVE  Made(v, base, ask) \in Config /\ Ensured(v) \in Config
BY DEF Made, Ensured, Config, Asks, Stages, DefaultStage

(* An answered save leaves a copy as late as the save was.                 *)
LEMMA SavedKeepsAges ==
  ASSUME AgesInv, StageAssumption, NEW c \in Containers, Saved(c)
  PROVE  /\ held' \in [Containers -> Entry] /\ edit' \in [Containers -> Job]
         /\ \A d \in Containers : Recent(held'[d]) /\ Timely(edit'[d])
         /\ demoted' \in BOOLEAN
<1>1. held \in [Containers -> Entry] /\ edit \in [Containers -> Job] /\ demoted \in BOOLEAN
  BY DEF AgesInv, TypeOK, Entry, Job
<1>2. Refresh \in Nat \ {0} /\ RequestTime \in Nat /\ MaxEdits \in Nat
  BY DEF StageAssumption
<1>3. \A d \in Containers : Recent(held[d]) /\ Timely(edit[d])
  BY DEF AgesInv
<1> DEFINE saved == [config |-> edit[c].made, age |-> 0, kept |-> FALSE, late |-> edit[c].late]
<1>4. edit[c].late <= RequestTime /\ saved \in Entry
  BY <1>1, <1>2, <1>3 DEF Timely, Job, Entry
<1>5. Recent(saved)
  BY <1>2, <1>4 DEF Recent
<1>6. NoEdit \in Job /\ Timely(NoEdit)
  BY <1>2 DEF NoEdit, NotConfigured, Job, Timely, Config, Asks, Versions
<1>7. held' = [held EXCEPT ![c] = saved] /\ edit' = [edit EXCEPT ![c] = NoEdit]
  BY DEF Saved, Holds
<1>8. demoted' \in BOOLEAN
  BY <1>1 DEF Saved
<1> HIDE DEF saved
<1> QED BY <1>1, <1>3, <1>4, <1>5, <1>6, <1>7, <1>8

LEMMA StartsKeepsAges ==
  ASSUME AgesInv, StageAssumption, NEW c \in Containers,
         NEW made \in Config, NEW ask \in Asks, NEW unread,
         Starts(c, made, ask, unread),
         held' \in [Containers -> Entry], \A d \in Containers : Recent(held'[d]),
         faults' \in 0..MaxFaults
  PROVE  AgesInv'
<1>1. edit \in [Containers -> Job] /\ edits \in Versions
  BY DEF AgesInv, TypeOK, Job
<1>2. RequestTime \in Nat /\ MaxEdits \in Nat
  BY DEF StageAssumption
<1> DEFINE begun == [at |-> "put", made |-> made, ask |-> ask, wait |-> 0, late |-> 0]
<1>3. begun \in Job /\ Timely(begun)
  BY <1>2 DEF Job, Timely
<1>4. edit' = [edit EXCEPT ![c] = begun] /\ edits' = edits + 1 /\ edits < MaxEdits
  BY DEF Starts
<1>5. edit' \in [Containers -> Job] /\ \A d \in Containers : Timely(edit'[d])
  <2> HIDE DEF begun
  <2> QED BY <1>1, <1>3, <1>4 DEF AgesInv
<1>6. edits' \in Versions
  BY <1>1, <1>2, <1>4 DEF Versions
<1>7. demoted' \in BOOLEAN /\ hurt' \subseteq {"overlap", "unread", "failed", "torn"}
  BY DEF Starts, AgesInv, TypeOK
<1>8. UNCHANGED <<kind, stored, index, answers, remembered>>
  BY DEF Starts, config
<1>9. TypeOK'
  BY <1>5, <1>6, <1>7, <1>8 DEF AgesInv, TypeOK, Entry, Job
<1> QED BY <1>5, <1>9 DEF AgesInv

LEMMA EditKeepsAges ==
  ASSUME AgesInv, StageAssumption, NEW c \in Containers, NEW ask \in Asks, Edit(c, ask)
  PROVE  AgesInv'
<1>1. PICK entry \in {Seen, Kept(c)} :
        /\ ReadsFresh(c, entry) /\ Holds(c, entry)
        /\ Starts(c, Made(edits + 1, entry.config, ask), ask, entry.kept)
  BY DEF Edit
<1>2. entry \in Entry /\ Recent(entry) /\ faults' \in 0..MaxFaults
  BY <1>1, ReadsAreRecent
<1>3. held' \in [Containers -> Entry] /\ \A d \in Containers : Recent(held'[d])
  <2>1. held \in [Containers -> Entry] /\ \A d \in Containers : Recent(held[d])
    BY DEF AgesInv, TypeOK, Entry
  <2> QED BY <1>1, <1>2, <2>1 DEF Holds
<1>4. edits + 1 \in Versions
  BY <1>1 DEF Starts, AgesInv, TypeOK, Versions, StageAssumption
<1>5. Made(edits + 1, entry.config, ask) \in Config
  BY <1>2, <1>4, MadeTyped DEF Entry
<1> QED BY <1>1, <1>2, <1>3, <1>5, StartsKeepsAges

LEMMA OperateKeepsAges ==
  ASSUME AgesInv, StageAssumption, NEW c \in Containers, NEW ask \in Asks, Operate(c, ask)
  PROVE  AgesInv'
<1>1. /\ held' \in [Containers -> Entry] /\ \A d \in Containers : Recent(held'[d])
      /\ faults' \in 0..MaxFaults /\ stored \in Config
  BY DEF Operate, AgesInv, TypeOK, Entry
<1>2. edits + 1 \in Versions
  BY DEF Operate, Starts, AgesInv, TypeOK, Versions, StageAssumption
<1>3. Ensured(edits + 1) \in Config /\ Made(edits + 1, stored, ask) \in Config
  BY <1>1, <1>2, MadeTyped
<1>4. "same" \in Asks
  BY DEF Asks
<1>5. CASE Starts(c, Ensured(edits + 1), "same", FALSE)
  BY <1>1, <1>3, <1>4, <1>5, StartsKeepsAges
<1>6. CASE Starts(c, Made(edits + 1, stored, ask), ask, FALSE)
  BY <1>1, <1>3, <1>6, StartsKeepsAges
<1> QED BY <1>5, <1>6 DEF Operate

LEMMA PutKeepsAges ==
  ASSUME AgesInv, StageAssumption, NEW c \in Containers, Put(c)
  PROVE  AgesInv'
<1>1. held \in [Containers -> Entry] /\ edit \in [Containers -> Job]
  BY DEF AgesInv, TypeOK, Entry, Job
<1>2. UNCHANGED <<kind, index, answers, remembered, edits>>
  BY DEF Put
<1>3. CASE /\ stored' = edit[c].made /\ edit' = [edit EXCEPT ![c].at = "index"]
           /\ UNCHANGED <<held, faults, demoted, hurt>>
  <2>1. edit[c].late = 0 /\ edit[c] \in Job
    BY <1>1 DEF Put, AgesInv, Timely
  <2>2. edit'[c] \in Job /\ edit'[c].at = "index" /\ edit'[c].late <= edit'[c].wait
    BY <1>1, <1>3, <2>1, 0 <= RequestTime DEF Job, StageAssumption
  <2>3. edit' \in [Containers -> Job] /\ \A d \in Containers : Timely(edit'[d])
    BY <1>1, <1>3, <2>2 DEF AgesInv, Timely
  <2>4. stored' \in Config
    BY <1>1, <1>3 DEF Job
  <2>5. TypeOK'
    BY <1>1, <1>2, <1>3, <2>3, <2>4 DEF AgesInv, TypeOK, Entry, Job
  <2> QED BY <1>3, <2>3, <2>5 DEF AgesInv
<1>4. CASE Fault /\ hurt' = hurt \cup {"failed"} /\ Saved(c) /\ UNCHANGED stored
  <2>1. faults' \in 0..MaxFaults
    BY <1>4 DEF Fault, AgesInv, TypeOK, StageAssumption
  <2>2. hurt' \subseteq {"overlap", "unread", "failed", "torn"}
    BY <1>4 DEF AgesInv, TypeOK
  <2>3. /\ held' \in [Containers -> Entry] /\ edit' \in [Containers -> Job]
        /\ \A d \in Containers : Recent(held'[d]) /\ Timely(edit'[d])
        /\ demoted' \in BOOLEAN
    BY <1>4, SavedKeepsAges
  <2>4. TypeOK'
    BY <1>2, <1>4, <2>1, <2>2, <2>3 DEF AgesInv, TypeOK, Entry, Job
  <2> QED BY <2>3, <2>4 DEF AgesInv
<1> QED BY <1>3, <1>4 DEF Put

LEMMA PutIndexKeepsAges ==
  ASSUME AgesInv, StageAssumption, NEW c \in Containers, PutIndex(c)
  PROVE  AgesInv'
<1>1. /\ held' \in [Containers -> Entry] /\ edit' \in [Containers -> Job]
      /\ \A d \in Containers : Recent(held'[d]) /\ Timely(edit'[d])
      /\ demoted' \in BOOLEAN
  BY SavedKeepsAges DEF PutIndex
<1>2. faults' \in 0..MaxFaults /\ index' \in Config
  BY DEF PutIndex, Fault, AgesInv, TypeOK, StageAssumption
<1>3. hurt' \subseteq {"overlap", "unread", "failed", "torn"}
  BY DEF PutIndex, AgesInv, TypeOK
<1>4. TypeOK'
  BY <1>1, <1>2, <1>3 DEF PutIndex, AgesInv, TypeOK, Entry, Job
<1> QED BY <1>1, <1>4 DEF AgesInv

LEMMA RecycleKeepsAges ==
  ASSUME AgesInv, StageAssumption, NEW c \in Containers, Recycle(c)
  PROVE  AgesInv'
<1>1. held \in [Containers -> Entry] /\ edit \in [Containers -> Job]
  BY DEF AgesInv, TypeOK, Entry, Job
<1>2. NotHeld \in Entry /\ Recent(NotHeld) /\ NoEdit \in Job /\ Timely(NoEdit)
  BY DEF NotHeld, NoEdit, NotConfigured, Entry, Job, Recent, Timely, Config, Asks, Versions,
         StageAssumption
<1>3. /\ held' \in [Containers -> Entry] /\ edit' \in [Containers -> Job]
      /\ \A d \in Containers : Recent(held'[d]) /\ Timely(edit'[d])
  BY <1>1, <1>2 DEF Recycle, AgesInv
<1>4. faults' \in 0..MaxFaults
  BY DEF Recycle, Fault, AgesInv, TypeOK, StageAssumption
<1>5. hurt' \subseteq {"overlap", "unread", "failed", "torn"}
  BY DEF Recycle, AgesInv, TypeOK
<1>6. TypeOK'
  BY <1>3, <1>4, <1>5 DEF Recycle, config, AgesInv, TypeOK, Entry, Job
<1> QED BY <1>3, <1>6 DEF AgesInv

LEMMA JudgeKeepsAges ==
  ASSUME AgesInv, StageAssumption, NEW c \in Containers, NEW governing \in BOOLEAN,
         Judge(c, governing)
  PROVE  AgesInv'
<1>1. PICK entry \in {Seen, Kept(c), AsHeld(held[c])} :
        /\ Reads(c, entry) /\ Holds(c, entry)
        /\ answers' = [answers EXCEPT ![StageOf(entry.config)] = @ + 1]
  BY DEF Judge
<1>2. entry \in Entry /\ Recent(entry) /\ faults' \in 0..MaxFaults
  BY <1>1, ReadsAreRecent
<1>3. held' \in [Containers -> Entry] /\ \A d \in Containers : Recent(held'[d])
  <2>1. held \in [Containers -> Entry] /\ \A d \in Containers : Recent(held[d])
    BY DEF AgesInv, TypeOK, Entry
  <2> QED BY <1>1, <1>2, <2>1 DEF Holds
<1>4. StageOf(entry.config) \in Stages
  BY DEF StageOf, Stages, DefaultStage
<1>5. answers' \in [Stages -> Nat]
  <2>1. answers \in [Stages -> Nat]
    BY DEF AgesInv, TypeOK
  <2> QED BY <1>1, <1>4, <2>1
<1>6. TypeOK'
  BY <1>2, <1>3, <1>5 DEF Judge, config, past, AgesInv, TypeOK, Entry
<1> QED BY <1>3, <1>6 DEF Judge, AgesInv

LEMMA ArrivesKeepsAges ==
  ASSUME AgesInv, NEW s \in Stages, Arrives(s),
         remembered' \in Stages \cup {"none"}, faults' \in 0..MaxFaults
  PROVE  AgesInv'
<1>1. answers' \in [Stages -> Nat]
  BY DEF Arrives, AgesInv, TypeOK
<1>2. TypeOK'
  BY <1>1 DEF Arrives, config, past, AgesInv, TypeOK
<1> QED BY <1>2 DEF Arrives, AgesInv

LEMMA TickKeepsAges ==
  ASSUME AgesInv, StageAssumption, Tick
  PROVE  AgesInv'
<1>1. Refresh \in Nat \ {0} /\ RequestTime \in Nat
  BY DEF StageAssumption
<1>2. ASSUME NEW c \in Containers
      PROVE  held'[c] \in Entry /\ Recent(held'[c])
  <2>1. held[c] \in Entry /\ Recent(held[c])
    BY DEF AgesInv, TypeOK, Entry
  <2> DEFINE age == Lesser(held[c].age + 1, Refresh)
             late == IF age = Refresh THEN 0
                     ELSE IF held[c].config = stored THEN held[c].late ELSE held[c].late + 1
  <2>2. held'[c] = [held[c] EXCEPT !.age = age, !.late = late]
    BY DEF Tick, Older
  <2>3. age \in 0..Refresh /\ (age # Refresh => age = held[c].age + 1)
    BY <1>1, <2>1 DEF Entry, Lesser
  <2>4. late \in Nat /\ (age # Refresh => late <= held[c].late + 1)
    BY <2>1 DEF Entry
  <2>5. held'[c] \in Entry
    BY <2>1, <2>2, <2>3, <2>4 DEF Entry
  <2>6. /\ held'[c].age = age /\ held'[c].late = late /\ held'[c].kept = held[c].kept
        /\ held[c].late \in Nat /\ held[c].age \in Nat
    <3> HIDE DEF age, late
    <3> QED BY <1>1, <2>1, <2>2 DEF Entry
  <2>7. Recent(held'[c])
    <3> HIDE DEF age, late
    <3> SUFFICES ASSUME age < Refresh, ~held[c].kept
                 PROVE  late <= age + RequestTime
      BY <2>6 DEF Recent
    <3>1. age = held[c].age + 1 /\ late <= held[c].late + 1
      BY <1>1, <2>3, <2>4
    <3>2. held[c].late <= held[c].age + RequestTime
      BY <1>1, <2>1, <2>6, <3>1 DEF Recent
    <3> QED BY <1>1, <2>4, <2>6, <3>1, <3>2
  <2> QED BY <2>5, <2>7
<1>3. ASSUME NEW c \in Containers
      PROVE  edit'[c] \in Job /\ Timely(edit'[c])
  <2>1. edit[c] \in Job /\ Timely(edit[c]) /\ (edit[c].at # "idle" => edit[c].wait < RequestTime)
    BY DEF AgesInv, TypeOK, Job, Tick, InFlight
  <2>2. edit'[c] = Waiting(edit[c])
    BY DEF Tick
  <2> DEFINE wait == IF edit[c].at = "idle" THEN edit[c].wait ELSE edit[c].wait + 1
             late == IF edit[c].at = "index" /\ edit[c].made # stored
                     THEN edit[c].late + 1 ELSE edit[c].late
  <2>3. edit'[c] = [edit[c] EXCEPT !.wait = wait, !.late = late]
    BY <2>2 DEF Waiting
  <2>4. edit[c].wait \in 0..RequestTime /\ edit[c].late \in Nat
    BY <2>1 DEF Job
  <2>5. wait \in 0..RequestTime /\ late \in Nat
    BY <1>1, <2>1, <2>4
  <2>6. edit[c].at = "index" => wait = edit[c].wait + 1 /\ late <= edit[c].late + 1
    BY <2>4
  <2>7. edit[c].at # "index" => late = edit[c].late
    OBVIOUS
  <2> HIDE DEF wait, late
  <2>8. edit'[c] \in Job
    BY <2>1, <2>3, <2>5 DEF Job
  <2>9. edit'[c].at = edit[c].at /\ edit'[c].wait = wait /\ edit'[c].late = late
    BY <2>1, <2>3 DEF Job
  <2>10. Timely(edit'[c])
    BY <1>1, <2>1, <2>4, <2>5, <2>6, <2>7, <2>9 DEF Timely
  <2> QED BY <2>8, <2>10
<1>4. held' \in [Containers -> Entry] /\ edit' \in [Containers -> Job]
  BY <1>2, <1>3 DEF Tick
<1>5. TypeOK'
  BY <1>4 DEF Tick, config, counts, past, AgesInv, TypeOK, Entry, Job
<1> QED BY <1>2, <1>3, <1>5 DEF AgesInv

LEMMA InitAges == StageAssumption /\ Init => AgesInv
<1> SUFFICES ASSUME StageAssumption, Init PROVE AgesInv
  OBVIOUS
<1>1. NotHeld \in Entry /\ Recent(NotHeld) /\ NoEdit \in Job /\ Timely(NoEdit)
  BY DEF NotHeld, NoEdit, NotConfigured, Entry, Job, Recent, Timely, Config, Asks, Versions,
         StageAssumption
<1>2. kind \in {"plain", "sandbox", "named"} /\ stored \in Config
  BY DEF Init, StageAssumption, Config, Versions
<1>3. held \in [Containers -> Entry] /\ edit \in [Containers -> Job]
  BY <1>1 DEF Init
<1>4. index \in Config /\ edits \in Versions /\ faults \in 0..MaxFaults
  BY <1>2 DEF Init, Versions, StageAssumption
<1>5. answers \in [Stages -> Nat] /\ remembered \in Stages \cup {"none"}
  BY DEF Init
<1>6. demoted \in BOOLEAN /\ hurt \subseteq {"overlap", "unread", "failed", "torn"}
  BY DEF Init
<1>7. TypeOK
  BY <1>2, <1>3, <1>4, <1>5, <1>6 DEF TypeOK, Entry, Job
<1> QED BY <1>1, <1>7 DEF Init, AgesInv

LEMMA NextAges == AgesInv /\ StageAssumption /\ [Next]_vars => AgesInv'
<1> SUFFICES ASSUME AgesInv, StageAssumption, [Next]_vars PROVE AgesInv'
  OBVIOUS
<1>1. CASE Tick
  BY <1>1, TickKeepsAges
<1>2. ASSUME NEW c \in Containers, Configure(c) PROVE AgesInv'
  BY <1>2, EditKeepsAges, OperateKeepsAges, PutKeepsAges, PutIndexKeepsAges, RecycleKeepsAges
     DEF Configure
<1>3. ASSUME NEW c \in Containers, NEW governing \in BOOLEAN, Judge(c, governing) PROVE AgesInv'
  BY <1>3, JudgeKeepsAges
<1>4. ASSUME NEW s \in Stages, Remember(s) PROVE AgesInv'
  <2>1. Arrives(s) /\ remembered' \in Stages \cup {"none"} /\ faults' \in 0..MaxFaults
    BY <1>4 DEF Remember, AgesInv, TypeOK
  <2> QED BY <2>1, ArrivesKeepsAges
<1>5. ASSUME NEW s \in Stages, GiveUp(s) PROVE AgesInv'
  <2>1. Arrives(s) /\ remembered' \in Stages \cup {"none"} /\ faults' \in 0..MaxFaults
    BY <1>5 DEF GiveUp, Fault, AgesInv, TypeOK, StageAssumption
  <2> QED BY <2>1, ArrivesKeepsAges
<1>6. CASE UNCHANGED vars
  BY <1>6 DEF vars, config, counts, past, AgesInv, TypeOK, Recent, Timely
<1> QED BY <1>1, <1>2, <1>3, <1>4, <1>5, <1>6 DEF Next

(* Every reachable state is typed, and no copy in use is older than its    *)
(* age and its save explain.                                               *)
THEOREM AgesBounded == Spec => []AgesInv
BY InitAges, NextAges, StageAssumption, PTL DEF Spec

(* A judgement uses a copy less than an interval old, or reads.            *)
LEMMA JudgesRecent ==
  ASSUME AgesInv, StageAssumption, NEW c \in Containers, Judge(c, FALSE)
  PROVE  held'[c].kept \/ held'[c].late < Refresh + RequestTime
<1>1. PICK entry : Reads(c, entry) /\ Holds(c, entry)
  BY DEF Judge
<1>2. entry \in Entry /\ Recent(entry) /\ entry.age < Refresh
  BY <1>1, ReadsAreRecent
<1>3. held'[c] = entry
  BY <1>1 DEF Holds, AgesInv, TypeOK
<1> QED BY <1>2, <1>3 DEF Recent, Entry, StageAssumption

(* However many containers and edits there are and however they overlap,   *)
(* crash or fail: a call is judged under a stage that was the stored one   *)
(* within RULES_REFRESH_SECONDS and the time of a request, unless its      *)
(* container has failed to read it.                                        *)
THEOREM StageIsRecent == Spec => JudgedUnderRecentStage
<1>1. AgesInv /\ StageAssumption /\ [Next]_vars
        => [\A c \in Containers :
              Judge(c, FALSE) => held'[c].kept \/ held'[c].late < Refresh + RequestTime]_vars
  BY JudgesRecent
<1> QED BY <1>1, AgesBounded, StageAssumption, PTL DEF Spec, JudgedUnderRecentStage

-----------------------------------------------------------------------------
(* Why a demotion holds: edits that neither overlap nor fail, made on a    *)
(* copy that was read, leave at most one save under way, and it carries    *)
(* the stage it was asked for or the one that is stored.                   *)
Undisturbed == hurt \subseteq {"torn"}

Carries(e) ==
  /\ demoted => e.ask # "enforce"
  /\ e.ask # "same" => e.made.stage = e.ask
  /\ demoted /\ e.ask = "same" => e.made.stage = "observe"
  /\ e.at = "index" => stored = e.made

OneAtATime == \A c, d \in Containers : InFlight(c) /\ InFlight(d) => c = d

DemotionInv ==
  Undisturbed =>
    /\ OneAtATime
    /\ demoted => stored.stage = "observe"
    /\ \A c \in Containers : InFlight(c) => Carries(edit[c])

(* A change begun on the stored copy while nothing else is under way.      *)
LEMMA StartsKeepsDemotion ==
  ASSUME TypeOK, DemotionInv, NEW c \in Containers, NEW made \in Config, NEW ask \in Asks,
         NEW unread, Starts(c, made, ask, unread), Undisturbed',
         ask # "same" => made.stage = ask,
         demoted /\ ask = "same" => made.stage = "observe"
  PROVE  DemotionInv'
<1> DEFINE begun == [at |-> "put", made |-> made, ask |-> ask, wait |-> 0, late |-> 0]
<1>1. edit' = [edit EXCEPT ![c] = begun] /\ stored' = stored
  BY DEF Starts, config
<1>2. demoted' = (demoted /\ ask # "enforce")
  BY DEF Starts
<1>3. Undisturbed
  BY DEF Starts, Undisturbed
<1>4. \A o \in Containers : ~InFlight(o)
  BY DEF Starts, Undisturbed
<1>5. edit'[c] = begun /\ \A o \in Containers : o # c => edit'[o] = edit[o]
  BY <1>1 DEF TypeOK
<1>6. OneAtATime'
  BY <1>4, <1>5 DEF OneAtATime, InFlight
<1>7. demoted' => stored'.stage = "observe"
  BY <1>1, <1>2, <1>3 DEF DemotionInv
<1>8. demoted' => demoted /\ ask # "enforce"
  BY <1>2
<1>9. Carries(edit[c])'
  BY <1>5, <1>8 DEF Carries
<1>10. \A o \in Containers : InFlight(o)' => Carries(edit[o])'
  BY <1>4, <1>5, <1>9 DEF InFlight
<1> QED BY <1>6, <1>7, <1>10 DEF DemotionInv

LEMMA EditKeepsDemotion ==
  ASSUME TypeOK, StageAssumption, DemotionInv, NEW c \in Containers, NEW ask \in Asks,
         Edit(c, ask), Undisturbed'
  PROVE  DemotionInv'
<1>1. PICK entry \in {Seen, Kept(c)} :
        /\ ReadsFresh(c, entry)
        /\ Starts(c, Made(edits + 1, entry.config, ask), ask, entry.kept)
  BY DEF Edit
<1>2. ~entry.kept
  BY <1>1 DEF Starts, Undisturbed
<1>3. CASE entry = Kept(c)
  <2>1. entry.kept = TRUE
    BY <1>3 DEF Kept, TypeOK
  <2> QED BY <1>2, <2>1
<1>4. CASE entry = Seen
  <2>1. entry.config = stored
    BY <1>4 DEF Seen
  <2>2. edits + 1 \in Versions /\ stored \in Config
    BY <1>1 DEF Starts, TypeOK, Versions, StageAssumption
  <2>3. Made(edits + 1, stored, ask) \in Config
    BY <2>2, MadeTyped
  <2>4. demoted => stored.stage = "observe"
    BY <1>1 DEF Starts, Undisturbed, DemotionInv
  <2>5. /\ ask # "same" => Made(edits + 1, stored, ask).stage = ask
        /\ demoted /\ ask = "same" => Made(edits + 1, stored, ask).stage = "observe"
    BY <2>4 DEF Made, Stages
  <2> QED BY <1>1, <2>1, <2>3, <2>5, StartsKeepsDemotion
<1> QED BY <1>3, <1>4

LEMMA OperateKeepsDemotion ==
  ASSUME TypeOK, StageAssumption, DemotionInv, NEW c \in Containers, NEW ask \in Asks,
         Operate(c, ask), Undisturbed'
  PROVE  DemotionInv'
<1>1. edits + 1 \in Versions /\ stored \in Config
  BY DEF Operate, Starts, TypeOK, Versions, StageAssumption
<1>2. Made(edits + 1, stored, ask) \in Config /\ Ensured(edits + 1) \in Config
  BY <1>1, MadeTyped
<1>3. demoted => stored.stage = "observe"
  BY DEF Operate, Starts, Undisturbed, DemotionInv
<1>4. CASE Starts(c, Ensured(edits + 1), "same", FALSE)
  <2>1. "same" \in Asks /\ Ensured(edits + 1).stage = "observe"
    BY DEF Asks, Ensured
  <2> QED BY <1>2, <1>4, <2>1, StartsKeepsDemotion
<1>5. CASE Starts(c, Made(edits + 1, stored, ask), ask, FALSE)
  <2>1. /\ ask # "same" => Made(edits + 1, stored, ask).stage = ask
        /\ demoted /\ ask = "same" => Made(edits + 1, stored, ask).stage = "observe"
    BY <1>3 DEF Made, Stages
  <2> QED BY <1>2, <1>5, <2>1, StartsKeepsDemotion
<1> QED BY <1>4, <1>5 DEF Operate

LEMMA PutKeepsDemotion ==
  ASSUME TypeOK, DemotionInv, NEW c \in Containers, Put(c), Undisturbed'
  PROVE  DemotionInv'
<1>1. /\ stored' = edit[c].made /\ edit' = [edit EXCEPT ![c].at = "index"]
      /\ demoted' = demoted /\ hurt' = hurt
  BY DEF Put, Undisturbed
<1>2. OneAtATime /\ InFlight(c) /\ Carries(edit[c])
  BY <1>1 DEF DemotionInv, Undisturbed, Put, InFlight
<1>3. /\ edit'[c].at = "index" /\ edit'[c].made = edit[c].made /\ edit'[c].ask = edit[c].ask
      /\ \A o \in Containers : o # c => edit'[o] = edit[o]
  BY <1>1 DEF TypeOK
<1>4. \A o \in Containers : InFlight(o)' => o = c
  BY <1>2, <1>3 DEF OneAtATime, InFlight
<1>5. edit[c].ask \in {"observe", "enforce", "same"}
  BY DEF TypeOK, Asks, Stages
<1>6. demoted' => stored'.stage = "observe"
  BY <1>1, <1>2, <1>5 DEF Carries
<1>7. Carries(edit[c])'
  BY <1>1, <1>2, <1>3 DEF Carries
<1> QED BY <1>4, <1>6, <1>7 DEF DemotionInv, OneAtATime

LEMMA PutIndexKeepsDemotion ==
  ASSUME TypeOK, DemotionInv, NEW c \in Containers, PutIndex(c), Undisturbed'
  PROVE  DemotionInv'
<1>1. edit' = [edit EXCEPT ![c] = NoEdit] /\ stored' = stored
  BY DEF PutIndex, Saved
<1>2. Undisturbed
  BY DEF PutIndex, Undisturbed
<1>3. OneAtATime /\ InFlight(c) /\ Carries(edit[c]) /\ stored = edit[c].made
  BY <1>2 DEF DemotionInv, PutIndex, InFlight, Carries
<1>4. \A o \in Containers : ~InFlight(o)'
  BY <1>1, <1>3 DEF OneAtATime, InFlight, NoEdit, TypeOK
<1>5. demoted' => stored'.stage = "observe"
  <2>1. CASE edit[c].ask = "observe"
    BY <1>1, <1>3, <2>1 DEF Carries
  <2>2. CASE edit[c].ask # "observe"
    BY <1>1, <1>2, <2>2 DEF PutIndex, Saved, DemotionInv
  <2> QED BY <2>1, <2>2
<1> QED BY <1>4, <1>5 DEF DemotionInv, OneAtATime

LEMMA RecycleKeepsDemotion ==
  ASSUME TypeOK, DemotionInv, NEW c \in Containers, Recycle(c), Undisturbed'
  PROVE  DemotionInv'
<1>1. edit' = [edit EXCEPT ![c] = NoEdit] /\ stored' = stored /\ demoted' = demoted
  BY DEF Recycle, config
<1>2. Undisturbed
  BY DEF Recycle, Undisturbed
<1>3. ~InFlight(c)' /\ \A o \in Containers : o # c => edit'[o] = edit[o]
  BY <1>1 DEF InFlight, NoEdit, TypeOK
<1>4. OneAtATime'
  BY <1>2, <1>3 DEF DemotionInv, OneAtATime, InFlight
<1>5. \A o \in Containers : InFlight(o)' => Carries(edit[o])'
  BY <1>1, <1>2, <1>3 DEF DemotionInv, InFlight, Carries
<1> QED BY <1>1, <1>2, <1>4, <1>5 DEF DemotionInv

LEMMA TickKeepsDemotion ==
  ASSUME TypeOK, DemotionInv, Tick, Undisturbed'
  PROVE  DemotionInv'
<1>1. stored' = stored /\ demoted' = demoted /\ hurt' = hurt
  BY DEF Tick, config, past
<1>2. ASSUME NEW c \in Containers
      PROVE  /\ edit'[c].at = edit[c].at /\ edit'[c].ask = edit[c].ask
             /\ edit'[c].made = edit[c].made
  BY DEF Tick, Waiting, TypeOK
<1> QED BY <1>1, <1>2 DEF DemotionInv, Undisturbed, OneAtATime, InFlight, Carries

LEMMA NextDemotion == TypeOK /\ StageAssumption /\ DemotionInv /\ [Next]_vars => DemotionInv'
<1> SUFFICES ASSUME TypeOK, StageAssumption, DemotionInv, [Next]_vars, Undisturbed'
             PROVE  DemotionInv'
  BY DEF DemotionInv
<1>1. ASSUME NEW c \in Containers, Configure(c) PROVE DemotionInv'
  BY <1>1, EditKeepsDemotion, OperateKeepsDemotion, PutKeepsDemotion, PutIndexKeepsDemotion,
     RecycleKeepsDemotion DEF Configure
<1>2. CASE UNCHANGED <<config, edit, past>>
  BY <1>2 DEF config, past, DemotionInv, Undisturbed, OneAtATime, InFlight, Carries
<1>3. ASSUME NEW c \in Containers, NEW governing \in BOOLEAN, Judge(c, governing)
      PROVE  DemotionInv'
  BY <1>2, <1>3 DEF Judge
<1>4. ASSUME NEW s \in Stages, Remember(s) \/ GiveUp(s) PROVE DemotionInv'
  BY <1>2, <1>4 DEF Remember, GiveUp, Arrives
<1>5. CASE UNCHANGED vars
  BY <1>2, <1>5 DEF vars
<1> QED BY <1>1, <1>3, <1>4, <1>5, TickKeepsDemotion DEF Next

(* As long as edits neither overlap nor fail and read what they change,    *)
(* a demotion that was answered holds until somebody asks for Enforce,     *)
(* whatever crashes and however long anything takes.                       *)
THEOREM DemotionsHold == Spec => []DemotionHoldsUndisturbed
<1>1. Init => DemotionInv
  BY DEF Init, DemotionInv, OneAtATime, InFlight, NoEdit
<1>2. AgesInv => TypeOK
  BY DEF AgesInv
<1>3. DemotionInv => DemotionHoldsUndisturbed
  BY DEF DemotionInv, Undisturbed, DemotionHoldsUndisturbed, DemotionHolds, StageOf, Stages
<1> QED BY <1>1, <1>2, <1>3, NextDemotion, AgesBounded, StageAssumption, PTL DEF Spec
=============================================================================

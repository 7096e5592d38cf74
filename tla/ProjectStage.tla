------------------------------ MODULE ProjectStage ------------------------------
(***************************************************************************)
(* The stage of one project: the configuration item and its copy in the    *)
(* project index, the routes and the demo fleet that read it, change it    *)
(* and write it back whole, the copy each container holds for an interval, *)
(* and the stage the hooks of one machine remember from the answers they   *)
(* get (application/projects.py, interfaces/app_routes.py,                 *)
(* application/evaluator.py, hooks/threefold_hook.py).                     *)
(*                                                                         *)
(* Time is relative: ages grow with Tick and stop where they no longer     *)
(* decide anything.  The rules that keep observing and the history travel  *)
(* with the stage, are lost and kept with it, and are not told apart from  *)
(* the version that carries them.  A sandbox's day is left out.            *)
(***************************************************************************)
EXTENDS Integers

CONSTANTS
  Containers,
  Projects,     \* what the name may make of the project, and the stage it is found at
  MaxCalls,     \* BOUND: calls of one machine at once, whose hooks share a remembered stage
  Refresh,      \* RULES_REFRESH_SECONDS
  RequestTime,  \* the longest a request may run, the function's Timeout
  MaxEdits,     \* BOUND: changes asked for in a behaviour
  MaxFaults     \* BOUND: failed store calls, recycled containers, lost answers

Stages == {"observe", "enforce"}

ASSUME StageAssumption ==
  /\ Projects \subseteq [kind : {"plain", "sandbox", "named"}, stage : Stages \cup {"none"}]
  /\ MaxCalls \in Nat
  /\ Refresh \in Nat \ {0} /\ RequestTime \in Nat
  /\ MaxEdits \in Nat /\ MaxFaults \in Nat

Versions == 0..MaxEdits

(* A configuration: the edit that wrote it, and its stage.                 *)
Config        == [ver : Versions, stage : Stages \cup {"none"}]
NotConfigured == [ver |-> 0, stage |-> "none"]

(* A change asked for names a stage (a promotion, a demotion, a posted     *)
(* stage) or only rules to observe, and then it keeps the stage.           *)
Asks == Stages \cup {"same"}

VARIABLES
  kind,        \* what the name makes of the project, never changed
  stored,      \* the configuration item
  index,       \* its copy in the project index
  held,        \* held[c]: the copy container c holds, its age, kept over a failed read
               \*   (and, HISTORY, how long it has not been the stored one)
  edit,        \* edit[c]: the change container c is making and how long it has run
  answers,     \* answers[s]: the answers on their way to a hook that name stage s
  remembered,  \* the stage the machine remembers
  edits, faults,
  demoted,     \* HISTORY: a demotion was answered, and nobody asked to enforce since
  hurt         \* HISTORY: what has disturbed the edits

counts == <<edits, faults>>
config == <<stored, index>>
past   == <<demoted, hurt>>
vars   == <<kind, config, held, edit, answers, remembered, counts, past>>

NotHeld == [config |-> NotConfigured, age |-> Refresh, kept |-> FALSE, late |-> 0]
NoEdit  == [at |-> "idle", made |-> NotConfigured, ask |-> "same", wait |-> 0, late |-> 0]

Init ==
  /\ \E p \in Projects : kind = p.kind /\ stored = [ver |-> 0, stage |-> p.stage]
  /\ index = stored
  /\ held = [c \in Containers |-> NotHeld]
  /\ edit = [c \in Containers |-> NoEdit]
  /\ answers = [s \in Stages |-> 0]
  /\ remembered = "none"
  /\ edits = 0 /\ faults = 0
  /\ demoted = FALSE /\ hurt = {}

-----------------------------------------------------------------------------
Lesser(a, b) == IF a < b THEN a ELSE b

(* The stack's default is Observe, and a name may ask for Enforce.         *)
DefaultStage == "observe"

StageOf(c) ==
  IF c.stage \in Stages THEN c.stage
  ELSE IF kind = "named" THEN "enforce" ELSE DefaultStage

ReadsEveryTime == kind = "sandbox"

(* Slip: a copy is as young as its last use.                               *)
UsedNow(entry) == [entry EXCEPT !.age = 0]

AsHeld(entry) == entry

(* project_config(fresh): the stored copy, or what is held when the read   *)
(* fails, and an entry no container holds reads as not configured.         *)
Seen    == [config |-> stored, age |-> 0, kept |-> FALSE, late |-> 0]
Kept(c) == [held[c] EXCEPT !.age = 0, !.kept = TRUE]

Fault == faults < MaxFaults /\ faults' = faults + 1

ReadsFresh(c, entry) ==
  \/ entry = Seen /\ UNCHANGED faults
  \/ entry = Kept(c) /\ Fault

(* project_config: what is held, for an interval, unless it is a sandbox.  *)
Reads(c, entry) ==
  IF held[c].age < Refresh /\ ~ReadsEveryTime
  THEN entry = AsHeld(held[c]) /\ UNCHANGED faults
  ELSE ReadsFresh(c, entry)

Holds(c, entry) == held' = [held EXCEPT ![c] = entry]

InFlight(c) == edit[c].at # "idle"

(* updated, promoted, demoted and _observe_noisy's change, over a base.    *)
Made(v, base, ask) ==
  [ver   |-> v,
   stage |-> IF ask # "same" THEN ask
             ELSE IF base.stage \in Stages THEN base.stage ELSE DefaultStage]

(* _ensure_configured: the fleet creates what is missing before it acts.   *)
Ensured(v) == [ver |-> v, stage |-> "observe"]

-----------------------------------------------------------------------------
(* The routes and the fleet: read, change, put the item, put the index.    *)

Starts(c, made, ask, unread) ==
  /\ ~InFlight(c) /\ edits < MaxEdits
  /\ edits' = edits + 1
  /\ edit' = [edit EXCEPT ![c] = [at |-> "put", made |-> made, ask |-> ask, wait |-> 0, late |-> 0]]
  /\ hurt' = hurt \cup (IF \E o \in Containers : InFlight(o) THEN {"overlap"} ELSE {})
                  \cup (IF unread THEN {"unread"} ELSE {})
  /\ demoted' = (demoted /\ ask # "enforce")
  /\ UNCHANGED <<kind, config, answers, remembered>>

(* Slip: the route changes the copy it holds instead of the stored one.    *)
EditHeld(c, ask) ==
  \E entry \in {Seen, Kept(c), held[c]} :
    /\ Reads(c, entry) /\ Holds(c, entry)
    /\ Starts(c, Made(edits + 1, entry.config, ask), ask, entry.kept)

(* _post_project, _post_promote, _post_demote up to the save.              *)
Edit(c, ask) ==
  \E entry \in {Seen, Kept(c)} :
    /\ ReadsFresh(c, entry) /\ Holds(c, entry)
    /\ Starts(c, Made(edits + 1, entry.config, ask), ask, entry.kept)

(* The fleet reads the store itself and gives up when that fails.  Its     *)
(* projects are never sandboxes.                                           *)
Operate(c, ask) ==
  /\ kind # "sandbox"
  /\ IF stored.stage = "none"
     THEN Starts(c, Ensured(edits + 1), "same", FALSE)
     ELSE Starts(c, Made(edits + 1, stored, ask), ask, FALSE)
  /\ UNCHANGED <<held, faults>>

(* The answer of a save: held at once, and 200 whatever became of it.      *)
Saved(c) ==
  /\ Holds(c, [config |-> edit[c].made, age |-> 0, kept |-> FALSE, late |-> edit[c].late])
  /\ edit' = [edit EXCEPT ![c] = NoEdit]
  /\ demoted' = IF edit[c].ask # "observe" THEN demoted
                ELSE \A o \in Containers : InFlight(o) => edit[o].ask # "enforce"

(* save_project_config: the item first.  A put that fails goes to this     *)
(* container's memory, which no read of a stage looks at.                  *)
Put(c) ==
  /\ edit[c].at = "put"
  /\ \/ /\ stored' = edit[c].made
        /\ edit' = [edit EXCEPT ![c].at = "index"]
        /\ UNCHANGED <<held, faults, demoted, hurt>>
     \/ /\ Fault /\ hurt' = hurt \cup {"failed"}
        /\ Saved(c)
        /\ UNCHANGED <<stored>>
  /\ UNCHANGED <<kind, index, answers, remembered, edits>>

PutIndex(c) ==
  /\ edit[c].at = "index"
  /\ \/ index' = edit[c].made /\ UNCHANGED <<faults, hurt>>
     \/ Fault /\ hurt' = hurt \cup {"torn"} /\ UNCHANGED index
  /\ Saved(c)
  /\ UNCHANGED <<kind, stored, answers, remembered, edits>>

Recycle(c) ==
  /\ Fault
  /\ held' = [held EXCEPT ![c] = NotHeld]
  /\ edit' = [edit EXCEPT ![c] = NoEdit]
  /\ hurt' = hurt \cup (IF edit[c].at = "index" THEN {"torn"} ELSE {})
  /\ UNCHANGED <<kind, config, answers, remembered, edits, demoted>>

-----------------------------------------------------------------------------
(* The hooks and the calls they send.                                      *)

(* handle: in managed mode an edit of the files that govern the hooks is   *)
(* refused on the machine while the stage remembered is Enforce, and then  *)
(* nothing is sent.  evaluate_tool_call resolves the stage once, before    *)
(* the gates, and the answer names it.                                     *)
Judge(c, governing) ==
  /\ answers["observe"] + answers["enforce"] < MaxCalls
  /\ ~(governing /\ remembered = "enforce")
  /\ ~InFlight(c)
  /\ \E entry \in {Seen, Kept(c), AsHeld(held[c])} :
       /\ Reads(c, entry) /\ Holds(c, entry)
       /\ answers' = [answers EXCEPT ![StageOf(entry.config)] = @ + 1]
  /\ UNCHANGED <<kind, config, edit, remembered, edits, past>>

Arrives(s) ==
  /\ answers[s] > 0
  /\ answers' = [answers EXCEPT ![s] = @ - 1]
  /\ UNCHANGED <<kind, config, held, edit, edits, past>>

(* Slip: a stage once remembered is never replaced.                        *)
RememberFirst(s) ==
  /\ Arrives(s) /\ UNCHANGED faults
  /\ remembered' = IF remembered = "none" THEN s ELSE remembered

(* remember_stage: written whole, in the order the answers arrive.         *)
Remember(s) ==
  /\ Arrives(s) /\ UNCHANGED faults
  /\ remembered' = s

(* The hook's own timeout, or an answer lost.                              *)
GiveUp(s) ==
  /\ Arrives(s) /\ Fault /\ UNCHANGED remembered

-----------------------------------------------------------------------------
(* An age that has reached the interval decides nothing more.              *)
Older(entry) ==
  LET age == Lesser(entry.age + 1, Refresh) IN
  [entry EXCEPT !.age = age,
     !.late = IF age = Refresh THEN 0 ELSE IF entry.config = stored THEN @ ELSE @ + 1]

Waiting(e) ==
  [e EXCEPT !.wait = IF e.at = "idle" THEN @ ELSE @ + 1,
            !.late = IF e.at = "index" /\ e.made # stored THEN @ + 1 ELSE @]

Tick ==
  /\ \A c \in Containers : InFlight(c) => edit[c].wait < RequestTime
  /\ held' = [c \in Containers |-> Older(held[c])]
  /\ edit' = [c \in Containers |-> Waiting(edit[c])]
  /\ UNCHANGED <<kind, config, answers, remembered, counts, past>>

Configure(c) ==
  \/ \E ask \in Asks : Edit(c, ask)
  \/ \E ask \in Asks : Operate(c, ask)
  \/ Put(c) \/ PutIndex(c) \/ Recycle(c)

Next ==
  \/ Tick
  \/ \E c \in Containers : Configure(c)
  \/ \E c \in Containers, governing \in BOOLEAN : Judge(c, governing)
  \/ \E s \in Stages : Remember(s) \/ GiveUp(s)

(* A request under way ends, time passes, the agent keeps calling tools    *)
(* that do not govern the hooks, and its calls are judged and answered.    *)
Fairness ==
  /\ WF_vars(Tick)
  /\ \A c \in Containers : WF_vars(Put(c) \/ PutIndex(c))
  /\ WF_vars(\E c \in Containers : Judge(c, FALSE))
  /\ \A s \in Stages : WF_vars(Remember(s))

Spec == Init /\ [][Next]_vars
FairSpec == Spec /\ Fairness

-----------------------------------------------------------------------------
TypeOK ==
  /\ kind \in {"plain", "sandbox", "named"}
  /\ stored \in Config /\ index \in Config
  /\ held \in [Containers -> [config : Config, age : 0..Refresh, kept : BOOLEAN, late : Nat]]
  /\ edit \in [Containers -> [at : {"idle", "put", "index"}, made : Config, ask : Asks,
                              wait : 0..RequestTime, late : Nat]]
  /\ answers \in [Stages -> Nat]
  /\ remembered \in Stages \cup {"none"}
  /\ edits \in Versions /\ faults \in 0..MaxFaults
  /\ demoted \in BOOLEAN /\ hurt \subseteq {"overlap", "unread", "failed", "torn"}

(* A call is judged under a stage that was the stored one within the       *)
(* interval, and however long the save that made it took; unless this      *)
(* container could not read the item since (RULES_REFRESH_SECONDS,         *)
(* _hold_config).                                                          *)
JudgedUnderRecentStage ==
  [][\A c \in Containers :
       Judge(c, FALSE) => held'[c].kept \/ held'[c].late < Refresh + RequestTime]_vars

(* Once a demotion has been answered, the project observes until somebody  *)
(* asks for Enforce: no edit in between brings the old stage back.         *)
DemotionHolds == demoted => StageOf(stored) = "observe"

(* So it is when edits neither overlap nor fail, on copies that were read. *)
DemotionHoldsUndisturbed == hurt \subseteq {"torn"} => DemotionHolds

(* When the edits are over, the machine comes to know the stage and keeps  *)
(* knowing it: every held copy expires and every late answer is replaced.  *)
MachineLearnsTheStage == <>[](remembered = StageOf(stored))
=============================================================================

-------------------------------- MODULE HookGate --------------------------------
(***************************************************************************)
(* What the hook decides about one tool call, and what leaves the machine  *)
(* (hooks/threefold_hook.py, handle).  The settings are HookSettings'; the *)
(* never-send list, the stage the machine remembers and the file an edit   *)
(* changes are the machine's, and may change while the hook runs.          *)
(***************************************************************************)
EXTENDS Integers, SequencesExt

CONSTANTS
  ToolCalls, Machines,
  Lists,       \* what the never-send list may become: a set of terms, or Unreadable
  Stages,      \* what the machine may remember
  Arounds,     \* the terms an edited file may come to hold around the edit
  MaxChanges   \* BOUND: changes made while the hook runs

Nothing    == "none"
Unreadable == {"unreadable"}

(* Where a target lies.                                                    *)
InRoot    == {"source", "left out", "data", "settings", "settings folder", "git config"}
Protected == {"agent notes", "agent settings"}     \* protected_directories
HomeFiles == {"agent settings"}                    \* governed_home_target
DataFiles == {"data", "git config"}                \* _is_data_file

(* is_governance_path *)
Governs(place, deletes) == place \in {"settings", "git config"} \/ (deletes /\ place = "settings folder")

(* What the constants must be: only a command carries rows of a data file. *)
GateAssumption ==
  /\ \A c \in ToolCalls :
       /\ {c.credential, c.disarms, c.reaches, c.carriesData} \subseteq BOOLEAN
       /\ c.carriesData => c.kind = "command"
       /\ \A i \in DOMAIN c.targets : {c.targets[i].deletes, c.targets[i].text} \subseteq BOOLEAN
  /\ \A m \in Machines : {m.project, m.lists, m.failClosed, m.faulty} \subseteq BOOLEAN

VARIABLES
  call, machine,
  list, stage, around, changes,
  gate, guards,
  named,      \* what the targets become on the wire, or <<>>
  sent,       \* the message that left, or None
  told,     \* what the agent is told
  cause,      \* the check of the machine that decided, or "unjudged", or "service"
  code,       \* what the service answered
  lists       \* HISTORY: the lists there were while the hook ran

gateVars == <<call, machine, list, stage, around, changes, gate, guards, named, sent, told, cause, code, lists>>

Nowhere == [targets |-> <<>>, terms |-> {}, around |-> {}, left |-> FALSE]

GateInit ==
  /\ call \in ToolCalls /\ machine \in Machines
  /\ list \in Lists /\ stage \in Stages /\ around \in Arounds /\ changes = 0
  /\ gate = "shape" /\ guards = FALSE /\ named = <<>> /\ sent = Nowhere
  /\ told = Nothing /\ cause = Nothing /\ code = Nothing /\ lists = {list}

-----------------------------------------------------------------------------
Machine == UNCHANGED <<call, machine, list, stage, around, changes, code, lists>>
Step(from, to) == gate = from /\ gate' = to /\ Machine
Silent == UNCHANGED <<told, cause>>

Decides(what, why) == gate' = "done" /\ told' = what /\ cause' = why
Refuses(why) == Decides("deny", why)
Allows(why)  == Decides("allow", why)

(* _unjudged *)
Unjudged == IF machine.failClosed THEN Refuses("unjudged") ELSE Allows("unjudged")

(* The gate either decides or hands on to the next.                        *)
Asks(from, to, decided, decision) ==
  /\ gate = from /\ Machine /\ UNCHANGED sent
  /\ IF decided THEN decision ELSE gate' = to /\ Silent

Targets == Range(call.targets)

Recognise ==
  /\ UNCHANGED <<guards, named>>
  /\ Asks("shape", "project", call.kind \in {"not an object", "ungoverned"}, Allows(call.kind))

Project ==
  /\ UNCHANGED <<guards, named>>
  /\ Asks("project", "read", ~machine.project, Allows("no-project"))

ReadCall ==
  /\ UNCHANGED <<guards, named>>
  /\ Asks("read", "credential", call.kind = "unknown shape", Unjudged)

Credential ==
  /\ UNCHANGED <<guards, named>>
  /\ Asks("credential", "guard", call.credential, Refuses("credential"))

(* Worked out once: whether the mode guards the hooks' own files here.     *)
Guarding == machine.mode = "enforce" \/ (machine.mode = "managed" /\ stage = "enforce")

Guard ==
  /\ guards' = Guarding /\ UNCHANGED named
  /\ Asks("guard", "disarm", Guarding /\ \E t \in Targets : Governs(t.place, t.deletes), Refuses("governs"))

(* governed_home_target and disarming_command, in every mode.              *)
Disarm ==
  /\ UNCHANGED <<guards, named>>
  /\ Asks("disarm", "hold", call.disarms \/ \E t \in Targets : t.place \in HomeFiles, Refuses("disarms"))

-----------------------------------------------------------------------------
(* held_back_category *)
LeftOut(place) == machine.lists /\ place = "left out"

(* A governing data file goes, as its path alone.                          *)
Held(t) ==
  \/ t.place \notin InRoot
  \/ LeftOut(t.place)
  \/ t.place \in DataFiles /\ ~Governs(t.place, FALSE)

HeldCommand == call.kind = "command" /\ (call.reaches \/ call.place \notin InRoot \/ LeftOut(call.place) \/ call.carriesData)

HoldPlace ==
  /\ UNCHANGED <<guards, named>>
  /\ Asks("hold", "terms", HeldCommand \/ \E t \in Targets : Held(t), Allows("held"))

HoldTerms ==
  /\ UNCHANGED <<guards, named>>
  /\ Asks("terms", "attach", list = Unreadable \/ (call.terms \cup machine.alias) \cap list # {}, Allows("held"))

-----------------------------------------------------------------------------
(* _attach_edit_context: the file around an edit, if it can be rebuilt and *)
(* the list, read again, names nothing in it.                              *)
Surroundings == {IF list # Unreadable /\ around \cap list # {} THEN FALSE ELSE TRUE, FALSE}

Wire(t, context) == [place |-> t.place, text |-> t.text, context |-> context]

Attach ==
  /\ Step("attach", "strip") /\ UNCHANGED <<guards, sent>> /\ Silent
  /\ \E context \in IF call.kind = "edit" THEN Surroundings ELSE {FALSE} :
       named' = [i \in DOMAIN call.targets |-> Wire(call.targets[i], context)]

(* Only what has new text is stripped, of the text around it as well.      *)
Stripped(w) == IF Governs(w.place, FALSE) /\ w.text THEN [w EXCEPT !.text = FALSE, !.context = FALSE] ELSE w

(* Slip: the stage is asked again.                                         *)
StripAsNow ==
  /\ Step("strip", "send") /\ UNCHANGED <<guards, sent>> /\ Silent
  /\ named' = [i \in DOMAIN named |-> IF Guarding THEN named[i] ELSE Stripped(named[i])]

(* _strip_governance_content *)
Strip ==
  /\ Step("strip", "send") /\ UNCHANGED <<guards, sent>> /\ Silent
  /\ named' = [i \in DOMAIN named |-> IF guards THEN named[i] ELSE Stripped(named[i])]

(* build_request and post_evaluation: the context is as it was attached.   *)
Send ==
  /\ gate = "send" /\ gate' = "answer" /\ Machine /\ UNCHANGED <<guards, named>> /\ Silent
  /\ sent' = [targets |-> named, terms |-> call.terms \cup machine.alias, left |-> TRUE,
              around |-> IF \E w \in Range(named) : w.context THEN around ELSE {}]

-----------------------------------------------------------------------------
(* The answers there are: none at all, a code and, of a 200, its body.     *)
Codes    == {"no answer", "3xx", "4xx", "429", "5xx", "200 blocked", "200 allowed", "200 unreadable"}

(* remember_stage *)
Named(got) == stage' \in IF got \in {"no answer", "200 unreadable"} THEN {stage} ELSE Stages \cup {stage}

Answers ==
  /\ gate = "answer" /\ UNCHANGED <<call, machine, list, around, changes, lists, guards, named, sent>>
  /\ code' \in Codes /\ Named(code')

(* Slip: every 4xx is the client's fault.                                  *)
AnswerByClass ==
  /\ Answers
  /\ IF code' \in {"4xx", "429", "200 blocked"} THEN Refuses("service")
     ELSE IF code' = "200 allowed" THEN Allows("service") ELSE Unjudged

Answer ==
  /\ Answers
  /\ IF code' \in {"4xx", "200 blocked"} THEN Refuses("service")
     ELSE IF code' = "200 allowed" THEN Allows("service") ELSE Unjudged

(* main: anything raised on the way is a call that could not be judged.    *)
Raise ==
  /\ gate # "done" /\ machine.faulty /\ Machine /\ UNCHANGED <<guards, named, sent>> /\ Unjudged

-----------------------------------------------------------------------------
(* Meanwhile, on the machine.                                              *)
Changes == gate # "done" /\ changes < MaxChanges /\ changes' = changes + 1
           /\ UNCHANGED <<call, machine, gate, guards, named, sent, told, cause, code>>

ListEdited  == Changes /\ list' \in Lists /\ lists' = lists \cup {list'} /\ UNCHANGED <<stage, around>>
StageNamed  == Changes /\ stage' \in Stages /\ UNCHANGED <<list, lists, around>>
(* ... after it has been read for the message, this no longer matters.      *)
FileEdited  == Changes /\ gate \notin {"strip", "send", "answer"} /\ around' \in Arounds /\ UNCHANGED <<list, lists, stage>>

GateNext ==
  \/ Recognise \/ Project \/ ReadCall \/ Credential \/ Guard \/ Disarm \/ HoldPlace \/ HoldTerms
  \/ Attach \/ Strip \/ Send \/ Answer \/ Raise
  \/ ListEdited \/ StageNamed \/ FileEdited

GateSpec == GateInit /\ [][GateNext]_gateVars

-----------------------------------------------------------------------------
AllowedBy(terms) == \E l \in lists : l # Unreadable /\ terms \cap l = {}

Governing(w) == Governs(w.place, FALSE)

(* An edit whose new text is empty.                                        *)
OnlyDeletes(t) == call.kind = "edit" /\ ~t.text

(* Whatever changes while the hook runs, no message carries a credential,  *)
(* a file of an agent's own folder, one outside the project or one its     *)
(* include list leaves out, a data file's rows, or a term that every list  *)
(* there was named.  A file that decides whether hooks run is never named  *)
(* in a mode that guards it, and in the others what a write puts in it     *)
(* stays behind, with the text around an edit - unless the edit only       *)
(* deletes: then that text leaves (see GovernanceContentStays).            *)
NothingPrivateLeaves ==
  sent.left =>
    /\ ~call.credential /\ ~call.carriesData /\ AllowedBy(sent.terms)
    /\ AllowedBy(sent.around) \/ Unreadable \in lists
    /\ \A i \in DOMAIN sent.targets : LET w == sent.targets[i] IN
         /\ w.place \in InRoot /\ ~LeftOut(w.place) /\ w.place # "data"
         /\ Governing(w) => ~guards /\ ~w.text /\ (w.context => OnlyDeletes(call.targets[i]))

(* The docstring of _strip_governance_content: a write to the hooks' own   *)
(* files goes as its path alone.  The code strips only where there is new  *)
(* text, so an edit that only deletes takes the file around it along.      *)
GovernanceContentStays ==
  \A w \in Range(sent.targets) : Governing(w) => ~w.text /\ ~w.context

(* A call nobody judged is let through or refused as the owner asked, and  *)
(* nothing else is: no trouble on the way to the service refuses a call    *)
(* the owner did not ask to have refused, and when they did, a governed    *)
(* call that may leave the machine is allowed by a verdict or not at all.  *)
UnjudgedAsAsked ==
  /\ told = "deny" /\ ~machine.failClosed => cause \in {"credential", "governs", "disarms"} \/ code \in {"4xx", "200 blocked"}
  /\ told = "allow" /\ machine.failClosed => cause \in {"not an object", "ungoverned", "no-project", "held"} \/ code = "200 allowed"
  /\ sent.left => cause \in {Nothing, "unjudged", "service"}
=============================================================================

--------------------------------- MODULE Drafts ---------------------------------
(***************************************************************************)
(* POST /rules/draft (interfaces/draft_routes.py, and draft_rule of        *)
(* application/rule_drafter.py): a sentence, one or two answers of the     *)
(* model, and one rule that is tried and never saved.  What a draft may    *)
(* cost is bounded twice: by a row of the day's calls that every container *)
(* claims from before the model is asked, and by what one container may    *)
(* send until it is recycled.                                              *)
(*                                                                         *)
(* A claim may fail, or be counted and its answer lost: the container then *)
(* counts in its own memory.  An answer of the model may be anything.      *)
(***************************************************************************)
EXTENDS Integers, SequencesExt, FiniteSets

CONSTANTS
  Servers,        \* the containers
  Cap,            \* DRAFT_MODEL_CALLS_PER_DAY
  PerDraft,       \* MODEL_CALLS_PER_DRAFT
  MaxAttempts,    \* MAX_ATTEMPTS
  PerContainer,   \* DRAFT_CALLS_PER_CONTAINER
  Inputs,         \* the requests made: "blank", "misnamed", "too long" or "fine"
  Answers,        \* what the model may answer
  RuleSets,       \* the rules that may be in force, as stored
  MaxRules,       \* MAX_RULES
  Reserved,       \* RESERVED_IDS
  TableFails,     \* a claim may fail, or its answer be lost
  MaxDays,        \* BOUND: days
  MaxDrafts       \* BOUND: drafts asked for

Table == "table"

(* What the constants must be. *)
DraftsFit ==
  /\ {Cap, PerDraft, PerContainer, MaxRules, MaxDays, MaxDrafts} \subseteq Nat /\ MaxDays > 0
  /\ MaxAttempts \in 1..PerDraft /\ TableFails \in BOOLEAN
  /\ IsFiniteSet(Servers) /\ Table \notin Servers
  /\ \A rules \in RuleSets : rules \in Seq(ToSet(rules))

VARIABLES
  day,
  claimed,    \* claimed[d]: the calls day d's row counts
  inMemory,   \* inMemory[c][d]: the calls counted in c's memory
  made,       \* made[c]: the calls c has sent
  force,      \* the rules in force
  step, draft,  \* draft[c]: the draft c has in hand
  answered,   \* the last answer: its status, and the rule drafted
  drafts,
  sent        \* HISTORY: sent[d][s]: calls made of day d's claims, from the row or from c's memory

draftVars == <<day, claimed, inMemory, made, force, step, draft, answered, drafts, sent>>

Days == 1..MaxDays
Sources == Servers \cup {Table}
NewDraft(input, d, from) == [input |-> input, day |-> d, from |-> from, beside |-> <<>>, attempts |-> 0]
NoDraft == NewDraft("blank", 1, Table)
NoRule == [id |-> "none", mode |-> "none"]

DraftsInit ==
  /\ day = 1 /\ claimed = [d \in Days |-> 0]
  /\ inMemory = [c \in Servers |-> claimed] /\ made = [c \in Servers |-> 0]
  /\ force \in RuleSets
  /\ step = [c \in Servers |-> "idle"] /\ draft = [c \in Servers |-> NoDraft]
  /\ answered = [status |-> 0, rule |-> NoRule, beside |-> <<>>] /\ drafts = 0
  /\ sent = [d \in Days |-> [s \in Sources |-> 0]]

-----------------------------------------------------------------------------
(* validate_rules: a rule is refused for its patterns, a mode that is      *)
(* neither, a reserved id or one an earlier usable rule has, or for being  *)
(* one too many.  A rule without a mode enforces.                          *)

Rule(id, mode, patterns) == [id |-> id, mode |-> mode, patterns |-> patterns]

Moded(entry) == Rule(entry.id, IF entry.mode = "none" THEN "enforce" ELSE entry.mode, entry.patterns)

Joins(entry, n, before) ==
  /\ n <= MaxRules /\ entry.patterns # "unusable" /\ entry.mode # "a typo"
  /\ entry.id \notin Reserved /\ \A i \in DOMAIN before : before[i].id # entry.id

Usable(entries) ==
  LET usable[n \in 0..Len(entries)] ==
        IF n = 0 THEN <<>>
        ELSE IF Joins(entries[n], n, usable[n - 1]) THEN Append(usable[n - 1], Moded(entries[n]))
        ELSE usable[n - 1]
  IN usable[Len(entries)]

-----------------------------------------------------------------------------
Stands(c, label) == step[c] = label
Moves(c, label, d) == step' = [step EXCEPT ![c] = label] /\ draft' = [draft EXCEPT ![c] = d]

Closes(c, status, rule) ==
  /\ Moves(c, "idle", NoDraft)
  /\ answered' = [status |-> status, rule |-> rule, beside |-> IF status = 200 THEN draft[c].beside ELSE <<>>]

Asked == drafts' = drafts + 1

(* handle: a request that names no text is not worth a claim.              *)
Refuse(c) ==
  /\ Stands(c, "idle") /\ drafts < MaxDrafts /\ Asked
  /\ Inputs \cap {"blank", "misnamed"} # {}
  /\ Closes(c, 400, NoRule)
  /\ UNCHANGED <<day, claimed, inMemory, made, force, sent>>

(* Slip: the condition leaves out the calls being claimed.                 *)
FitsSoFar(n) == n <= Cap

Fits(n) == n <= Cap - PerDraft

Begins(c, input, from) == Moves(c, "check", NewDraft(input, day, from))

(* claim_draft_calls: the row, unless the table fails.                     *)
Claim(c, input) ==
  /\ Stands(c, "idle") /\ drafts < MaxDrafts /\ Asked /\ PerDraft <= Cap
  /\ \/ /\ Fits(claimed[day]) /\ claimed' = [claimed EXCEPT ![day] = @ + PerDraft]
        /\ Begins(c, input, Table) /\ UNCHANGED <<inMemory, answered>>
     \/ /\ ~Fits(claimed[day]) /\ Closes(c, 429, NoRule) /\ UNCHANGED <<claimed, inMemory>>
     \/ /\ TableFails
        /\ claimed' \in {claimed} \cup (IF Fits(claimed[day]) THEN {[claimed EXCEPT ![day] = @ + PerDraft]} ELSE {})
        /\ IF Fits(inMemory[c][day])
           THEN /\ inMemory' = [inMemory EXCEPT ![c][day] = @ + PerDraft]
                /\ Begins(c, input, c) /\ UNCHANGED answered
           ELSE Closes(c, 429, NoRule) /\ UNCHANGED inMemory
  /\ UNCHANGED <<day, made, force, sent>>

-----------------------------------------------------------------------------
(* draft_rule: the input, then the rules in force, read back as a save     *)
(* would read them.                                                        *)
Check(c) ==
  LET d == draft[c]  beside == Usable(force) IN
    /\ Stands(c, "check")
    /\ IF d.input = "too long" \/ Len(beside) >= MaxRules
       THEN Closes(c, 400, NoRule)
       ELSE Moves(c, "send", [d EXCEPT !.beside = beside]) /\ UNCHANGED answered
    /\ UNCHANGED <<day, claimed, inMemory, made, force, drafts, sent>>

(* _converse: a call counts when it is sent.                               *)
Send(c) ==
  LET d == draft[c] IN
    /\ Stands(c, "send")
    /\ IF made[c] >= PerContainer
       THEN Closes(c, 503, NoRule) /\ UNCHANGED <<made, sent>>
       ELSE /\ made' = [made EXCEPT ![c] = @ + 1]
            /\ sent' = [sent EXCEPT ![d.day][d.from] = @ + 1]
            /\ Moves(c, "answer", [d EXCEPT !.attempts = @ + 1]) /\ UNCHANGED answered
    /\ UNCHANGED <<day, claimed, inMemory, force, drafts>>

(* Slip: the mode the model proposed is kept.                              *)
AsProposed(answer) == Rule(answer.id, answer.mode, answer.patterns)

(* _validated: the mode is never the model's word, and the id is a slug.   *)
Shaped(answer) == Rule(IF answer.id = "none" THEN "drafted-rule" ELSE answer.id, "observe", answer.patterns)

Drafted(d, answer) ==
  LET all == Usable(Append(d.beside, Shaped(answer))) IN
    IF answer.says = "a rule" /\ Len(all) > Len(d.beside) /\ answer.patterns # "braced"
    THEN {all[Len(all)]} ELSE {}

(* _read_answer, and a second attempt when the first cannot be used.       *)
Answer(c) ==
  LET d == draft[c] IN
    /\ Stands(c, "answer")
    /\ \/ Closes(c, 503, NoRule)
       \/ \E answer \in Answers :
            IF answer.says = "not a rule" THEN Closes(c, 422, NoRule)
            ELSE IF Drafted(d, answer) # {}
            THEN \E rule \in Drafted(d, answer) : Closes(c, 200, [id |-> rule.id, mode |-> rule.mode])
            ELSE IF d.attempts < MaxAttempts THEN Moves(c, "send", d) /\ UNCHANGED answered
            ELSE Closes(c, 502, NoRule)
    /\ UNCHANGED <<day, claimed, inMemory, made, force, drafts, sent>>

-----------------------------------------------------------------------------
(* Midnight; a container recycled, with what it remembers; rules saved.    *)
Midnight == day < MaxDays /\ day' = day + 1 /\ UNCHANGED <<claimed, inMemory, made, force, step, draft, answered, drafts, sent>>

Recycled(c) ==
  /\ made[c] > 0 \/ ~Stands(c, "idle")
  /\ Moves(c, "idle", NoDraft)
  /\ made' = [made EXCEPT ![c] = 0] /\ inMemory' = [inMemory EXCEPT ![c] = [d \in Days |-> 0]]
  /\ sent' = [d \in Days |-> [sent[d] EXCEPT ![c] = 0]]
  /\ UNCHANGED <<day, claimed, force, answered, drafts>>

Save ==
  /\ \E rules \in RuleSets \ {force} : force' = rules
  /\ UNCHANGED <<day, claimed, inMemory, made, step, draft, answered, drafts, sent>>

Drafting(c) ==
  \/ Refuse(c) \/ (\E input \in Inputs \ {"blank", "misnamed"} : Claim(c, input))
  \/ Check(c) \/ Send(c) \/ Answer(c) \/ Recycled(c)

DraftsNext == Midnight \/ Save \/ \E c \in Servers : Drafting(c)

DraftsSpec == DraftsInit /\ [][DraftsNext]_draftVars

-----------------------------------------------------------------------------
(* PROPERTIES                                                              *)

(* The drafts that claimed from a day's row send no more calls than the    *)
(* day's budget, on whatever containers and however often they are asked   *)
(* to repair; a container the table does not answer sends no more of its   *)
(* own, and none sends more than it may in its life.                       *)
BudgetHolds ==
  /\ \A d \in Days, s \in Sources : sent[d][s] <= Cap
  /\ \A c \in Servers : made[c] <= PerContainer

(* A rule that is drafted watches, and could be saved beside the rules     *)
(* that were in force as it was drafted, whatever the model answered.      *)
DraftsOnlyWatch ==
  answered.status = 200 =>
    /\ answered.rule.mode = "observe" /\ answered.rule.id \notin Reserved
    /\ \A i \in DOMAIN answered.beside : answered.beside[i].id # answered.rule.id
    /\ Len(answered.beside) < MaxRules
=============================================================================

--------------------------- MODULE GovernedSession ---------------------------
(***************************************************************************)
(* One governed session: its row in the DynamoDB table, and the Lambda     *)
(* containers that judge tool calls, terminate and resume against it.      *)
(*                                                                         *)
(* A container serves one request at a time, and keeps no session between  *)
(* requests except the copy of its last write that save_session leaves in  *)
(* _memory_store.  Every access to the table is a step of its own: the     *)
(* row may change between any two accesses of a request, and that gap is   *)
(* what this module is about.                                              *)
(***************************************************************************)
EXTENDS Integers, Sequences

CONSTANTS
  Containers,    \* warm Lambda containers
  Nothing,       \* no item under the key, no object held, no request
  Requests,      \* the tool calls agents send, a subset of Request
  Ceiling,       \* the lower of budget_usd * 1.05 and the policy's ceiling
  MaxSingle,     \* max_single_invocation_cost
  Keep,          \* how many verdicts the row retains (50 in the code)
  Worlds         \* what a behaviour may be like, a set of World

Halts == {"none", "loop", "budget", "terminated"}

Session == [halt     : Halts,           \* is_tripped, trip_reason, is_terminated
            cost     : Nat,             \* total_cost_usd
            verdicts : Seq(BOOLEAN),    \* is_enforced_pass of each one kept
            failed   : BOOLEAN]         \* has_failed_verdict

Stored == Session \cup {Nothing}

Findings == {"none", "credential", "rule", "watched_rule", "repeat_hook",
             "repeat_halts"}

Request == [stage : {"ENFORCE", "OBSERVE", "DRY_RUN"},
            finding : Findings, budgetWatched : BOOLEAN, cost : Nat]

Order == {"terminate", "resume"}

World == [containers : SUBSET Containers,  \* those that serve the session
          requests   : SUBSET Requests,    \* the tool calls agents send
          orders     : SUBSET Order,       \* the operator requests in use
          calls      : Nat,                \* BOUND: tool calls sent
          asks       : Nat,                \* BOUND: operator requests sent
          stale      : BOOLEAN,  \* get_item is eventually consistent
          faults     : BOOLEAN,  \* a get_item or put_item may fail
          crashes    : BOOLEAN]  \* a container may die in the middle of a request

ASSUME SessionAssumption ==
  /\ Nothing \notin Session \cup Requests
  /\ Requests \subseteq Request
  /\ Worlds \subseteq World
  /\ Ceiling \in Nat /\ MaxSingle \in Nat /\ Keep \in Nat \ {0}

VARIABLES
  world,      \* what this behaviour is like, chosen once
  row,        \* the item under SESSION#id / METADATA
  prev,       \* the item before the last write, which a lagging replica serves
  mem,        \* mem[c]: container c's _memory_store entry for the session
  pc,         \* pc[c]: the store access container c makes next
  req,        \* req[c]: the tool call it is judging
  copy,       \* copy[c]: the AgentSession object it holds
  pass,       \* pass[c]: is_enforced_pass of the verdict it rendered
  calls,      \* tool calls sent so far
  orders,     \* operator requests sent so far
  reopened,   \* HISTORY: a halted row was written open
  astray,     \* HISTORY: a put failed and landed in one container's memory
  spent,      \* HISTORY: what every approved call cost, added up
  everFailed  \* HISTORY: a failing verdict was written to the row

store == <<row, prev, mem, reopened, astray>>
local == <<pc, req, copy, pass>>
sent  == <<calls, orders>>
ghost == <<spent, everFailed>>
vars  == <<world, store, local, sent, ghost>>

PC == {"idle", "create", "gates", "record", "record_save", "reread",
       "force_save", "terminate", "resume"}

NewSession == [halt |-> "none", cost |-> 0, verdicts |-> <<>>, failed |-> FALSE]

Halted(s) == s # Nothing /\ s.halt # "none"

-----------------------------------------------------------------------------
(* Reading and writing the row.                                            *)

(* get_session: the table's item, as fresh as the replica asked, or the    *)
(* container's own memory when the table had none or could not be read.    *)
FromTable == {row} \cup (IF world.stale THEN {prev} ELSE {})

Reads(c) == {IF s = Nothing THEN mem[c] ELSE s : s \in FromTable}
              \cup (IF world.faults THEN {mem[c]} ELSE {})

(* save_session keeps the last Keep verdicts of what it is handed.         *)
LastKept(vs) == IF Len(vs) > Keep THEN SubSeq(vs, Len(vs) - Keep + 1, Len(vs)) ELSE vs

Item(s) == [s EXCEPT !.verdicts = LastKept(@)]

(* Slip: the put carries no condition at all.                              *)
Unconditional(stored, force) == TRUE

(* The table's condition: attribute_not_exists(PK) OR is_tripped = false.  *)
Writable(stored, force) == force \/ ~Halted(stored)

Stores(c, s, force) ==
  /\ Writable(row, force)
  /\ row' = Item(s) /\ prev' = row /\ mem' = [mem EXCEPT ![c] = Item(s)]
  /\ reopened' = (reopened \/ (Halted(row) /\ ~Halted(s))) /\ UNCHANGED astray

(* A put that failed for any other reason lands in this container only.    *)
FallsBack(c, s, force) ==
  /\ world.faults /\ Writable(mem[c], force)
  /\ mem' = [mem EXCEPT ![c] = Item(s)] /\ astray' = TRUE
  /\ UNCHANGED <<row, prev, reopened>>

Saves(c, s, force) == Stores(c, s, force) \/ FallsBack(c, s, force)

(* SessionConflictError, from the table or from memory.                    *)
Conflicts(c) ==
  /\ Halted(row) \/ (world.faults /\ Halted(mem[c]))
  /\ UNCHANGED store

-----------------------------------------------------------------------------
(* The gates of _run_gates, as what they find about a request.             *)

(* Observe and dry run judge a copy and enforce nothing, ...               *)
Watching(r) == r.stage # "ENFORCE"

(* Slip: an observed call is judged like an enforced one.                  *)
WatchesDryRunsOnly(r) == r.stage = "DRY_RUN"

(* ... except that observe still refuses a credential.                     *)
SteppedOver(r) == Watching(r) /\ ~(r.stage = "OBSERVE" /\ r.finding = "credential")

Refused(r) == r.finding \in {"credential", "rule", "repeat_hook"} /\ ~SteppedOver(r)

LoopBreach(r) == r.finding = "repeat_halts" /\ ~SteppedOver(r)

OverBudget(r, s) == r.cost > MaxSingle \/ s.cost + r.cost > Ceiling

BudgetBreach(r, s) == OverBudget(r, s) /\ ~Watching(r) /\ ~r.budgetWatched

(* The halt this call puts on an open session, or "none".                  *)
HaltBy(r, s) == IF Refused(r) THEN "none"
                ELSE IF LoopBreach(r) THEN "loop"
                ELSE IF BudgetBreach(r, s) THEN "budget" ELSE "none"

(* is_enforced_pass of an approval: nothing watched, and not a dry run.    *)
CleanApproval(r, s) ==
  r.stage # "DRY_RUN" /\ r.finding = "none" /\ ~OverBudget(r, s)

-----------------------------------------------------------------------------
Init ==
  /\ world \in Worlds
  /\ row = Nothing /\ prev = Nothing
  /\ mem = [c \in Containers |-> Nothing]
  /\ pc = [c \in Containers |-> "idle"]
  /\ req = [c \in Containers |-> Nothing]
  /\ copy = [c \in Containers |-> Nothing]
  /\ pass = [c \in Containers |-> FALSE]
  /\ calls = 0 /\ orders = 0
  /\ reopened = FALSE /\ astray = FALSE
  /\ spent = 0 /\ everFailed = FALSE

(* The request moves on to its next store access, or is answered.          *)
At(c, label) == pc[c] = label

Holds(c, label, s) ==
  /\ pc' = [pc EXCEPT ![c] = label] /\ copy' = [copy EXCEPT ![c] = s]

Answers(c) ==
  /\ Holds(c, "idle", Nothing)
  /\ req' = [req EXCEPT ![c] = Nothing] /\ pass' = [pass EXCEPT ![c] = FALSE]

(* A verdict is rendered; it is recorded by the request's later steps.     *)
Renders(c, ok) ==
  /\ Holds(c, "record", Nothing)
  /\ pass' = [pass EXCEPT ![c] = ok] /\ UNCHANGED <<req, everFailed, sent>>

(* evaluate_tool_call arrives and get_or_create_session reads the row.     *)
Load(c, r) ==
  /\ At(c, "idle") /\ calls < world.calls
  /\ calls' = calls + 1 /\ req' = [req EXCEPT ![c] = r]
  /\ \E s \in Reads(c) :
       IF s = Nothing THEN Holds(c, "create", NewSession) ELSE Holds(c, "gates", s)
  /\ UNCHANGED <<store, pass, orders, ghost>>

(* There was no row.  A conflict here is caught by nobody: the request     *)
(* ends in an error and renders no verdict.                                *)
Create(c) ==
  /\ At(c, "create") /\ UNCHANGED <<sent, ghost>>
  /\ \/ Saves(c, copy[c], FALSE) /\ Holds(c, "gates", copy[c]) /\ UNCHANGED <<req, pass>>
     \/ Conflicts(c) /\ Answers(c)

(* The pre-check: the session it read was already halted.  Nothing is      *)
(* written.  A watched call is answered APPROVED with the invariant false. *)
Freeze(c) ==
  /\ At(c, "gates") /\ Halted(copy[c])
  /\ Renders(c, FALSE) /\ UNCHANGED <<store, spent>>

(* A boundary finding, a credential, or a hook's repeat: nothing written.  *)
Refuse(c) ==
  /\ At(c, "gates") /\ ~Halted(copy[c]) /\ Refused(req[c])
  /\ Renders(c, FALSE) /\ UNCHANGED <<store, spent>>

(* Slip: the call that halts the session is charged to it too.             *)
HaltCharging(c) ==
  /\ At(c, "gates") /\ ~Halted(copy[c])
  /\ LET h == HaltBy(req[c], copy[c]) IN
       h # "none" /\ Saves(c, [copy[c] EXCEPT !.halt = h, !.cost = @ + req[c].cost], TRUE)
  /\ Renders(c, FALSE) /\ UNCHANGED spent

(* A gate halts the session, and _persist_halt forces this copy through.   *)
Halt(c) ==
  /\ At(c, "gates") /\ ~Halted(copy[c])
  /\ LET h == HaltBy(req[c], copy[c]) IN
       h # "none" /\ Saves(c, [copy[c] EXCEPT !.halt = h], TRUE)
  /\ Renders(c, FALSE) /\ UNCHANGED spent

(* Every gate passed.  The write comes before the verdict, and a conflict  *)
(* turns the approval into a refusal (an observed call into a noted one).  *)
Approve(c) ==
  /\ At(c, "gates") /\ ~Halted(copy[c])
  /\ ~Refused(req[c]) /\ HaltBy(req[c], copy[c]) = "none"
  /\ \/ /\ Saves(c, [copy[c] EXCEPT !.cost = @ + req[c].cost], FALSE)
        /\ Renders(c, CleanApproval(req[c], copy[c]))
        /\ spent' = spent + req[c].cost
     \/ Conflicts(c) /\ Renders(c, FALSE) /\ UNCHANGED spent

-----------------------------------------------------------------------------
(* _record_verdict: the verdict is appended to a fresh read of the row.    *)

(* Slip: the marker is not set with the verdict, as the retry below.       *)
RecordReadUnmarked(c) ==
  /\ At(c, "record") /\ UNCHANGED <<store, sent, ghost>>
  /\ \E s \in Reads(c) :
       IF s = Nothing THEN Answers(c)
       ELSE /\ Holds(c, "record_save", [s EXCEPT !.verdicts = Append(@, pass[c])])
            /\ UNCHANGED <<req, pass>>

RecordRead(c) ==
  /\ At(c, "record") /\ UNCHANGED <<store, sent, ghost>>
  /\ \E s \in Reads(c) :
       IF s = Nothing THEN Answers(c)
       ELSE /\ Holds(c, "record_save", [s EXCEPT !.verdicts = Append(@, pass[c]),
                                                 !.failed = @ \/ ~pass[c]])
            /\ UNCHANGED <<req, pass>>

Recorded(c) == everFailed' = (everFailed \/ ~pass[c]) /\ Answers(c)

(* Slip: the verdict is forced through whatever was read.                  *)
RecordSaveForced(c) ==
  /\ At(c, "record_save") /\ UNCHANGED <<sent, spent>>
  /\ Saves(c, copy[c], TRUE) /\ Recorded(c)

RecordSave(c) ==
  /\ At(c, "record_save") /\ UNCHANGED <<sent, spent>>
  /\ \/ Saves(c, copy[c], Halted(copy[c])) /\ Recorded(c)
     \/ /\ ~Halted(copy[c]) /\ Conflicts(c)
        /\ Holds(c, "reread", Nothing) /\ UNCHANGED <<req, pass, everFailed>>

(* The retry after a conflict: the verdict goes on whatever is read now,   *)
(* and the sticky marker is not set again.                                 *)
Reread(c) ==
  /\ At(c, "reread") /\ UNCHANGED <<store, sent, ghost>>
  /\ \E s \in Reads(c) :
       IF s = Nothing THEN Answers(c)
       ELSE /\ Holds(c, "force_save", [s EXCEPT !.verdicts = Append(@, pass[c])])
            /\ UNCHANGED <<req, pass>>

ForceSave(c) ==
  /\ At(c, "force_save") /\ UNCHANGED <<sent, spent>>
  /\ Saves(c, copy[c], TRUE) /\ Recorded(c)

-----------------------------------------------------------------------------
(* Operators.  A session nobody recorded, and a resume of one that is not  *)
(* halted, are refused and change nothing.                                 *)

OrderRead(c, order) ==
  /\ At(c, "idle") /\ orders < world.asks
  /\ \E s \in Reads(c) \ {Nothing} :
       (order = "resume" => Halted(s)) /\ Holds(c, order, s)
  /\ orders' = orders + 1
  /\ UNCHANGED <<store, req, pass, calls, ghost>>

Terminate(c) ==
  /\ At(c, "terminate") /\ Saves(c, [copy[c] EXCEPT !.halt = "terminated"], TRUE)
  /\ Answers(c) /\ UNCHANGED <<sent, ghost>>

(* Slip: a resumed session starts its budget afresh.                       *)
ResumeAfresh(c) ==
  /\ At(c, "resume") /\ Saves(c, [copy[c] EXCEPT !.halt = "none", !.cost = 0], TRUE)
  /\ Answers(c) /\ UNCHANGED <<sent, ghost>>

Resume(c) ==
  /\ At(c, "resume") /\ Saves(c, [copy[c] EXCEPT !.halt = "none"], TRUE)
  /\ Answers(c) /\ UNCHANGED <<sent, ghost>>

(* The container dies with whatever it was doing and all it remembered.    *)
Crash(c) ==
  /\ world.crashes /\ Answers(c) /\ mem' = [mem EXCEPT ![c] = Nothing]
  /\ UNCHANGED <<row, prev, reopened, astray, sent, ghost>>

Judge(c) == \/ \E r \in world.requests : Load(c, r)
            \/ Create(c) \/ Freeze(c) \/ Refuse(c) \/ Halt(c) \/ Approve(c)
            \/ RecordRead(c) \/ RecordSave(c) \/ Reread(c) \/ ForceSave(c)

Operate(c) == (\E order \in world.orders : OrderRead(c, order)) \/ Terminate(c) \/ Resume(c)

Next == /\ UNCHANGED world
        /\ \E c \in world.containers : Judge(c) \/ Operate(c) \/ Crash(c)

Spec == Init /\ [][Next]_vars

-----------------------------------------------------------------------------
(* The certificate (AuditIssuer.issue_certificate) reads the row alone.    *)

Certifiable(s) == s # Nothing /\ s.verdicts # <<>>

Compliant(s) == /\ \A i \in DOMAIN s.verdicts : s.verdicts[i]
                /\ ~s.failed /\ ~Halted(s)

-----------------------------------------------------------------------------
(* PROPERTIES                                                              *)

(* Every variable has its type: the row, each container's memory and the   *)
(* object it holds are sessions or nothing, and a container that is about  *)
(* to write holds a session to write.                                      *)
TypeOK ==
  /\ world \in Worlds
  /\ row \in Stored /\ prev \in Stored
  /\ mem \in [Containers -> Stored]
  /\ pc \in [Containers -> PC]
  /\ req \in [Containers -> Requests \cup {Nothing}]
  /\ copy \in [Containers -> Stored]
  /\ pass \in [Containers -> BOOLEAN]
  /\ calls \in Nat /\ orders \in Nat
  /\ reopened \in BOOLEAN /\ astray \in BOOLEAN
  /\ spent \in Nat /\ everFailed \in BOOLEAN
  /\ \A c \in Containers :
       /\ pc[c] \in {"idle", "record", "reread"} <=> copy[c] = Nothing
       /\ pc[c] \in {"create", "gates"} => req[c] # Nothing

(* Reads see the last write, and no call to the table fails.              *)
Fresh == ~world.stale /\ ~world.faults

(* ... and one container serves the session.                               *)
Alone == Fresh /\ \A c, d \in world.containers : c = d

(* The row implements HaltContract: a halt reached by any container's      *)
(* gates or by the kill switch is never undone but by a resume asked for   *)
(* while it stood, whatever the other containers had read before it and    *)
(* write after it (dynamo_repo.py, SessionConflictError).  Of a row whose  *)
(* readers may be out of date nothing is promised.                         *)
Standing == IF ~Fresh \/ row = Nothing THEN "absent"
            ELSE IF Halted(row) THEN "halted" ELSE "open"

Contract == INSTANCE HaltContract
              WITH standing <- Standing,
                   asked <- Fresh /\ \E c \in world.containers : At(c, "resume")

HaltContractHolds == Contract!ContractSpec

(* A step of a request whose call is only being watched.                   *)
StepsWatching(c) == req[c] # Nothing /\ Watching(req[c]) /\ pc'[c] # pc[c]

(* A call that is only being watched puts no halt of its own on the        *)
(* session it belongs to (_decide, the deepcopy and may_halt=False),       *)
(* whatever is stale, failing or resumed meanwhile.  One write of its      *)
(* request can halt an open row all the same: that of its verdict, forced  *)
(* because the row was read halted.  It repeats the halt that was read,    *)
(* and finds the row open only where somebody lifted a halt or a put never *)
(* reached the table.                                                      *)
WatchingAddsNoHalt ==
  [][\A c \in Containers :
       StepsWatching(c) /\ ~Halted(row) /\ Halted(row') =>
         /\ pc[c] \in {"record_save", "force_save"} /\ row'.halt = copy[c].halt
         /\ reopened \/ astray]_vars

(* The comment in _decide: a call that is only being watched must not stop *)
(* the real session it belongs to.                                         *)
WatchedNeverHalts ==
  [][\A c \in Containers :
       StepsWatching(c) /\ row # Nothing /\ ~Halted(row) => ~Halted(row')]_vars

(* Only two writes can open a halted row: an operator's resume, and the    *)
(* forced retry of _record_verdict.  Every other forced write carries a    *)
(* halted copy, and every unforced one is refused by the table, however    *)
(* stale the copy and whatever store call failed before it.                *)
OpenedOnlyByResumeOrRetry ==
  [][(Halted(row) /\ ~Halted(row')) =>
       \E c \in Containers : pc[c] \in {"resume", "force_save"} /\ pc'[c] = "idle"]_vars

(* Lost updates can forget spending but never invent it: no row, memory or *)
(* copy charges a session more than its approved calls cost.               *)
NeverOvercharged ==
  /\ row # Nothing => row.cost <= spent
  /\ \A c \in Containers : mem[c] # Nothing => mem[c].cost <= spent
  /\ \A c \in Containers : copy[c] # Nothing => copy[c].cost <= spent

(* With one container and reads that see the last write, the row's total   *)
(* is exactly what the approved calls cost, across crashes and resumes.    *)
SpendExact == Alone /\ row # Nothing => row.cost = spent

(* ... and a certificate never says COMPLIANT_APPROVED for a session that  *)
(* once recorded a failing verdict, although the row keeps only the last   *)
(* Keep of them (has_failed_verdict is sticky).                            *)
CertificateHonest == Alone /\ Certifiable(row) /\ Compliant(row) => ~everFailed

(* models.py, AgentSession: has_failed_verdict is "set once a stored       *)
(* verdict fails the enforced pass".                                       *)
FailureTaints ==
  row # Nothing => ((\E i \in DOMAIN row.verdicts : ~row.verdicts[i]) => row.failed)
=============================================================================

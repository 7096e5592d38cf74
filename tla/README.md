# Threefold, specified

TLA+ models of the governance service in this repository, the TLC runs that
check them on small instances, and proofs checked by TLAPS. Paths below are
relative to `src/threefold/` (in the manifest, `src/src/threefold/`).

## The system

Threefold judges the tool calls of coding agents. A hook on the developer's
machine (`hooks/threefold_hook.py`) posts each call to an HTTP service that runs
as AWS Lambda containers over one DynamoDB table. The service approves or
refuses the call, keeps a session's row and a ledger row per call, counts calls
per project and day, and lets operators halt and resume sessions, review
flagged calls, and move a project's rules from observed to enforced.

A container serves one request at a time on Lambda (several on the local
`ThreadingHTTPServer`), keeps no session between requests, and is recycled at
any moment. Every store class falls back to a dictionary in the container when
a call to the table fails. So the hard behaviour is not in the gates: it is what
happens between two store calls of one request, and between a store call that
failed and the next that does not.

| component | state | operations | what makes it correct |
|---|---|---|---|
| governed session (`application/evaluator.py`, `domain/models.py`, `domain/circuit_breaker.py`) | the session's row | judge a call, terminate, resume, record the verdict | a halt is undone by a resume only; watching adds no halt; spending is never invented |
| session repository (`infrastructure/dynamo_repo.py`) | table items and a memory copy per container | get, conditional and forced put, ADD, label | the condition refuses stale writes over a halt |
| loop detector (`domain/loop_detector.py`) | none; reads the row's history | the exact and the fuzzy tier | refuses exactly the runaways, though the row forgets |
| certificates (`application/audit_issuer.py`) | none; reads the row | issue | never clean after a recorded failure |
| sign-in (`infrastructure/auth_store.py`, `interfaces/access_routes.py`) | codes and tokens on the table, memory and cache per container | mint, exchange, look up, revoke | one session per code, no token past its expiry, revocation within a bound |
| review queue and rollups (`application/rollups.py`, `rule_keys.py`, `ledger.py`, `interfaces/app_routes.py`) | ledger rows, daily counters | record, label, count, readiness | counters follow the labels; ready is earned |
| project stage (`application/projects.py`, `interfaces/app_routes.py`) | configuration item, copies held 30 s | set stage, promote, demote | no change undone by a reader of an older copy |
| policy and rules in force (`application/evaluator.py`, `infrastructure/dynamo_repo.py`) | an item each on the table, a copy per container for 30 s, the repository's memory | save, read again, judge by, forget a project | judged by what was stored within the interval; no failure brings older rules back |
| demo fleet (`application/demo_fleet.py`) | tick claims; what a tick has in hand | claim, configure, send, label, demote, promote, sweep | what it finds noisy is set back; what it flags is labelled |
| rule drafter (`application/rule_drafter.py`, `interfaces/draft_routes.py`) | the day's allowance, on the table and in each container | claim, draft, repair | no call past the cap; a draft only watches and could be saved |
| hook (`hooks/threefold_hook.py`) | the developer's salt, the remembered stage, settings on disk | name its developer, find its settings, hold back, refuse, ask, fail open | what must not leave the machine does not; one name per developer; a key goes only where its owner sends it |
| installer (`tools/threefold_install.py`) | files and a manifest | connect, install, disconnect, uninstall | a disconnect puts back what a connect found, whatever stopped in between |
| request pipeline (`interfaces/api_handlers.py`, `infrastructure/security_middleware.py`, `idempotency.py`) | answers by key, token buckets | limit, authorise, route, remember | nobody is answered what is not theirs; a remembered write is not done twice; each subscriber has one bucket |
| ledger (`application/ledger.py`, the listings of `infrastructure/dynamo_repo.py`) | none; a cursor the reader carries | page through a window, read a window | no row skipped or repeated; complete means complete |
| boundary guard and layering rules (`domain/boundary_guard.py`, `layering_rules.py`, `path_match.py`, `imports.py`) | none | judge a call's files, edits and command under a project's rules | every route that brings a forbidden import into a file is judged; a rule that watches changes nothing |
| shell reading (`domain/shell_writes.py`) | what it knows of variables, directories and files while it reads a command | report every write of a command | every file written is reported, with its text or as unreadable |
| fix proposer (`application/fix_proposer.py`) | none | say what refused, propose a rewrite, check it | what is offered as checked would pass and loses no import |
| model client, webhook, metrics, evidence, signer, pages | none read back | calls to other services, output | not modelled |

Interactions: the hook and the pages call the service over HTTP; routes call
the evaluator; the evaluator reads and writes through the repository; reviews
and readiness read what the evaluator recorded; the fleet calls the evaluator
and the routes' functions directly; everything shared between containers is a
table item.

## Modules

- `HaltContract` - what a session promises of its halt: once halted, halted
  until a resume asked for while it was halted.
- `GovernedSession` - one session row and the containers that judge, terminate
  and resume against it. One action per store access:

  | code | actions |
  |---|---|
  | `get_or_create_session` | `Load`, `Create` |
  | `_run_gates`, `_as_observed`, `_decide` | `Freeze`, `Refuse`, `Halt`, `Approve` |
  | `_record_verdict` | `RecordRead`, `RecordSave`, and the retry `Reread`, `ForceSave` |
  | `terminate_session`, `resume_session` | `OrderRead`, then `Terminate` or `Resume` |
  | `save_session` | `Saves` (`Stores` or `FallsBack`), `Conflicts`, `Item` |
  | `get_session` | `Reads` |
  | `issue_certificate` | `Certifiable`, `Compliant` |

  The row is a halt, a cost, the kept verdicts (as `is_enforced_pass` of each)
  and the sticky marker. A request is what the gates find in it: at most one
  boundary finding or repeat, its cost, the stage it is judged under. The call
  history, token totals and `total_calls` are left to `LoopGate` or out; the
  ledger row recorded before the verdict is `Reviews`'s business. What a
  behaviour is like (which containers serve, which calls and orders are sent and
  how many, whether reads lag, store calls fail, containers die) is a `world`,
  chosen among `Worlds` in `Init` and never changed, so that one formula covers
  the quiet store and the failing one. `reopened` and `astray` remember that a
  halted row was written open and that a put landed in one memory only.
- `LoopGate` - the two tiers of the loop detector over the history a row
  carries from call to call, and the three branches of gate 2. Definitions of
  what a runaway *is* (`RunsAway`) are given separately, over everything the
  session ever approved.
- `SignIn` - codes, tokens, caches and the clock; one action per step between
  locks and table calls of `consume_code`, `session` and `revoke`.
- `Reviews` - one project's day: `record_decision` counts and then writes,
  `_apply_review` reads, labels and then counts; `readiness` as `Ready`.
- `ProjectStage` - one project's configuration item, its copy in the index, who
  changes it, and how the change reaches the calls and the machine:

  | code | actions and operators |
  |---|---|
  | `project_config`, `_hold_config`, `_reads_every_time` | `Reads`, `ReadsFresh` over `Seen`, `Kept` and what is held; `Older` under `Tick` |
  | `_post_project`, `_post_promote`, `_post_demote` | `Edit`, with `Made` for what they store |
  | the fleet's `_ensure_configured`, `_promote`, `_demote`, `_observe_noisy` | `Operate` |
  | `save_project_config` of the repository and of the evaluator | `Put`, `PutIndex`, then `Saved` |
  | `evaluate_tool_call` up to the gates, `stage_for` | `Judge` |
  | the hook's `handle` after its post, `remember_stage` | `Remember`, `GiveUp` |

  A configuration is the edit that wrote it and its stage. Ages are relative and
  stop growing at the interval, so that time needs no bound.
- `Rulebook` - what calls are judged by: the policy, the shared rules or the
  rules of one project, as `book` says. One item on the table, saved through
  any container, and the copy each container holds:

  | code | actions and operators |
  |---|---|
  | `refresh_policy_if_stale`, `refresh_rules_if_stale`, `_project_rules_for` | `Arrive`, then `Read` if `Due`; `Answered`, `AfterFailure` |
  | `load_policy`, `_get_rules` | `Remembered`; a read of rules that fails raises |
  | the gates of `evaluate_tool_call` | `Judge` |
  | `POST /rules`, `POST /policy`, `update_rules`, `update_policy` | `Submit`, `RefuseSet` or `SaveSet` |
  | `save_policy`, `_put_rules` | `PutSet`, `Remembers` |
  | `_hold`'s bound, a new container | `Forget`, `Recycle` |

- `Installer` - the installer's commands over two folders that may be worktrees
  of one repository: the configuration, the agents' settings, the exclude file,
  the commit hook, the shared copies, the record an uninstall works from and the
  index. A file is the set of what its lines say. A command plans which steps it
  will take, with what each file will hold and the record it will keep
  (`PlanInstall`, `Disconnect`), and takes them one by one in their order
  (`Step`, `IsNext`); it may be stopped between two of them or inside a write, may
  fail, and a hand may edit between any two.
- `Fleet` - the demo's ticks. One action per call to the store: a claim, the
  configuration of each project, each call of the batch with its answer, the
  labels of what a rule flagged, a noisy rule put back, one demotion or
  promotion, the sweep. A tick may meet failing reads and uncounted labels, run
  out of time or die; a person labels and changes stages meanwhile. What a tick
  has in hand (`tick[c]`) is a record, and the rows it is yet to label a set of
  their places in the ledger, of which a sweep takes the newest first.

  | code | actions |
  |---|---|
  | `run_scheduled_tick` up to the claim, `_ensure_configured` | `ClaimTick`, `ReadConfig`, `CreateConfig` |
  | `_send` | `SendCall`, `SendingEnds` |
  | `_review_now`, `_label` | `ReviewNow`, `LabelsRow`, `ReviewEnds` |
  | `_observe_noisy_rules`, `_observe_noisy` | `LookNoisy`, `LoadForNoisy`, `SaveNoisy`, `NoisyEnds` |
  | `_operate`, `_demote`, `_promote` | `ChooseStage`, then `LoadForDemote`, `SaveDemoted`, or `Promote`, `ReadRules`, `LoadForPromote`, `SavePromoted` |
  | `_sweep` | `SweepRead`, `SweepLabel`, `SweepEnds` |

- `Drafts` - a draft's claim on the day's calls (`Claim`), the checks of the
  rules in force (`Check`), the model's calls and repairs (`Send`, `Answer`),
  and what of its answer becomes the rule offered (`Drafted`, `Shaped`).
- `RateLimit` - whom a request is counted against (`Trusted`, `Bucket`, `Key`)
  and the bucket (`Level`, `Ask`): a subscriber with an address and one with a
  network, directly or through the edge, with headers of their own writing.
- `Requests` - a container and the requests it takes one by one: the gate on who
  may ask (`Validate`), the repeated key (`LookUp`), the route (`RunRoute`,
  `Refused`) and the answer remembered (`Answered`). The lists of paths are the
  code's own. What a route may show or change (`Shows`, `Governs`) reuses the
  lists that name just those routes, and asks of the order of the answers, the
  stacks and the keys; that the lists name the paths the routes serve is not
  checked.
- `Pages` - `page_decisions` and `read_window` over `read_decision_day`: one
  action per read of the table, with the cursor between requests.
- `MCFront`, `MCDesk` - what stands before a route (`RateLimit`, `Requests`,
  `SignIn`, `Pages`) and what the service does with rules (`Reviews`, `Drafts`,
  `Rulebook`, `Fleet`). As in `MCToolCall`, the parts share no state.
  Each of the three extends the components whose properties are proved (all four
  of `MCFront` and of `MCDesk`; `DeveloperSalt`, `HookSettings`, `HookScope`,
  `HookGate` and `LoopGate` in `MCToolCall`, which instantiates the others), so that the
  formula checked is the formula proved. Which book or fleet a behaviour of `MCDesk` is about is chosen at its
  start, and `Narrowly` keeps each fleet within its bounds.
- `DeveloperSalt` - several hooks of one machine that draw the salt of the
  developer's pseudonym at once: exclusive creation, write, read back, fallback.
- `HookSettings` - where a hook finds its project, endpoint, mode and key: the
  walk up from the file to a checkout, on to the workspace, the lists of folders
  included, the owner's own configuration, and which of them may name a key.
- `HookGate` - `handle` and `main`, in order: what is judged on the machine,
  what is held back, what is stripped from what is sent, the lists read twice,
  and how each failure is answered.
- `HookScope` - `_command_included`: whether a command may be sent where a list
  says which folders may leave the machine. The hook reads it word by word
  (`Name`), follows its moves (`Cd`, `Pushd`, `Popd`) and its subshells (`Open`,
  `Close`) in a set of folders it may stand in; beside it the shell, whose moves
  may fail, be skipped or happen in a process of their own.
- `ShellWrites` - the reader of a command, beside the shell that runs it. The
  reader sees each event of the command (a directory change, an assignment, a
  redirection, a copy, a program in another language, a nested shell, ...) and
  reports writes; the shell acts on a disk. What the reader does not know is in
  doubt, and a write in doubt is reported without its name or its text.
- `Shapes`, `PathMatch`, `Globs` - the pure algorithms below it: whether a target
  with unknown parts could be a path a rule covers (a bounded search over two
  patterns), the match of one segment with its single place to resume, and the
  meaning of a glob both are compared with.
- `Boundary` - `scan_tool_call` as nine gates over a call that is a set of texts,
  edits, writes and words, with `observe_layering` and the two passes over a
  rule's lists. What each route can bring into a file (`Brings`) is stated
  separately, without the walk.
- `FixProposer` - what `_suggest_fix` offers after a refusal. It extends
  `Boundary`, whose walk of the call is its first steps, and goes on:

  | code | actions and operators |
  |---|---|
  | `_decided`, `_suggest_fix`, `fix_max_chars` | `Verdict`, `Attach` |
  | `_propose`, `_diagnose`, `_diagnose_observed` | `Diagnose`, over `Refusals` and `WatchedKind` |
  | `_write_fix`, `_shell_write_fix` | `GatherToolWrites`, `GatherShellWrites` |
  | `_fix_sites`, `_remove_offending`, `_plan_layers`, `_too_large` | `FixPath`, over `Removal`, `Plan`, `AdviceOn` |
  | `_credential_fix` | `GatherToolSecrets`, `GatherShellSecrets` |
  | `_command_credential_fix` | `RewriteCommand`, then the guard again in `JudgeRewritten` |
  | `_check_entry`, `_assemble`, `_finish` | `Passes`, `Checked`, `Finish` |

- `MCToolCall` - the parts above that one call passes on its way (the last three,
  the salt, the settings, the hook and its reading of a command, the shell's reading and its algorithms, and
  `LoopGate`), each on its own instance. They share inputs and no state, so one state
  of a run holds one part.
- `GovernedSession_proofs`, `ProjectStage_proofs`, `SignIn_proofs`,
  `Desk_proofs` (of `Reviews`, `Drafts` and `Rulebook`), `Fleet_proofs`,
  `Installer_proofs`, `ToolCall_proofs` (of `DeveloperSalt`, `HookSettings`,
  `HookScope`, `HookGate` and `LoopGate`) and `Requests_proofs` (of `RateLimit`,
  `Requests`, `Pages` and `PathMatch`) - the theorems.
- `MC*` - which calls, rules and threads an instance has. The operators marked
  "Slip" in the modules are plausible mistakes in the code that sits below
  them; each makes the run it is listed for fail.

## Runs

| run | question | bounds |
|---|---|---|
| `session` | does the row implement `HaltContract`, what does watching do to it, what survives stale reads, failing stores, crashes and resumes, is the total exact and the certificate honest with one container | 2 verdicts kept, in three worlds. `Halting`: 2 containers, 3 calls of 4 kinds, 1 kill switch, crashes; reads see the last write. `Racing`: 2 containers, 2 calls of 4 kinds, 2 orders with resumes, crashes, stale reads and failing store calls. `Lone`: 1 container, 5 calls of 9 kinds, 3 orders with resumes, crashes |
| `front` | does what stands before the routes let through what it should | limiter: 4 tokens, 2 a request, 1 a second, 3 seconds, 2 subscribers, 1 edge. Requests: one container, every path the code lists and some it does not, GET and POST, 3 paths asked with a key, an answer remembered for 1 tick. Sign-in: 2 threads in one container and 1 in another, 1 code, 2 tokens, time 1..3, every table call may fail. Pages: 2 days of at most 3 rows, pages of 2, 2 pages a request, 1 row recorded and 1 read failed meanwhile |
| `desk` | do the counts follow the labels, is what is ready, drafted and promoted earned, are calls judged by what is in force | reviews: 2 containers, 3 flagged calls, 2 rules, 3 reviews. Drafts: 3 calls a day, 2 a draft, 2 attempts, 3 calls a container, 2 containers, 2 days, 3 drafts. Policy, shared rules, a project's own: 2 containers, 2 saves, 2 faults. Fleet: 2 projects, 3 ticks one after another, 1 upset; and 1 project, 2 containers, 2 ticks that overlap |
| `stages` | how stale may a stage be, what does a demotion hold against, does the machine come to know the stage | 2 containers, each kind of project, 2 changes, 1 fault, 2 calls, so that answers overtake each other |
| `machine` | does a disconnect put back what a connect found, and does neither overwrite a hand's work | 3 commands of 3 forms, 2 worktrees of one repository, 3 states they are found in, 1 upset (a stop, a failure, a torn file or an edit) |
| `calls` | is anything forbidden passed over, does anything private leave | 3 hooks and 2 faults on the salt; commands of 3 events with 1 nested shell; targets and globs of 2 segments against paths of 3; names and patterns of 4 letters, a * in a name among them; rules over 6 modules in lists of 1 or 2; 5 folders, 3 of them walked up; 1 change of the list under a call; commands of 11 kinds of words, 3 moves and subshells, 2 of them nested, in a workspace with 2 folders listed and 1 left out, read in at most 3 places at once; 3 calls in histories of 8 approved, threshold 3, cycles to 3, 6 kept; calls of at most 3 writes or 1 edit refused or watched under 2 rules, each key staged or not |
| `halt_lost`, `watched_halts`, `policy_lost`, `repealed`, `misnamed`, `governing_sent` | six statements of docstrings and comments the code does not keep | as small as the counterexample allows |

Why they are enough: every race in these modules is between a request that has
read and another that writes, so two actors suffice to interleave every pair of
store accesses, and a third call lets one container act twice around the other.
`Keep` is 2 (1 where a run looks for a counterexample) so that a verdict scrolls
out within the run; 6 calls kept are
exactly what cycles of 3 need at threshold 3, as 50 are for cycles of 25.
`CacheFor` is shorter than `SessionFor` so that both terms of the cache's
deadline decide. `RequestTime` is 1 and `Refresh` 2 for the function's timeout of
15 s and the interval of 30 s. Two changes are one demotion and one that
disturbs it. Three commands of the installer are a connect, another over it and
a disconnect. Three events of a command are one that puts something in doubt,
one that writes under it and one that uses the file written; two rules are one
that is enforced and one that watches, and a module of three segments has a
pattern above and one below any other. Wherever the code's number is larger the module has a constant,
and what is proved holds for all of its values.

`CHECK_DEADLOCK` is off because the bounds on calls, orders and time end every
behaviour.

Liveness is stated once, in `stages` (`MachineLearnsTheStage`); elsewhere nothing retries or is
scheduled, and a caller that dies simply never finishes. Its fairness: time
passes; a save under way ends, as the function's timeout sees to; the agent
keeps calling tools, so a call that can be sent and judged is in the end; an
answer that is neither lost nor timed out arrives. Losses, failures and changes
are bounded: a machine cannot be promised to know a stage that keeps changing.

## What the runs found

- **A halt can be lost** (`halt_lost`). `_record_verdict`'s retry after a
  refused write rereads the row and forces it back. If the row was resumed
  before the reread and halted again after it, the forced write clears that halt.
- **A watched call can halt its session again** (`watched_halts`). The comment in
  `_decide` says a call that is only being watched must not stop the real session.
  Its gates do not; but its verdict is appended to a row read and forced back when
  that copy is halted (`evaluator.py:1197`), so where an operator resumes the
  session between the read and the write, the verdict of an observed call halts it
  again. `WatchingAddsNoHalt` is what holds, in every world: such a write repeats
  the halt it read, and only where a halt was lifted, or a put kept in one memory,
  before.
- **A replaced policy can come back** (`policy_lost`). `refresh_policy_if_stale`
  keeps the policy held when its loader raises, but `load_policy` catches a failed
  read itself and answers what this container once saved. A container that saved a
  policy, and then read the one that replaced it, goes back to its own.
  `load_rules` raises, and `RulesNeverGoBack` holds and is proved.
- **An allowance can repeal a narrower prohibition** (`repealed`). What is
  compared with the allowance is the first forbidden pattern that matches, not
  the most specific. `EveryRouteJudged` holds when each list names its narrow
  patterns first.
- **A deletion takes a governing file along** (`governing_sent`). The docstring of
  `_strip_governance_content` says a write to the hooks' own files goes as its path
  alone; it strips only where there is new text (`threefold_hook.py:2773`), so an
  edit that only deletes from the agent's settings file is sent, in observe mode,
  with the file around it. `NothingPrivateLeaves` holds with this one exception.
- **A fix can name what did not refuse** (`misnamed`). `_diagnose` says its kind
  always names what refused, but it searches a command for patterns the guard
  leaves out (`.git`), never asks of the imports an edit introduces, and answers
  a command too long to be read with one kind. `KindNamesWhatItSees` holds
  outside these.

`OpenedOnlyByResumeOrRetry` bounds the first: nothing but a resume and that
retry can open a halted row.

The models also show the following, each where a stronger form of a property
that is checked fails. No run is kept for them.

- A failing verdict can leave no mark: the same retry appends the verdict
  without setting `has_failed_verdict`.
- A sign-out is not refused at once. When the delete on the table fails, the
  next lookup in the same container reads the row again and caches it; so does
  a lookup already under way, of another thread of that container among them. The
  docstring of `revoke` says the container refuses from this moment. `EndsInTime`
  is what holds.
- Two containers that approve at once keep the cost and the history of one call.
  `NeverOvercharged` bounds it: what is lost is forgotten, never invented.
- A demotion can be undone: a change that names no stage writes back the whole
  configuration it read, so one that read before a demotion and saves after it
  stores Enforce again. `DemotionHoldsUndisturbed` says when it holds: it excepts
  changes that overlap, and catches those made from a copy that was held.
- A name that holds a `*` can be passed over: `_segment_matches` compares the
  letters before it looks for a `*` in the pattern (`path_match.py:73`), so where
  both have one it goes on as over any letter, with nowhere to resume:
  `src/*.py` does not cover `src/*b.py`. `WalkRight` excepts such names from what
  "no" means; "yes" is right of every name.
- Two hooks can give one developer two names, though the docstring of
  `developer_salt` says one machine gives one: a hook that finds the file
  another has created and not yet written takes it as unusable and answers with
  a salt of its own. `OneIdentityUnlessTorn` is what holds.
- A command whose writes are in doubt may put in a file what its report does not
  say, as when a pipe runs beside what it feeds; the report then says so
  (`ContentHonestUnlessInDoubt`).
- What a hand edits in a file after a connect is taken by the next connect as
  what it wrote itself, and the disconnect after that removes it.
  `OthersKept` is what holds: no step overwrites work it has not
  written or digested.
- A disconnect does not unhook every agent of a folder in which a command was
  stopped before: an install stopped before its record, or on its way through an
  earlier record, leaves entries no record names. `DisconnectHolds` is what
  holds.

- A repeated tool evaluation is judged again. `idempotency.py:1-5` promises no
  duplicate deductions or records for tool evaluations under retries; neither
  `evaluate-tool-call` nor the adapter stores its answer. `WritesOnce` says
  which writes are remembered.
- A refused draft uses up the day's calls: `draft_routes.py:162-163` says what
  is claimed is only what will be sent, but any description that is not blank is
  claimed for before `_checked_input` refuses it, as one that is too long.
- A command let go may name a path outside the list: after `cd x && y ; z` the
  hook reads `z` from `x` alone, where a move that failed leaves the shell where
  it was; and a `popd` after a push or pop that did not take place, or stood in
  parentheses, leads elsewhere than the hook thinks. `NamesOnlyListed` speaks of
  the words before that.
- A fix that passed every check may still be listed as a would-refuse, which
  `_check_entry` says it cannot: the rules a project only stages are dropped
  before the fix is made, so they are not asked of it. `CheckedFixHolds` speaks
  of the rules that are left.
- `_checked_session_id` (`api_handlers.py`) says that a certificate and a freeze
  create their session; both only read it.

Two things the model shows that nothing in the repository denies: a put of a
configuration, of rules or of a policy that failed is answered 200 and held by
that container for an interval; and a project whose name asks for Enforce starts to observe when
somebody first changes anything but its stage.

## Assumptions

- A table call either happens or fails without effect; a put that reached the
  table and whose answer was lost is not modelled. With it a sign-in code could
  be in the table and in memory, and be exchanged once in each.
- Session lookups of `SignIn` read the last write (the code does not ask for
  consistent reads there, so the 60 second bound holds up to replica lag);
  `GovernedSession` does model a lagging replica (`prev`, one write old).
- `SignIn` exempts from `EndsInTime` a container that issued the token
  while the table failed and holds it in memory: a revoke elsewhere answers True
  and never reaches it.
- `Reviews` says nothing of a rule once the counting of a recorded call, or of
  a changed label, was lost (`lost`): the code calls rollups best effort.
- `ProjectStage`: a put that failed has not reached the table; a container serves
  one request at a time; a save takes at most `RequestTime`. A call is judged in
  one step, since it resolves its stage once. The fleet's projects are never
  sandboxes. A sandbox's day, the history and the rules that keep observing are
  left out: the last two are lost and kept with the version.
- `Rulebook`: a container serves one request at a time, and a read sees the last
  write; on the threaded local server a refresh could overtake a save. The three
  books are refreshed one after another within a request and are modelled one at
  a time. `GET /policy` shows the copy held and does not refresh it.
- `ShellWrites`: every command of the line runs and succeeds; what an expansion
  holds is a relative name with no `..` in it; a name that looks like a file is
  one; the commands of a pipeline run in order; after a `cd` inside a pipeline or
  `cd -` the reader is astray and nothing is promised of the text. Left out: a
  rename inside a diff (the code reports the new name with no text, and not the
  old one), removals whose path a program computes, methods that share a name
  with a file operation, what `git clean` removes beyond its arguments, and `eval`
  (the code reads its words as a script in a shell of its own,
  `shell_writes.py:3288`, where a `cd` in them moves the real shell).
- `Boundary`: a text is the imports and words in it. Words below the length the
  code counts, and words of an allowance, complete no import in a fragment. Text
  with no path beside it is judged when the call names one path and not when it
  names two. Tampering and destruction are inputs.
- `FixProposer`: a text is its imports and words, with marks for what the code's
  readers meet in it: a statement nothing can be taken out of, Python that does
  not parse, a secret no lookup can stand for. What a port and an adapter hold is
  the imports moved; a template parses or not by its path.
- `HookGate`: what category a place is of is an input. A second reading of the
  list that fails counts as a list with no terms, as in the code. When the hook
  fails closed, input that is no JSON object is still let through.
- `HookScope`: what is listed are whole folders (`x/**`), paths are POSIX and
  have no links; a change of folder stands first in its command, as the code
  reads it; parentheses are subshells; a variable holds a single name. Device
  names and URLs, which the hook passes over, are left out.
- `Installer`: one command runs at a time; the record, the index and the exclude
  list are taken to be written in one piece, other files may be torn by a stop.
- The hook in the plugin's folder is the same file byte for byte, modelled once.
- `Fleet`: what a call is answered is an input of the batch, within what its
  project's stage allows; a tick's clock is its quarter of an hour. A claim that
  fails runs nothing.
- `Drafts`: an answer of the model is anything of its shape; what patterns are
  sound is an input. While the table fails the cap holds per container.
- `Requests`: a payload is what its route does with it (answers, refuses, fails
  in the middle); DELETE, headers, the CORS answers and the shapes of the
  adapter are left out. On the threaded local server two requests with one key
  that overlap are both run.
- `Pages`: a row's key orders the rows of its day; a row recorded while the
  ledger is read is the newest of today.
- Which finding a text carries, which command is a poll, prices and budgets are
  inputs.

## Proofs

`tlapm` on each of the eight `*_proofs` modules checks every step. Proved for
all constants:

- `TypeCorrect`: `TypeOK` is inductive; one lemma per action.
- `OnlyResumeOrRetryOpens`: an action property, by cases on the writes: a forced
  write other than the two named carries a halted copy (`Halt`, `Terminate`, a
  verdict recorded with `force = Halted(copy)`), and an unforced one is refused.
- `NothingOvercharged`: `NeverOvercharged` is not inductive, because a stale
  read serves `prev`; `ChargeInv` adds it.
- `RowImplementsContract`, where every world is one of three kinds: one whose reads lag
  or fail (the contract asks nothing of it), one in which nobody resumes
  (`KillOnly`), or one in which a single container serves (`Alone`). `HaltInv` is the
  strengthening for the second: no container remembers a row before there is one,
  and a container about to force a copy through saw the row halted, so it still
  is. For the third it is `AloneInv`, below. Resumes between two containers are
  excluded because they break it (`halt_lost`).
- `WatchingAddsNothing`, of every world. `WatchInv`: until a halt is lifted or a put
  lands in one memory alone, every halt a container remembers, holds, or may
  still read is on the row (`HaltsKnown`); so a verdict that is forced because it
  was read halted finds the row halted, or one of the two has happened. An approved or
  frozen call writes no halt, and `may_halt=False` keeps the gates from it.
- `TotalIsExact` and `CertificateIsHonest`, of the behaviours that are `Alone`: one
  container, whose reads see the last write and whose table does not fail
  (the properties ask nothing of the others). `AloneInv`: what the
  container holds between a read and its write is still the row in its halt and
  its cost, it is never on its way through the retry, and a row that does not
  carry the sticky marker has had no failing verdict.
- `RowRemembersTheEnd`: the row's history is the last `Keep` of all approved
  calls. It is what makes `NothingForgotten` provable: a window of at most
  `Keep + 1` calls reads only that end.
- `FiftyCallsSuffice`, under `WindowFits` (`MaxCycle * ExactRounds <= Keep`),
  which the defaults satisfy (6 * 2 and, at the clamp, 25 * 2 against 50). The
  policy route accepts thresholds and windows that do not.
- `RunawaysAndNothingElse`, under `WindowFits`: the two tiers refuse exactly the
  calls that complete a runaway of all the session ever approved. The exact tier's
  window closes at a word exactly when that word is said over and over
  (`WhatIsSaid`, by arithmetic on the positions); the fuzzy tier looks at the
  shapes of what was kept, and the shapes of an end are the end of the shapes
  (`ShapesOfEnd`). `Shapes` is a recursive function, and the lemmas about it go by
  induction on the length (`SetInduction`).
- `AgesBounded` and `StageIsRecent`: a copy in use that was read or saved
  here has been out of date for less than `Refresh + RequestTime`.
  The age of a copy says nothing of when it stopped being the stored one, so
  `AgesInv` ties the two: no copy is late by more than its age, and a copy a
  save leaves behind by no more than that and the save's own duration.
- `DemotionsHold`: `DemotionInv` says that while nothing has disturbed the
  changes at most one save is under way, and it carries either the stage asked
  for or the stored one.

- `CallsJudgedByRecent` and `RulesGoForward`, for any number of containers, saves
  and faults, of whichever book. `TimeInv`: a copy that outlived no failure is
  replaced no longer than it is old while it may be used, and what a request judges
  by no longer than that and the request's own time. `ForwardInv`: a container has
  judged by no put after the last, and what it holds is of no put before those it
  has judged by, or was never stored.
- `OneName` and `NameSettles` of the salt, for any set of hooks and of faults.
  `OneInv`: while no hook has met a file it could not use, whoever writes has
  made the empty file that is there, nobody replaces it, and a name that was
  given is the one on disk. `SettledInv`: once a name has settled nobody is about
  to write or to replace it.
- `OwnersSay`, for any tree of folders, checkouts and files, any owner and environment,
  and any `MaxWalkUp`, under `SettingsFit` (every folder has a parent or is the top's
  child, and an endpoint the environment gives is a string). `WalkInv`: every folder
  passed so far has no configuration file, across the change from the walk for a
  checkout to the walk for a workspace, where the count starts again; so the file at
  which it ends is the nearest (`Passed`, `Nearest`). `Climb` is a recursive function:
  what it says of each folder and its parent (`ClimbIsWay`) goes by induction on how
  far it climbs (`StepByStep`). `CarriedInv`: an endpoint not taken from the
  repository is its owner's, and past the pairing a key or a key's file is left
  only for such an endpoint or one the owner paired that file with. A key of the
  environment and a key's file are never both at hand, which is why withholding
  either takes both.
- `FollowsTheShell` and `SentNamesOnlyListed`, for any list, any words, any number
  of moves and subshells. `IInv`: the folders the hook keeps, has put aside for a
  subshell or pushed are all listed and, unless the shell has strayed, hold the
  one the shell stands in, will return to or has pushed. What lies below a listed
  folder is listed, which is why a bare word and a variable's name may pass.

- `NothingPrivateIsSent` and `UnjudgedIsAsAsked`, for any calls, machines and lists.
  `GateInv` says what the hook knows of a call at each of its gates: no
  credential once the first is past, no governing target once the guard is, and so
  on, each under lists that only grow while the call is judged. The hard step is
  the last: the places are judged under the list as `handle` read it and the
  text around an edit under the list as it is read again, so what is known of a
  text is known under the list it was read with. The stage is asked once: `Strip`
  goes by what the guard was told, or a text the guard did not judge could be
  kept. `Strip` may leave a governing file's text around an edit only where the edit
  has no new text: a target sent is compared with the target asked for at its place
  (`EachAsAsked`), and what the property excepts is exactly that.
  `UnjudgedAsAsked` needs only that no
  gate before the post has answered for one that could not judge (`Fair`).
- `EachHasItsOwnBucket`, under `LimitFits` (a request costs no more than a bucket
  holds: 1 of 60 in the code). Behind a trusted edge every request of a
  subscriber is counted against one key of its own (`KeyIsItsOwn`, `KeysDiffer`).
  `Fair` ties what the bucket has left to what it let through and what it gained
  until it was last moved, and to what its subscriber asked for; the first
  bounds what passes, the second shows nobody is refused for what others send.
- `AnswersReachTheirAskers`, under `RequestsFit`. `RequestsInv` carries from the gate
  to the answer that the request in hand may be asked, and that an answer is
  remembered for the request it answers. The rest is about `Validate` alone
  (`GovernorsAreKnown`, `ShownToTheKnown`, `LinksAreForKeys`): no branch that lets
  a stranger through comes before the one that asks who it is, for any path of the
  lists, of the patterns, or of neither.
- `RepeatsAreNotDoneAgain`: for a route that remembers, the answer is no older than
  what it did (`Fresh`), so a route that runs although its key was answered in
  time is one that remembers nothing.
- `ReadersSeeItAll`, under `PagesFit`. A page is the rows down to its last one, so
  what is ahead of the reader and what is behind it are told apart by where it
  resumes. `FollowInv`: what was shown is behind the reader and newest first, and
  while no read failed every row that was there at the start is ahead of it or
  shown. `WindowInv` says the same of the window's items, whatever page size the
  budget has left. That a page is the newest rows ahead, and leaves none when it says
  the day is over (`PageRows`), is all that is needed of how the table cuts them.

- `WalkIsRight`, for any letters (a `*` among them), name and pattern. What a pattern
  says is read a row at a time (`Says`, a recursive function: `EndsExist` and
  `ReachOn` say what its rows are). `Reached`: what was read of the pattern may
  stand for what was read of the name, so "yes" is right. For "no", `Overtaken`
  looks at how a pattern divides a name (`Division`; whatever it says, it says by
  one, `SaidIsDivided`): the `*` met last ends no earlier than where the walk
  resumed, and what follows it is of fixed length, so one place to resume is
  enough. A resumption costs at most the pattern's length, which bounds the steps.
- `OneSessionPerCode`: the right to open a session is in one place at a time (not
  minted yet, the code's item, one container's memory, one thread about to open it,
  or used), which `OneRight` says; every action moves it or loses it.
- `SessionsEndInTime`. `InTime` says of everything a lookup may answer from when it
  must have lapsed: an item, in the table or a memory, is the one issued; what a
  lookup under way has read, and what a cache holds, is bounded by the expiry and by
  the revocations since. It had to be strengthened by `droppedAt`, when a
  container's own memory lost the token: TLC showed that an earlier form of
  `EndsInTime`, which counted from the revocation alone, fails with two threads in
  one container.
- `RollupFollowsLabels` and `ReadinessIsEarned`. Each counter is the count of the
  rows it is about, less the adjustments under way: the lemmas about the
  cardinality of these sets (`OneMore`, `OneStep`) do the arithmetic. For
  readiness, every first label that was lost is missing twice, as a review and as a
  label, so a rule that lost one is never counted as reviewed in full.
- `BudgetIsKept`. `BudgetInv`: of each day's row, and of each container's memory,
  what was sent and what the drafts under way may still send (`Open`, the attempts
  they have left) is no more than what was claimed there, and no claim passes the
  cap. A claim adds at most `PerDraft` to what is open (`ClaimedOpen`), a call sent
  takes one off it (`OneLessOpen`), and a container recycled takes its memory and
  its drafts with it. It needs that a draft makes no more attempts than it claims
  calls (2 and 2 in the code), which `DraftsFit` states.
- `DraftsWatch`. The rules are read back one at a time, so what is known of the
  recursive `Usable` goes by induction on how far it has read (`ReadSoFar`): it
  never holds more rules than there are, and while none was left out they are the
  same ones. That the whole list grew by the rule drafted then means that the rule
  was read after exactly the rules beside it, and passed (`TheLastOne`).

- `FleetTypeCorrect`, under `FleetFits` (as are the two that follow). `FleetTyped`
  says of each tick what its step is about and which pass it is in. A tick does
  one thing at a time, so an action is shown once to be a move of its tick and of
  nothing else it may touch (`Done`), and what the other ticks, a person and the
  clock do to a tick beside it is shown once (`Beside`, `Aside`): the rows only
  grow, and the projects' configurations change only if it met another hand.
- `QueueIsSwept`. `SweptInv`: past the last sweep's read, a row of the horizon that
  waits past the minimum age is one the sweep is yet to label. Rows stand in the
  order of their times (`Ordered`), so a horizon no larger than the row budget
  is within the newest that many (`WholeHorizon`), and a row recorded since the
  tick's clock is too young to be asked about (`TooYoung`). A label lost to the
  counts is still on its row, which is why the property excepts no fault.
- `NoisyRulesSetBack`. `SetBackInv`, while the tick met no fault and nobody else's
  hand: a false alarm it marked is counted and its project heard of (`Marked`), and
  a project it has looked at no longer enforces the rule, or is about to be set
  back (`Handled`). The hard case is a project the tick promotes itself, which it does
  not look at. Its queue is swept first at any age, so what waited is labelled
  before the rules are read (`Readied`); a rule with a counted false alarm reads
  noisy and keeps observing; and where it does come to enforce, no alarm of it was
  heard and none is left for the last sweep to find (`PromotedWell`), which is of
  fewer rows. A save writes back what its load read (`HoldsItsOwn`).

- `InstallerTypeCorrect`, `NothingOverwritten`, `DisconnectPutsBack` and
  `ConnectPutsInPlace`, for any folders and checkouts, requests, and any number of
  commands, edits and stops. A plan is made once and carried out in steps, so what
  is true in the middle of a command is best said of what it will leave: `Left`
  of a file is what is still to be written there, or else what is there, and so
  for the record, the hook and the hook set aside. No step changes these; only a
  plan does, and whoever edits or stops. Four invariants build on each other.
  `Base`: a record fits its folder, and an entry it names is in a file it made or
  whose bytes it keeps. `Kept`: what is about to be written holds the lines that
  are there, unless a hand was at the file since the plan. `Undo`: where no command
  was stopped and no hand has been, a file is as it was before, or the record that
  will be left has what undoes it (`FilesInv`), every line of ours left in a file
  is one that record names (`LinesKnown`), and the hook of a checkout no other ever
  joined is what it was, or stands beside ours (`GitSideInv`). It holds across several connects because
  `_planned_write` keeps only the first bytes it met. `Stays`: what a connect put in
  place is left there by whatever other folders connect and disconnect; the git
  side goes only with the last record, and a folder that is connected has one.

`SettledForGood` of the salt, which `NameSettles` proves, is in no run.

Only model-checked: `MachineLearnsTheStage`, and in `MCToolCall` what is said of what a command writes
(`ShellWrites`, and of a target only the shell can name `Shapes`), of `Boundary` and of `FixProposer`. Out of
the prover's reach is liveness, so `MachineLearnsTheStage` stays with TLC. The
library's theorems of induction take an operator no backend can instantiate;
`SetInduction`, `StepByStep`, `CountingOn` and `FromNought` are induction over a set of numbers, from the
well-foundedness of `<` on `Nat`, and serve for recursive functions. `SelectSeq`, over which
`Boundary` is written, has no definition the provers see, and the folds of
`ShellWrites` none that can be reasoned about.

## Not modelled

- The model client, the webhook, the metrics, the evidence bundle and the
  signer: calls to other services and formatting, with no state that a later
  request reads. `Drafts` takes the model's answer as an input.
- The local server: its threads are `SignIn`'s, the rest is wiring.
- Of `access_routes` and `app_routes` the pages, downloads and listings; of
  `ledger` the aggregates, which are functions of the rows read.
- Of the hook: the lexing that tells which category a place is of, the shapes of
  the agents' inputs and the two front ends' wording. The copy in the plugin is
  the same file byte for byte and is mapped once.
- The pages of the console, the scripts, the benchmark and the deployment's
  templates: they run around the program.

## Plan

Left to do, in this order:

1. The lifetime of a sandbox in `ProjectStage`: a change keeps what is left of
   the day, and never less than a minute.
2. Proofs: `Boundary` over recursive functions in place of `SelectSeq`, and with
   it `EveryRouteJudged`.

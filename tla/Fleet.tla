---------------------------------- MODULE Fleet ----------------------------------
(***************************************************************************)
(* The public demo's synthetic fleet (application/demo_fleet.py): a        *)
(* scheduled tick claims its quarter of an hour, makes a batch of calls as *)
(* a hook would, and then acts as the operator of its projects: labels     *)
(* what a rule flagged, puts a noisy rule back to observing, promotes a    *)
(* project whose rules are ready or demotes one, and sweeps the queue.     *)
(*                                                                         *)
(* Events are delivered more than once; a tick meets failing reads and     *)
(* uncounted labels, runs out of time or dies between two calls to the     *)
(* store; a person labels calls and changes stages meanwhile, and a tick   *)
(* delivered late overlaps the next.                                       *)
(***************************************************************************)
EXTENDS Integers, Sequences, FiniteSetsExt

CONSTANTS
  Runners,        \* the containers
  Projects,
  Fleets,         \* FLEET_PROJECTS, as it may be
  Plans,          \* the batches a tick may have: sequences of calls
  Began,          \* the configurations a project may have as the first tick begins
  Target,         \* TARGET_ENFORCE
  MinObserved,    \* MIN_CALLS_OBSERVED
  MinAge,         \* SWEEP_MIN_AGE, in quarters of an hour
  Horizon,        \* SWEEP_HORIZON
  Cooldown,       \* COOLDOWN
  RowBudget,      \* SWEEP_ROW_BUDGET
  Overlap,        \* a tick may still run as the next quarter's is delivered
  MaxTicks,       \* BOUND: quarters of an hour
  MaxUpsets       \* BOUND: reads that fail, labels that go uncounted, and what a
                  \*   person does meanwhile

WatchedRules == {"domain_stays_pure", "protected_path"}

Configurations ==
  [stage : {"unset", "observe", "enforce"}, observing : SUBSET WatchedRules, promoted : Nat, demoted : Nat]

(* A call of a batch, and whether it answers a refusal of the one before.  *)
FleetCall(p, does, answers) == [project |-> p, does |-> does, answers |-> answers]

FleetCalls ==
  [project : Projects, does : {"none", "crossing", "noise", "settings", "credential"}, answers : BOOLEAN]

(* What the constants must be. *)
FleetFits ==
  /\ {Target, MinObserved, MinAge, Horizon, Cooldown, RowBudget, MaxTicks, MaxUpsets} \subseteq Nat
  /\ 0 < MinAge /\ MinAge <= Horizon /\ Overlap \in BOOLEAN /\ Fleets \subseteq (SUBSET Projects) \ {{}}
  /\ Began \subseteq Configurations /\ \A plan \in Plans : plan \in Seq(FleetCalls)

VARIABLES
  fleet,     \* the projects it has
  now,       \* the quarter of an hour it is
  ticked,    \* the quarters whose claim is on the table
  config,    \* config[p]: project p's configuration on the table
  flagged,   \* the flagged calls, oldest first
  watched,   \* watched[p]: p's calls counted as observed, as far as MinObserved
  doing, tick,  \* tick[c]: what the tick running in container c has in hand
  upsets

fleetVars == <<fleet, now, ticked, config, flagged, watched, doing, tick, upsets>>

Never == 0
Unset == [stage |-> "unset", observing |-> {}, promoted |-> Never, demoted |-> Never]
Fresh == [Unset EXCEPT !.stage = "observe"]

(* new_config, where the stack's default is to observe.                    *)
StageOf(cfg) == IF cfg.stage = "enforce" THEN "enforce" ELSE "observe"

(* observe_keys and mode_now.                                              *)
Enforces(cfg, rule) == StageOf(cfg) = "enforce" /\ rule \notin cfg.observing

NoTick ==
  [bucket |-> Never, clock |-> Never, plan |-> <<>>, began |-> [p \in Projects |-> Unset], seen |-> [p \in Projects |-> "observe"],
   refused |-> {}, todo |-> {}, labelled |-> {}, alarms |-> {}, handled |-> {}, act |-> "none",
   project |-> CHOOSE p \in Projects : TRUE, rules |-> {}, held |-> Unset, met |-> {}]

FleetInit ==
  /\ fleet \in Fleets /\ now = 1 /\ ticked = {} /\ config \in [Projects -> Began]
  /\ flagged = <<>> /\ watched = [p \in Projects |-> 0]
  /\ doing = [c \in Runners |-> "idle"] /\ tick = [c \in Runners |-> NoTick]
  /\ upsets = 0

-----------------------------------------------------------------------------
Doing(c, label) == doing[c] = label

GoesOn(c, label, t) == doing' = [doing EXCEPT ![c] = label] /\ tick' = [tick EXCEPT ![c] = t]

TickEnds(c) == GoesOn(c, "idle", NoTick)

Fails == upsets < MaxUpsets /\ upsets' = upsets + 1
Works == UNCHANGED upsets

Meets(t, what) == [t EXCEPT !.met = @ \cup {what}]

Store == <<config, flagged, watched>>
Outside == <<fleet, now, ticked>>

-----------------------------------------------------------------------------
(* run_scheduled_tick: the claim, before anything else.                    *)

Batches == {plan \in Plans : \A n \in DOMAIN plan : plan[n].project \in fleet}

(* A claim already there, or one the table could not take, ends the tick;  *)
(* so does one that was taken and whose answer was lost.                   *)
ClaimTick(c) ==
  /\ Doing(c, "idle") /\ now \notin ticked /\ ticked' = ticked \cup {now}
  /\ \/ /\ Works
        /\ \E plan \in Batches :
             GoesOn(c, "configure", [NoTick EXCEPT !.bucket = now, !.clock = now, !.plan = plan, !.todo = fleet])
     \/ Fails /\ UNCHANGED <<doing, tick>>
  /\ UNCHANGED <<Store, fleet, now>>

-----------------------------------------------------------------------------
(* _ensure_configured: a project is configured only when the store says it *)
(* has no configuration; a read that fails fails the tick.                 *)

NextProject(t) == CHOOSE p \in t.todo : TRUE

ConfiguredAs(t, p, cfg) ==
  [t EXCEPT !.began[p] = cfg, !.seen[p] = StageOf(cfg), !.todo = @ \ {p}]

AfterProject(t, p) == IF t.todo = {p} THEN "send" ELSE "configure"

ReadConfig(c) ==
  LET t == tick[c]  p == NextProject(t) IN
    /\ Doing(c, "configure")
    /\ \/ Fails /\ TickEnds(c)
       \/ /\ Works
          /\ IF config[p] = Unset THEN GoesOn(c, "create", t)
             ELSE GoesOn(c, AfterProject(t, p), ConfiguredAs(t, p, config[p]))
    /\ UNCHANGED <<Store, Outside>>

(* What a save leaves: the other ticks under way met another hand.         *)
Saves(p, cfg) == config' = [config EXCEPT ![p] = cfg]

MetOthers == [d \in Runners |-> IF Doing(d, "idle") THEN tick[d] ELSE Meets(tick[d], "other")]

SavesAs(c, label, t, p, cfg) ==
  /\ Saves(p, cfg)
  /\ doing' = [doing EXCEPT ![c] = label]
  /\ tick' = [MetOthers EXCEPT ![c] = t]

CreateConfig(c) ==
  LET t == tick[c]  p == NextProject(t) IN
    /\ Doing(c, "create") /\ Works
    /\ SavesAs(c, AfterProject(t, p), ConfiguredAs(t, p, Fresh), p, Fresh)
    /\ UNCHANGED <<flagged, watched, Outside>>

-----------------------------------------------------------------------------
(* _send: what the hook holds on the machine is not sent; what is sent is  *)
(* judged under the project's stage and its row recorded.                  *)

RuleOf(does) ==
  CASE does \in {"crossing", "noise"} -> "domain_stays_pure"
    [] does = "settings" -> "protected_path"
    [] OTHER -> "none"

(* held_on_machine.                                                        *)
Held(step, seen) == step.does = "credential" \/ (step.does = "settings" /\ seen = "enforce")

Refusing(t, step, yes) ==
  IF step.answers THEN t.refused ELSE IF yes THEN t.refused \cup {step.project} ELSE t.refused \ {step.project}

Passes(c, t) == GoesOn(c, "send", [t EXCEPT !.plan = Tail(t.plan)])

Least(x, y) == IF x < y THEN x ELSE y

SendCall(c) ==
  LET t == tick[c]  step == Head(t.plan)  p == step.project  rule == RuleOf(step.does)
      refuses == rule # "none" /\ Enforces(config[p], rule) IN
    /\ Doing(c, "send") /\ t.plan # <<>> /\ Works
    /\ IF step.answers /\ p \notin t.refused THEN Passes(c, t) /\ UNCHANGED Store
       ELSE IF Held(step, t.seen[p])
       THEN Passes(c, [t EXCEPT !.refused = Refusing(t, step, TRUE)]) /\ UNCHANGED Store
       ELSE /\ Passes(c, [t EXCEPT !.clock = now, !.seen[p] = StageOf(config[p]), !.refused = Refusing(t, step, refuses),
                            !.todo = IF rule = "none" THEN @ ELSE @ \cup {Len(flagged) + 1}])
            /\ flagged' = IF rule = "none" THEN flagged
                         ELSE Append(flagged, [project |-> p, rule |-> rule, noise |-> step.does = "noise", at |-> now,
                                              kind |-> IF refuses THEN "refused" ELSE "observed",
                                              review |-> "none", counted |-> "none"])
            /\ watched' = IF StageOf(config[p]) = "enforce" THEN watched
                          ELSE [watched EXCEPT ![p] = Least(@ + 1, MinObserved)]
            /\ UNCHANGED config
    /\ UNCHANGED Outside

(* The batch is sent, or its share of the time is up.                      *)
SendingEnds(c) ==
  /\ Doing(c, "send") /\ Works
  /\ GoesOn(c, "review", [tick[c] EXCEPT !.plan = <<>>, !.seen = NoTick.seen, !.refused = {}])
  /\ UNCHANGED <<Store, Outside>>

-----------------------------------------------------------------------------
(* _label: the row, then the count of its day, which may go uncounted.     *)

(* label_for.                                                              *)
LabelFor(row) ==
  IF row.noise THEN "false_alarm" ELSE IF row.kind = "observed" THEN "correct" ELSE "none"

WithLabel(t, i) ==
  [t EXCEPT !.labelled = @ \cup {i}, !.todo = @ \ {i},
            !.alarms = IF flagged[i].noise THEN @ \cup {flagged[i].project} ELSE @]

LabelsRow(c, i, label) ==
  LET t == tick[c]  word == LabelFor(flagged[i]) IN
    /\ \/ /\ Works /\ GoesOn(c, label, WithLabel(t, i))
          /\ flagged' = [flagged EXCEPT ![i].review = word, ![i].counted = word]
       \/ /\ Fails /\ GoesOn(c, label, Meets(WithLabel(t, i), "fault"))
          /\ flagged' = [flagged EXCEPT ![i].review = word]
    /\ UNCHANGED <<config, watched, Outside>>

Passed(c, label, t) == Works /\ GoesOn(c, label, t) /\ UNCHANGED <<Store, Outside>>

(* _review_now: every false alarm, and a share of the rest.                *)
ReviewNow(c) ==
  LET t == tick[c]  i == Min(t.todo)  row == flagged[i] IN
    /\ Doing(c, "review") /\ t.todo # {}
    /\ \/ LabelFor(row) # "none" /\ LabelsRow(c, i, "review")
       \/ /\ LabelFor(row) = "none" \/ row.kind = "observed"
          /\ Passed(c, "review", [t EXCEPT !.todo = @ \ {i}])

ReviewEnds(c) == Doing(c, "review") /\ tick[c].todo = {} /\ Passed(c, "noisy", tick[c])

-----------------------------------------------------------------------------
(* readiness: what the counted labels say of a project's rule.             *)

OfRule(p, rule) == {i \in DOMAIN flagged : flagged[i].project = p /\ flagged[i].rule = rule}

State(p, rule) ==
  LET rows == OfRule(p, rule) IN
    IF \E i \in rows : flagged[i].counted = "false_alarm" THEN "noisy"
    ELSE IF \E i \in rows : flagged[i].kind = "observed" /\ flagged[i].counted = "none" THEN "needs_review"
    ELSE IF \E i \in rows : flagged[i].counted = "correct" THEN "ready" ELSE "quiet"

-----------------------------------------------------------------------------
(* _observe_noisy_rules, before the stages change and again at the end;    *)
(* act says which of the two it is.                                        *)

AfterNoisy(t) == IF t.act = "none" THEN "stage" ELSE "done"

(* A project is looked at once, and only if it enforced as the tick began. *)
LookNoisy(c) ==
  LET t == tick[c] IN
    /\ Doing(c, "noisy")
    /\ \E p \in t.alarms \ t.handled :
         LET had == [t EXCEPT !.handled = @ \cup {p}]
             noisy == {r \in WatchedRules : State(p, r) = "noisy" /\ Enforces(config[p], r)} IN
           IF StageOf(t.began[p]) # "enforce" THEN Works /\ GoesOn(c, "noisy", had)
           ELSE \/ Fails /\ GoesOn(c, "noisy", Meets(had, "fault"))
                \/ Works /\ IF noisy = {} THEN GoesOn(c, "noisy", had)
                            ELSE GoesOn(c, "noisy_load", [had EXCEPT !.project = p, !.rules = noisy])
    /\ UNCHANGED <<Store, Outside>>

(* Each change reads the configuration again, and writes what it read.     *)
Dropped(t) == [t EXCEPT !.held = Unset, !.rules = {}, !.project = NoTick.project]

Acted(t)   == [Dropped(t) EXCEPT !.act = "swept"]

Loads(c, from, to, back, dropped) ==
  LET t == tick[c] IN
    /\ Doing(c, from)
    /\ \/ Works /\ GoesOn(c, to, [t EXCEPT !.held = config[t.project]])
       \/ Fails /\ GoesOn(c, back, Meets(dropped, "fault"))
    /\ UNCHANGED <<Store, Outside>>

LoadForNoisy(c) == Loads(c, "noisy_load", "noisy_save", "noisy", Dropped(tick[c]))

SaveNoisy(c) ==
  LET t == tick[c] IN
    /\ Doing(c, "noisy_save") /\ Works
    /\ SavesAs(c, "noisy", Dropped(t), t.project, [t.held EXCEPT !.observing = @ \cup t.rules])
    /\ UNCHANGED <<flagged, watched, Outside>>

(* Slip: the pass before the stages change is the only one.                *)
NoisyEndsOnce(c) ==
  LET t == tick[c] IN
    /\ Doing(c, "noisy") /\ (t.alarms \subseteq t.handled \/ t.act # "none") /\ Passed(c, AfterNoisy(t), t)

NoisyEnds(c) ==
  LET t == tick[c] IN Doing(c, "noisy") /\ t.alarms \subseteq t.handled /\ Passed(c, AfterNoisy(t), t)

-----------------------------------------------------------------------------
(* stage_actions: at most one promotion or demotion, from the              *)
(* configurations as the tick read them.                                   *)

Within(t, at) == at # Never /\ t.clock - at < Cooldown

Enforcing(t) == {p \in fleet : StageOf(t.began[p]) = "enforce"}

MayPromote(t) ==
  IF Cardinality(Enforcing(t)) < Target
  THEN {p \in fleet \ Enforcing(t) : ~Within(t, t.began[p].demoted)} ELSE {}

MayDemote(t) ==
  IF Cardinality(Enforcing(t)) < Target THEN {}
  ELSE {p \in Enforcing(t) : ~Within(t, t.began[p].promoted)}

MustDemote(t) == Cardinality(Enforcing(t)) > Target /\ MayDemote(t) # {}

ChooseStage(c) ==
  LET t == tick[c] IN
    /\ Doing(c, "stage") /\ Works
    /\ \/ ~MustDemote(t) /\ GoesOn(c, "sweep", Acted(t))
       \/ \E p \in MayPromote(t) : GoesOn(c, "promote", [t EXCEPT !.project = p])
       \/ \E p \in MayDemote(t) : GoesOn(c, "demote_load", [t EXCEPT !.project = p])
    /\ UNCHANGED <<Store, Outside>>

LoadForDemote(c) == Loads(c, "demote_load", "demote_save", "sweep", Acted(tick[c]))

SaveDemoted(c) ==
  LET t == tick[c] IN
    /\ Doing(c, "demote_save") /\ Works
    /\ SavesAs(c, "sweep", Acted(t), t.project, [t.held EXCEPT !.stage = "observe", !.demoted = t.clock])
    /\ UNCHANGED <<flagged, watched, Outside>>

-----------------------------------------------------------------------------
(* _promote: enough calls observed, then the project's queue, then the     *)
(* rules as they then read.                                                *)

Promote(c) ==
  LET t == tick[c] IN
    /\ Doing(c, "promote")
    /\ \/ Works /\ GoesOn(c, "sweep", IF watched[t.project] < MinObserved THEN Acted(t) ELSE [t EXCEPT !.act = "promote"])
       \/ Fails /\ GoesOn(c, "sweep", Meets(Acted(t), "fault"))
    /\ UNCHANGED <<Store, Outside>>

PromotedRules(p) == {r \in WatchedRules : State(p, r) \in {"ready", "quiet"}}

ReadRules(c) ==
  LET t == tick[c]  p == t.project IN
    /\ Doing(c, "rules")
    /\ \/ /\ Works
          /\ IF \E r \in WatchedRules : State(p, r) = "ready"
             THEN GoesOn(c, "promote_load", [t EXCEPT !.rules = PromotedRules(p)])
             ELSE GoesOn(c, "sweep", Acted(t))
       \/ Fails /\ GoesOn(c, "sweep", Meets(Acted(t), "fault"))
    /\ UNCHANGED <<Store, Outside>>

LoadForPromote(c) == Loads(c, "promote_load", "promote_save", "sweep", Acted(tick[c]))

SavePromoted(c) ==
  LET t == tick[c] IN
    /\ Doing(c, "promote_save") /\ Works
    /\ SavesAs(c, "sweep", Acted(t), t.project,
               [t.held EXCEPT !.stage = "enforce", !.observing = WatchedRules \ t.rules, !.promoted = t.clock])
    /\ UNCHANGED <<flagged, watched, Outside>>

-----------------------------------------------------------------------------
(* _sweep: newest first, as far back as the horizon and the row budget; of *)
(* one project at any age when it is promoted, of them all past the        *)
(* minimum age at the end.  What it read is labelled row by row.           *)

InScope(t, row) == t.act # "promote" \/ row.project = t.project
OldEnough(t, row) == t.clock - row.at >= IF t.act = "promote" THEN 0 ELSE MinAge

WithinHorizon(t) == {i \in DOMAIN flagged : t.clock - flagged[i].at <= Horizon}

Waits(t, i) == flagged[i].review = "none" /\ i \notin t.labelled /\ LabelFor(flagged[i]) # "none"

Reached(t) == {i \in WithinHorizon(t) : i > Len(flagged) - RowBudget /\ InScope(t, flagged[i])}

(* Slip: the last sweep passes over what this tick's own share left.       *)
QueueLessItsOwn(t) == {i \in Reached(t) : t.clock - flagged[i].at > MinAge /\ Waits(t, i)}

Queue(t) == {i \in Reached(t) : OldEnough(t, flagged[i]) /\ Waits(t, i)}

SweepRead(c) ==
  LET t == tick[c] IN
    /\ Doing(c, "sweep") /\ Works
    /\ LET found == [t EXCEPT !.todo = Queue(t)] IN
         GoesOn(c, "label", IF Cardinality(WithinHorizon(t)) > RowBudget THEN Meets(found, "full") ELSE found)
    /\ UNCHANGED <<Store, Outside>>

SweepLabel(c) == Doing(c, "label") /\ tick[c].todo # {} /\ LabelsRow(c, Max(tick[c].todo), "label")

AfterSweep(t) == IF t.act = "promote" THEN "rules" ELSE "noisy"

SweepEnds(c) == Doing(c, "label") /\ tick[c].todo = {} /\ Passed(c, AfterSweep(tick[c]), tick[c])

Finish(c) == Doing(c, "done") /\ Works /\ TickEnds(c) /\ UNCHANGED <<Store, Outside>>

(* The tick is out of time, and does none of what it had left to do; or    *)
(* its container dies, between any two calls to the store.                 *)
Stops(c) == doing[c] \notin {"idle", "done"} /\ Works /\ TickEnds(c) /\ UNCHANGED <<Store, Outside>>

-----------------------------------------------------------------------------
(* A quarter of an hour passes; a tick takes minutes, so one that starts   *)
(* late in its quarter is over before the next quarter ends.               *)
Passage ==
  /\ now < MaxTicks
  /\ \A c \in Runners : Doing(c, "idle") \/ (Overlap /\ tick[c].bucket = now)
  /\ now' = now + 1
  /\ UNCHANGED <<fleet, ticked, Store, doing, tick, upsets>>

(* A person reviews a call, or sets a project's stage and rules.           *)
ByHand ==
  /\ Fails
  /\ \/ /\ \E i \in DOMAIN flagged, word \in {"none", "correct", "false_alarm"} :
             flagged' = [flagged EXCEPT ![i].review = word, ![i].counted = word]
        /\ UNCHANGED config
     \/ /\ \E p \in fleet, stage \in {"observe", "enforce"}, observing \in SUBSET WatchedRules :
             Saves(p, [config[p] EXCEPT !.stage = stage, !.observing = observing])
        /\ UNCHANGED flagged
  /\ tick' = MetOthers
  /\ UNCHANGED <<Outside, watched, doing>>

Runs(c) ==
  \/ ClaimTick(c) \/ ReadConfig(c) \/ CreateConfig(c) \/ SendCall(c) \/ SendingEnds(c)
  \/ ReviewNow(c) \/ ReviewEnds(c) \/ LookNoisy(c) \/ LoadForNoisy(c) \/ SaveNoisy(c) \/ NoisyEnds(c)
  \/ ChooseStage(c) \/ LoadForDemote(c) \/ SaveDemoted(c)
  \/ Promote(c) \/ ReadRules(c) \/ LoadForPromote(c) \/ SavePromoted(c)
  \/ SweepRead(c) \/ SweepLabel(c) \/ SweepEnds(c) \/ Finish(c) \/ Stops(c)

FleetNext == Passage \/ ByHand \/ \E c \in Runners : Runs(c)

FleetSpec == FleetInit /\ [][FleetNext]_fleetVars

-----------------------------------------------------------------------------
(* PROPERTIES                                                              *)

Ended(c, despite) == Doing(c, "done") /\ tick[c].met \subseteq despite

(* A tick that ended in time, met no fault and nobody else's hand leaves   *)
(* no rule enforcing that it marked a false alarm of: not one that         *)
(* enforced as it began, nor one of a project it promoted itself.          *)
NoisySetBack ==
  \A c \in Runners : Ended(c, {"full"}) =>
    \A i \in tick[c].labelled : flagged[i].noise => ~Enforces(config[flagged[i].project], flagged[i].rule)

(* A tick that ended in time and read the whole horizon leaves no call an  *)
(* operator labels waiting past the minimum age, whatever became of the    *)
(* ticks that made those calls.                                            *)
QueueSwept ==
  \A c \in Runners : Ended(c, {"fault"}) =>
    \A i \in WithinHorizon(tick[c]) :
      (tick[c].clock - flagged[i].at >= MinAge /\ LabelFor(flagged[i]) # "none") => flagged[i].review # "none"
=============================================================================

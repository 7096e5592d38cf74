------------------------------ MODULE Fleet_proofs ------------------------------
(***************************************************************************)
(* The demo's ticks: what a tick found noisy is set back and what it read  *)
(* is labelled, for any number of containers that run them, of projects,   *)
(* of batches and of quarters of an hour, overlapping or not, and whatever *)
(* fails or a person does meanwhile.                                       *)
(***************************************************************************)
EXTENDS Fleet, FiniteSetTheorems, SequenceTheorems, WellFoundedInduction, TLAPS

Noisy == "domain_stays_pure"

FlaggedRows ==
  [project : fleet, rule : WatchedRules, noise : BOOLEAN, at : Nat, kind : {"refused", "observed"},
   review : {"none", "correct", "false_alarm"}, counted : {"none", "correct", "false_alarm"}]

Ticks ==
  [bucket : Nat, clock : Nat, plan : Seq(FleetCalls), began : [Projects -> Configurations],
   seen : [Projects -> {"observe", "enforce"}], refused : SUBSET Projects, todo : SUBSET (fleet \cup Nat),
   labelled : SUBSET Nat, alarms : SUBSET fleet, handled : SUBSET fleet, act : {"none", "promote", "swept"},
   project : Projects, rules : SUBSET WatchedRules, held : Configurations, met : SUBSET {"fault", "other", "full"}]

Places == {"idle", "configure", "create", "send", "review", "noisy", "noisy_load", "noisy_save", "stage",
           "demote_load", "demote_save", "promote", "rules", "promote_load", "promote_save", "sweep", "label", "done"}

(* What a tick is about at each of its steps, and which pass it is in:     *)
(* before the stages change, a promotion's, or the one after.              *)
InHand(at, t, rows, moment) ==
  /\ \A n \in 1..Len(t.plan) : t.plan[n].project \in fleet
  /\ at \in {"configure", "create"} => t.todo \subseteq fleet /\ t.todo # {}
  /\ at \in {"send", "review", "label"} => t.todo \subseteq 1..rows
  /\ at \in {"noisy_load", "noisy_save", "demote_load", "demote_save", "promote"} => t.project \in fleet
  /\ t.act = "promote" => t.project \in fleet
  /\ t.labelled \subseteq 1..rows /\ t.clock <= moment

Pass(at, t) ==
  /\ at \in {"idle", "configure", "create", "send", "review", "stage", "demote_load", "demote_save", "promote"} =>
       t.act = "none"
  /\ at \in {"noisy", "noisy_load", "noisy_save"} => t.act # "promote"
  /\ at \in {"rules", "promote_load", "promote_save"} => t.act = "promote"
  /\ at \in {"sweep", "label"} => t.act # "none"
  /\ at = "done" => t.act = "swept"

Typed ==
  /\ fleet \in Fleets /\ now \in Nat /\ config \in [Projects -> Configurations]
  /\ flagged \in Seq(FlaggedRows) /\ doing \in [Runners -> Places] /\ tick \in [Runners -> Ticks]
  /\ \A n \in 1..Len(flagged) : flagged[n].noise => flagged[n].rule = Noisy

FleetTyped == Typed /\ \A c \in Runners : InHand(doing[c], tick[c], Len(flagged), now) /\ Pass(doing[c], tick[c])

-----------------------------------------------------------------------------
LEMMA FleetConstants == ASSUME FleetFits, fleet \in Fleets PROVE
  /\ fleet \subseteq Projects /\ fleet # {} /\ NoTick.project \in Projects
  /\ MinAge \in Nat /\ MinAge > 0 /\ Horizon \in Nat /\ RowBudget \in Nat
  /\ Unset \in Configurations /\ Fresh \in Configurations /\ Never \in Nat /\ Began \subseteq Configurations
<1>1. fleet \subseteq Projects /\ fleet # {}  BY DEF FleetFits
<1>2. NoTick.project = CHOOSE p \in Projects : TRUE  BY DEF NoTick
<1>2a. NoTick.project \in Projects  BY <1>1, <1>2
<1>3. Unset \in Configurations /\ Never \in Nat  BY DEF Unset, Never, Configurations
<1>4. Fresh \in Configurations  BY <1>3 DEF Fresh, Configurations
<1> QED  BY <1>1, <1>2a, <1>3, <1>4 DEF FleetFits

LEMMA NoTickTyped == ASSUME FleetFits, fleet \in Fleets PROVE NoTick \in Ticks
<1>1. NoTick.project = CHOOSE p \in Projects : TRUE  BY DEF NoTick
<1>2. <<>> \in Seq(FleetCalls)  OBVIOUS
<1> DEFINE began == [p \in Projects |-> Unset]  seen == [p \in Projects |-> "observe"]
<1>3. began \in [Projects -> Configurations] /\ seen \in [Projects -> {"observe", "enforce"}]  BY FleetConstants
<1> HIDE DEF began, seen
<1>4. (CHOOSE p \in Projects : TRUE) \in Projects  BY <1>1, FleetConstants
<1> QED  BY <1>2, <1>3, <1>4, FleetConstants DEF NoTick, Ticks, began, seen, Never

LEMMA MeetsTyped ==
  ASSUME NEW t \in Ticks, NEW what \in {"fault", "other", "full"} PROVE
  /\ Meets(t, what) \in Ticks
  /\ Meets(t, what) = [t EXCEPT !.met = t.met \cup {what}]
  BY DEF Meets, Ticks

LEMMA DroppedTyped ==
  ASSUME FleetFits, fleet \in Fleets, NEW t \in Ticks PROVE
  Dropped(t) \in Ticks /\ Acted(t) \in Ticks
<1>1. Dropped(t) \in Ticks  BY FleetConstants DEF Dropped, Ticks
<1> QED  BY <1>1 DEF Acted, Ticks

LEMMA ConfiguredTyped ==
  ASSUME FleetFits, fleet \in Fleets, NEW t \in Ticks, NEW p, NEW cfg \in Configurations PROVE
  ConfiguredAs(t, p, cfg) \in Ticks
<1>1. StageOf(cfg) \in {"observe", "enforce"}  BY DEF StageOf
<1>2. [t.began EXCEPT ![p] = cfg] \in [Projects -> Configurations] /\ [t.seen EXCEPT ![p] = StageOf(cfg)] \in [Projects -> {"observe", "enforce"}]
  BY <1>1 DEF Ticks
<1> QED  BY <1>2 DEF ConfiguredAs, Ticks

LEMMA WithLabelTyped ==
  ASSUME Typed, NEW t \in Ticks, NEW i \in DOMAIN flagged PROVE
  WithLabel(t, i) \in Ticks
<1>1. flagged[i] \in FlaggedRows /\ i \in Nat  BY DEF Typed
<1>2. flagged[i].noise \in BOOLEAN /\ flagged[i].project \in fleet  BY <1>1 DEF FlaggedRows
<1> QED  BY <1>1, <1>2 DEF WithLabel, Ticks

-----------------------------------------------------------------------------
(* How the rows change: one may be added, by a call; what they say of the  *)
(* call never changes; and no tick takes a label or its count away.        *)
Grown ==
  /\ Len(flagged)' \in Nat /\ Len(flagged)' >= Len(flagged)
  /\ \A i \in 1..Len(flagged) :
       /\ flagged'[i].project = flagged[i].project /\ flagged'[i].rule = flagged[i].rule
       /\ flagged'[i].noise = flagged[i].noise /\ flagged'[i].at = flagged[i].at /\ flagged'[i].kind = flagged[i].kind
  /\ \A i \in 1..Len(flagged)' : i > Len(flagged) => flagged'[i].at = now

LabelsKept ==
  \A i \in 1..Len(flagged) : LabelFor(flagged[i]) # "none" =>
    /\ flagged[i].review # "none" => flagged'[i].review # "none"
    /\ flagged[i].noise /\ flagged[i].counted = "false_alarm" => flagged'[i].counted = "false_alarm"

RowsFit(rows) == rows \in Seq(FlaggedRows) /\ \A n \in 1..Len(rows) : rows[n].noise => rows[n].rule = Noisy

LEMMA Unlabelled == ASSUME Typed, flagged' = flagged PROVE Grown /\ LabelsKept /\ RowsFit(flagged')
<1>1. Len(flagged) \in Nat  BY DEF Typed
<1> QED  BY <1>1 DEF Typed, Grown, LabelsKept, RowsFit

LEMMA OneLabelled ==
  ASSUME Typed, NEW i, NEW word \in {"none", "correct", "false_alarm"},
         \/ flagged' = [flagged EXCEPT ![i].review = word, ![i].counted = word]
         \/ flagged' = [flagged EXCEPT ![i].review = word]
  PROVE  /\ Grown /\ RowsFit(flagged') /\ Len(flagged)' = Len(flagged)
         /\ word = LabelFor(flagged[i]) => LabelsKept
<1> DEFINE n == Len(flagged)
<1>1. n \in Nat /\ flagged \in [1..n -> FlaggedRows] /\ DOMAIN flagged = 1..n  BY DEF Typed
<1>2. flagged' \in [1..n -> FlaggedRows]
  <2>1. CASE flagged' = [flagged EXCEPT ![i].review = word, ![i].counted = word]
    <3> DEFINE half == [flagged EXCEPT ![i].review = word]
    <3>1. half \in [1..n -> FlaggedRows]  BY <1>1 DEF FlaggedRows
    <3>2. flagged' = [half EXCEPT ![i].counted = word]  BY <2>1
    <3> HIDE DEF half
    <3> QED  BY <3>1, <3>2 DEF FlaggedRows
  <2>2. CASE flagged' = [flagged EXCEPT ![i].review = word]  BY <1>1, <2>2 DEF FlaggedRows
  <2> QED  BY <2>1, <2>2
<1>3. flagged' \in Seq(FlaggedRows) /\ Len(flagged') = n  BY <1>1, <1>2
<1>4. ASSUME NEW k \in 1..n PROVE
        /\ flagged'[k].project = flagged[k].project /\ flagged'[k].rule = flagged[k].rule
        /\ flagged'[k].noise = flagged[k].noise /\ flagged'[k].at = flagged[k].at /\ flagged'[k].kind = flagged[k].kind
        /\ flagged'[k].review = (IF k = i THEN word ELSE flagged[k].review)
        /\ flagged'[k].counted \in {flagged[k].counted, IF k = i THEN word ELSE flagged[k].counted}
  <2>1. CASE flagged' = [flagged EXCEPT ![i].review = word, ![i].counted = word]  BY <1>1, <2>1 DEF FlaggedRows
  <2>2. CASE flagged' = [flagged EXCEPT ![i].review = word]  BY <1>1, <2>2 DEF FlaggedRows
  <2> QED  BY <2>1, <2>2
<1>5. Grown  BY <1>1, <1>3, <1>4 DEF Grown
<1>6. RowsFit(flagged')  BY <1>3, <1>4 DEF RowsFit, Typed
<1>7. word = LabelFor(flagged[i]) => LabelsKept  BY <1>1, <1>4 DEF LabelsKept, LabelFor
<1> QED  BY <1>3, <1>5, <1>6, <1>7

LEMMA OneAdded ==
  ASSUME Typed, NEW row \in FlaggedRows, row.at = now, row.noise => row.rule = Noisy,
         flagged' = Append(flagged, row)
  PROVE  Grown /\ LabelsKept /\ RowsFit(flagged') /\ Len(flagged)' = Len(flagged) + 1
<1> DEFINE n == Len(flagged)
<1>1. n \in Nat /\ flagged \in Seq(FlaggedRows)  BY DEF Typed
<1>2. Len(flagged') = n + 1 /\ flagged'[n + 1] = row /\ \A k \in 1..n : flagged'[k] = flagged[k]  BY <1>1
<1>3. flagged' \in Seq(FlaggedRows)  BY <1>1
<1>4. Grown  BY <1>1, <1>2 DEF Grown
<1>5. LabelsKept  BY <1>1, <1>2 DEF LabelsKept
<1>6. RowsFit(flagged')  BY <1>1, <1>2, <1>3 DEF RowsFit, Typed
<1> QED  BY <1>2, <1>4, <1>5, <1>6

-----------------------------------------------------------------------------
(* What a tick does leaves the others: they go on as they were, but for a  *)
(* configuration saved, which they have met another's hand in.             *)
Beside(d) ==
  /\ doing'[d] = doing[d]
  /\ \/ tick'[d] = tick[d] /\ (config' = config \/ doing[d] = "idle")
     \/ tick'[d] = Meets(tick[d], "other")

Moved(c, at, t) ==
  /\ fleet' = fleet /\ now' = now /\ config' \in [Projects -> Configurations] /\ RowsFit(flagged') /\ Grown
  /\ doing' \in [Runners -> Places] /\ tick' \in [Runners -> Ticks]
  /\ doing'[c] = at /\ tick'[c] = t
  /\ \A d \in Runners : d # c => Beside(d)

LEMMA MovedOn ==
  ASSUME Typed, NEW c \in Runners, NEW at \in Places, NEW t \in Ticks, GoesOn(c, at, t),
         fleet' = fleet, now' = now, config' = config, Grown, RowsFit(flagged')
  PROVE  Moved(c, at, t)
<1>1. doing' \in [Runners -> Places] /\ tick' \in [Runners -> Ticks] /\ doing'[c] = at /\ tick'[c] = t
  BY DEF GoesOn, Typed
<1>2. \A d \in Runners : d # c => Beside(d)  BY DEF GoesOn, Typed, Beside
<1> QED  BY <1>1, <1>2 DEF Moved, Typed

LEMMA MovedOnly ==
  ASSUME Typed, NEW c \in Runners, NEW at \in Places, NEW t \in Ticks, GoesOn(c, at, t), UNCHANGED <<Store, fleet, now>>
  PROVE  Moved(c, at, t) /\ LabelsKept
<1>1. flagged' = flagged /\ config' = config  BY DEF Store
<1> QED  BY <1>1, MovedOn, Unlabelled

LEMMA MovedSaving ==
  ASSUME Typed, NEW c \in Runners, NEW at \in Places, NEW t \in Ticks, NEW p, NEW cfg \in Configurations,
         SavesAs(c, at, t, p, cfg), UNCHANGED <<flagged, Outside>>
  PROVE  Moved(c, at, t) /\ LabelsKept
<1>1. flagged' = flagged /\ fleet' = fleet /\ now' = now  BY DEF Outside
<1>2. config' \in [Projects -> Configurations]  BY DEF SavesAs, Saves, Typed
<1>3. \A d \in Runners : MetOthers[d] \in Ticks
  BY MeetsTyped DEF MetOthers, Typed
<1>4. MetOthers \in [Runners -> Ticks]  BY <1>3 DEF MetOthers
<1>5. doing' \in [Runners -> Places] /\ tick' \in [Runners -> Ticks] /\ doing'[c] = at /\ tick'[c] = t
  BY <1>4 DEF SavesAs, Typed
<1>6. ASSUME NEW d \in Runners, d # c PROVE Beside(d)
  <2>1. doing'[d] = doing[d] /\ tick'[d] = MetOthers[d]  BY <1>4, <1>6 DEF SavesAs, Typed
  <2> QED  BY <2>1 DEF Beside, MetOthers, Doing
<1> QED  BY <1>1, <1>2, <1>5, <1>6, Unlabelled DEF Moved

LEMMA LeastOf == ASSUME NEW S \in SUBSET Nat, S # {} PROVE \E x \in S : \A y \in S : x <= y
<1>1. PICK x \in S : \A y \in S : ~(<<y, x>> \in OpToRel(<, Nat))
  BY WFMin, NatLessThanWellFounded, Zenon
<1>2. ASSUME NEW y \in S PROVE ~(y < x)
  <2>1. x \in Nat /\ y \in Nat  OBVIOUS
  <2>2. y < x => <<y, x>> \in OpToRel(<, Nat)  BY <2>1, Zenon DEF OpToRel
  <2>3. ~(<<y, x>> \in OpToRel(<, Nat))  BY <1>1, Zenon
  <2> QED  BY <2>2, <2>3, Zenon
<1>3. \A y \in S : x <= y  BY <1>2
<1> QED  BY <1>3

LEMMA SmallestAndLargest ==
  ASSUME NEW n \in Nat, NEW S \in SUBSET (1..n), S # {} PROVE Min(S) \in S /\ Max(S) \in S
<1>1. \E x \in S : \A y \in S : x <= y
  <2>1. S \in SUBSET Nat  OBVIOUS
  <2> QED  BY <2>1, LeastOf
<1>2. \E x \in S : \A y \in S : x >= y
  <2> DEFINE T == {n - x : x \in S}
  <2>0. \A x \in S : x \in Int /\ 1 <= x /\ x <= n  OBVIOUS
  <2>1. T \in SUBSET Nat /\ T # {}
    <3>1. \A x \in S : n - x \in Nat  BY <2>0
    <3>2. PICK x \in S : TRUE  OBVIOUS
    <3>3. n - x \in T  OBVIOUS
    <3> QED  BY <3>1, <3>3
  <2>2. PICK z \in T : \A y \in T : z <= y
    <3> HIDE DEF T
    <3> QED  BY <2>1, LeastOf
  <2>3. PICK x \in S : z = n - x  OBVIOUS
  <2>4. ASSUME NEW y \in S PROVE x >= y
    <3>1. x \in Int /\ y \in Int /\ n - y \in T  BY <2>0
    <3>2. z <= n - y  BY <2>2, <3>1
    <3> HIDE DEF T
    <3> QED  BY <2>3, <3>1, <3>2
  <2> QED  BY <2>4
<1> QED  BY <1>1, <1>2 DEF Min, Max

-----------------------------------------------------------------------------
(* What each step of a tick does, as one of these moves.                   *)
Done(c, at, t) ==
  Moved(c, at, t) /\ LabelsKept /\ InHand(at, t, Len(flagged)', now') /\ Pass(at, t)

LEMMA DoneOn ==
  ASSUME Typed, NEW c \in Runners, NEW at \in Places, NEW t \in Ticks, GoesOn(c, at, t), UNCHANGED <<Store, fleet, now>>,
         InHand(at, t, Len(flagged), now), Pass(at, t)
  PROVE  Done(c, at, t) /\ config' = config /\ flagged' = flagged
<1>1. Moved(c, at, t) /\ LabelsKept  BY MovedOnly
<1>2. flagged' = flagged /\ config' = config /\ now' = now  BY DEF Store
<1> QED  BY <1>1, <1>2 DEF Done

LEMMA DoneSaving ==
  ASSUME Typed, NEW c \in Runners, NEW at \in Places, NEW t \in Ticks, NEW p \in Projects, NEW cfg \in Configurations,
         SavesAs(c, at, t, p, cfg), UNCHANGED <<flagged, Outside>>,
         InHand(at, t, Len(flagged), now), Pass(at, t)
  PROVE  Done(c, at, t) /\ config'[p] = cfg /\ (\A q \in Projects : q # p => config'[q] = config[q]) /\ flagged' = flagged
<1>1. Moved(c, at, t) /\ LabelsKept  BY MovedSaving
<1>2. now' = now  BY DEF Outside
<1>3. config'[p] = cfg /\ \A q \in Projects : q # p => config'[q] = config[q]  BY DEF SavesAs, Saves, Typed
<1> QED  BY <1>1, <1>2, <1>3 DEF Done

(* What a tick may have in hand as it is.                                  *)
Good(c) == c \in Runners /\ tick[c] \in Ticks /\ InHand(doing[c], tick[c], Len(flagged), now) /\ Pass(doing[c], tick[c])

LEMMA AllGood == ASSUME FleetTyped, NEW c \in Runners PROVE Good(c) /\ Typed /\ Len(flagged) \in Nat /\ fleet \in Fleets /\ now \in Nat
  BY DEF FleetTyped, Good, Typed

LEMMA Ending ==
  ASSUME FleetFits, FleetTyped, NEW c \in Runners, TickEnds(c), UNCHANGED <<Store, fleet, now>>
  PROVE  Done(c, "idle", NoTick) /\ config' = config /\ flagged' = flagged
<1>1. NoTick \in Ticks  BY NoTickTyped, AllGood
<1>2. NoTick.plan = <<>> /\ NoTick.todo = {} /\ NoTick.labelled = {} /\ NoTick.act = "none" /\ NoTick.clock = Never
  BY DEF NoTick
<1>3. InHand("idle", NoTick, Len(flagged), now) /\ Pass("idle", NoTick)
  BY <1>2, AllGood DEF InHand, Pass, Never
<1> QED  BY <1>1, <1>3, AllGood, DoneOn DEF TickEnds, Places

LEMMA Claiming ==
  ASSUME FleetFits, FleetTyped, NEW c \in Runners, ClaimTick(c)
  PROVE  /\ config' = config /\ flagged' = flagged
         /\ \/ \E plan : Done(c, "configure", [NoTick EXCEPT !.bucket = now, !.clock = now, !.plan = plan, !.todo = fleet])
            \/ Done(c, doing[c], tick[c])
<1> USE AllGood
<1>1. config' = config /\ flagged' = flagged /\ UNCHANGED <<Store, fleet, now>>  BY DEF ClaimTick, Store
<1>2. ASSUME NEW plan \in Batches, GoesOn(c, "configure", [NoTick EXCEPT !.bucket = now, !.clock = now, !.plan = plan, !.todo = fleet])
      PROVE  Done(c, "configure", [NoTick EXCEPT !.bucket = now, !.clock = now, !.plan = plan, !.todo = fleet])
  <2> DEFINE t == [NoTick EXCEPT !.bucket = now, !.clock = now, !.plan = plan, !.todo = fleet]
  <2>1. plan \in Seq(FleetCalls) /\ \A n \in 1..Len(plan) : plan[n].project \in fleet  BY DEF Batches, FleetFits
  <2>2. t \in Ticks  BY <2>1, NoTickTyped DEF Ticks
  <2>3. t.plan = plan /\ t.todo = fleet /\ t.clock = now /\ t.labelled = {} /\ t.act = "none"
    BY NoTickTyped DEF Ticks, NoTick
  <2>4. InHand("configure", t, Len(flagged), now) /\ Pass("configure", t)
    <3> HIDE DEF t
    <3> QED  BY <2>1, <2>3, FleetConstants DEF InHand, Pass
  <2> QED  BY <1>1, <1>2, <2>2, <2>4, DoneOn DEF Places
<1>3. CASE UNCHANGED <<doing, tick>>
  <2>1. GoesOn(c, doing[c], tick[c]) /\ doing[c] \in Places  BY <1>3 DEF GoesOn, Typed
  <2> QED  BY <1>1, <2>1, DoneOn DEF Good
<1> QED  BY <1>1, <1>2, <1>3 DEF ClaimTick

LEMMA NextIsThere == ASSUME NEW t, t.todo # {} PROVE NextProject(t) \in t.todo
  BY DEF NextProject

LEMMA Configured ==
  ASSUME FleetFits, FleetTyped, NEW c \in Runners, doing[c] \in {"configure", "create"}, NEW cfg \in Configurations
  PROVE  LET t == tick[c]  p == NextProject(t) IN
         /\ p \in fleet /\ p \in Projects /\ p \in t.todo
         /\ ConfiguredAs(t, p, cfg) \in Ticks
         /\ InHand(AfterProject(t, p), ConfiguredAs(t, p, cfg), Len(flagged), now)
         /\ Pass(AfterProject(t, p), ConfiguredAs(t, p, cfg))
<1> DEFINE t == tick[c]  p == NextProject(t)  u == ConfiguredAs(t, p, cfg)
<1> USE AllGood
<1>1. Good(c) /\ t \in Ticks /\ t.todo \subseteq fleet /\ t.todo # {}  BY DEF Good, InHand
<1>2. p \in fleet /\ p \in Projects /\ p \in t.todo  BY <1>1, NextIsThere, FleetConstants
<1>3. u \in Ticks  BY <1>1, ConfiguredTyped
<1>4. u.plan = t.plan /\ u.todo = t.todo \ {p} /\ u.clock = t.clock /\ u.labelled = t.labelled /\ u.act = t.act
  BY <1>1 DEF ConfiguredAs, Ticks
<1>5. t.act = "none" /\ InHand(doing[c], t, Len(flagged), now)  BY <1>1 DEF Good, Pass
<1> HIDE DEF t, p, u
<1>6. InHand(AfterProject(t, p), u, Len(flagged), now) /\ Pass(AfterProject(t, p), u)
  <2>1. AfterProject(t, p) = "configure" => t.todo # {p}  BY DEF AfterProject
  <2>2. AfterProject(t, p) = "send" => u.todo = {}  BY <1>4 DEF AfterProject
  <2>3. AfterProject(t, p) \in {"configure", "send"}  BY DEF AfterProject
  <2> QED  BY <1>1, <1>2, <1>4, <1>5, <2>1, <2>2, <2>3 DEF InHand, Pass
<1> QED  BY <1>2, <1>3, <1>6 DEF t, p, u

LEMMA Reading ==
  ASSUME FleetFits, FleetTyped, NEW c \in Runners, ReadConfig(c)
  PROVE  LET t == tick[c]  p == NextProject(t) IN
         /\ config' = config /\ flagged' = flagged
         /\ \/ Done(c, "idle", NoTick)
            \/ Done(c, "create", t)
            \/ Done(c, AfterProject(t, p), ConfiguredAs(t, p, config[p]))
<1> DEFINE t == tick[c]  p == NextProject(t)
<1> USE AllGood
<1>1. config' = config /\ flagged' = flagged /\ UNCHANGED <<Store, fleet, now>> /\ doing[c] = "configure"
  BY DEF ReadConfig, Store, Outside, Doing
<1>2. config[p] \in Configurations  BY <1>1, Configured, FleetConstants DEF Typed
<1>3. CASE TickEnds(c)  BY <1>1, <1>3, Ending
<1>4. CASE GoesOn(c, "create", t)
  <2>1. InHand("create", t, Len(flagged), now) /\ Pass("create", t)  BY <1>1 DEF Good, InHand, Pass
  <2> QED  BY <1>1, <1>4, <2>1, DoneOn DEF Places, Good
<1>5. CASE GoesOn(c, AfterProject(t, p), ConfiguredAs(t, p, config[p]))
  <2>1. AfterProject(t, p) \in Places  BY DEF AfterProject, Places
  <2> HIDE DEF t, p
  <2>2. /\ ConfiguredAs(t, p, config[p]) \in Ticks
        /\ InHand(AfterProject(t, p), ConfiguredAs(t, p, config[p]), Len(flagged), now)
        /\ Pass(AfterProject(t, p), ConfiguredAs(t, p, config[p]))
    BY <1>1, <1>2, Configured DEF t, p
  <2>3. Done(c, AfterProject(t, p), ConfiguredAs(t, p, config[p]))  BY <1>1, <1>5, <2>1, <2>2, DoneOn
  <2> QED  BY <1>1, <2>3 DEF t, p
<1> QED  BY <1>1, <1>3, <1>4, <1>5 DEF ReadConfig

LEMMA Creating ==
  ASSUME FleetFits, FleetTyped, NEW c \in Runners, CreateConfig(c)
  PROVE  LET t == tick[c]  p == NextProject(t) IN
         /\ Done(c, AfterProject(t, p), ConfiguredAs(t, p, Fresh)) /\ flagged' = flagged
         /\ config'[p] = Fresh /\ \A q \in Projects : q # p => config'[q] = config[q]
<1> DEFINE t == tick[c]  p == NextProject(t)
<1> USE AllGood
<1>1. doing[c] = "create" /\ Fresh \in Configurations  BY FleetConstants DEF CreateConfig, Doing
<1>2. AfterProject(t, p) \in Places  BY DEF AfterProject, Places
<1>3. SavesAs(c, AfterProject(t, p), ConfiguredAs(t, p, Fresh), p, Fresh) /\ UNCHANGED <<flagged, Outside>>
  BY DEF CreateConfig
<1> HIDE DEF t, p
<1>4. /\ ConfiguredAs(t, p, Fresh) \in Ticks /\ p \in Projects
      /\ InHand(AfterProject(t, p), ConfiguredAs(t, p, Fresh), Len(flagged), now)
      /\ Pass(AfterProject(t, p), ConfiguredAs(t, p, Fresh))
  BY <1>1, Configured DEF t, p
<1>5. /\ Done(c, AfterProject(t, p), ConfiguredAs(t, p, Fresh)) /\ flagged' = flagged
      /\ config'[p] = Fresh /\ \A q \in Projects : q # p => config'[q] = config[q]
  BY <1>1, <1>2, <1>3, <1>4, DoneSaving
<1> QED  BY <1>5 DEF t, p

(* A call that is not recorded leaves the rows as they are; one that is    *)
(* adds its row and waits for it.                                          *)
CallRow(c) ==
  LET step == Head(tick[c].plan)  rule == RuleOf(step.does) IN
    [project |-> step.project, rule |-> rule, noise |-> step.does = "noise", at |-> now,
     kind |-> IF rule # "none" /\ Enforces(config[step.project], rule) THEN "refused" ELSE "observed",
     review |-> "none", counted |-> "none"]

LEMMA Sending ==
  ASSUME FleetFits, FleetTyped, NEW c \in Runners, SendCall(c)
  PROVE  /\ config' = config /\ doing[c] = "send"
         /\ \E t \in Ticks :
              /\ Done(c, "send", t) /\ t.met = tick[c].met /\ t.began = tick[c].began /\ t.labelled = tick[c].labelled
              /\ t.alarms = tick[c].alarms /\ t.handled = tick[c].handled
<1> DEFINE t == tick[c]  step == Head(t.plan)  p == step.project  rule == RuleOf(step.does)
           refuses == rule # "none" /\ Enforces(config[p], rule)
<1> USE AllGood
<1>1. /\ doing[c] = "send" /\ t.plan # <<>> /\ t \in Ticks /\ t.plan \in Seq(FleetCalls) /\ config' = config
      /\ fleet' = fleet /\ now' = now
  BY DEF SendCall, Good, Doing, Ticks, Store, Outside
<1>2. /\ t.act = "none" /\ t.todo \subseteq 1..Len(flagged) /\ t.labelled \subseteq 1..Len(flagged) /\ t.clock <= now
      /\ \A n \in 1..Len(t.plan) : t.plan[n].project \in fleet
  BY <1>1 DEF Good, InHand, Pass
<1>3. step \in FleetCalls /\ p \in fleet  BY <1>1, <1>2
<1>4. Tail(t.plan) \in Seq(FleetCalls) /\ \A n \in 1..Len(Tail(t.plan)) : Tail(t.plan)[n].project \in fleet
  BY <1>1, <1>2
<1>5. ASSUME NEW u \in Ticks, u.plan = t.plan, u.act = "none", u.labelled = t.labelled, u.clock \in {t.clock, now},
             u.todo \subseteq 1..Len(flagged)', Len(flagged)' \in Nat, Len(flagged)' >= Len(flagged),
             Grown, LabelsKept, RowsFit(flagged'), Passes(c, u)
      PROVE  \E v \in Ticks :
               /\ Done(c, "send", v) /\ v.met = u.met /\ v.began = u.began /\ v.labelled = u.labelled
               /\ v.alarms = u.alarms /\ v.handled = u.handled
  <2> DEFINE v == [u EXCEPT !.plan = Tail(t.plan)]
  <2>1. v \in Ticks /\ v.plan = Tail(t.plan) /\ v.act = "none" /\ v.labelled = u.labelled /\ v.clock = u.clock /\ v.todo = u.todo
       /\ v.met = u.met /\ v.began = u.began /\ v.alarms = u.alarms /\ v.handled = u.handled
    BY <1>4, <1>5 DEF Ticks
  <2>2. GoesOn(c, "send", v)  BY <1>5 DEF Passes
  <2> HIDE DEF v
  <2>3. InHand("send", v, Len(flagged)', now') /\ Pass("send", v)
    BY <1>1, <1>2, <1>4, <1>5, <2>1 DEF InHand, Pass
  <2>4. Moved(c, "send", v)  BY <1>1, <1>5, <2>1, <2>2, MovedOn DEF Places
  <2> QED  BY <1>5, <2>1, <2>3, <2>4 DEF Done
<1>6. \A yes \in BOOLEAN : Refusing(t, step, yes) \subseteq Projects
  BY <1>1, <1>3, FleetConstants DEF Refusing, Ticks
<1>7. CASE Passes(c, t) /\ UNCHANGED Store
  <2>1. flagged' = flagged  BY <1>7 DEF Store
  <2>2. Grown /\ LabelsKept /\ RowsFit(flagged')  BY <2>1, Unlabelled
  <2>3. Len(flagged)' = Len(flagged) /\ Len(flagged) \in Nat  BY <2>1
  <2> HIDE DEF t
  <2> QED  BY <1>1, <1>2, <1>5, <1>7, <2>2, <2>3 DEF t
<1>8. CASE Passes(c, [t EXCEPT !.refused = Refusing(t, step, TRUE)]) /\ UNCHANGED Store
  <2> DEFINE u == [t EXCEPT !.refused = Refusing(t, step, TRUE)]
  <2>1. flagged' = flagged  BY <1>8 DEF Store
  <2>2. Grown /\ LabelsKept /\ RowsFit(flagged')  BY <2>1, Unlabelled
  <2>3. u \in Ticks  BY <1>1, <1>6 DEF Ticks
  <2>4. /\ u.plan = t.plan /\ u.act = t.act /\ u.labelled = t.labelled /\ u.clock = t.clock /\ u.todo = t.todo
        /\ u.met = t.met /\ u.began = t.began /\ u.alarms = t.alarms /\ u.handled = t.handled
    BY <1>1 DEF Ticks
  <2>5. Passes(c, u)  BY <1>8
  <2>6. Len(flagged)' = Len(flagged) /\ Len(flagged) \in Nat  BY <2>1
  <2> HIDE DEF u, t
  <2> QED  BY <1>1, <1>2, <1>5, <2>2, <2>3, <2>4, <2>5, <2>6 DEF t
<1>9. CASE /\ flagged' = IF rule = "none" THEN flagged ELSE Append(flagged, CallRow(c))
           /\ Passes(c, [t EXCEPT !.clock = now, !.seen[p] = StageOf(config[p]), !.refused = Refusing(t, step, refuses),
                                  !.todo = IF rule = "none" THEN @ ELSE @ \cup {Len(flagged) + 1}])
  <2> DEFINE u == [t EXCEPT !.clock = now, !.seen[p] = StageOf(config[p]), !.refused = Refusing(t, step, refuses),
                           !.todo = IF rule = "none" THEN @ ELSE @ \cup {Len(flagged) + 1}]
  <2>1. /\ Grown /\ LabelsKept /\ RowsFit(flagged')
        /\ Len(flagged)' = Len(flagged) + (IF rule = "none" THEN 0 ELSE 1)
    <3>1. CASE rule = "none"  BY <1>9, <3>1, Unlabelled
    <3>2. CASE rule # "none"
      <4>1. CallRow(c) \in FlaggedRows  BY <1>3, <3>2 DEF CallRow, FlaggedRows, RuleOf, WatchedRules
      <4>2. CallRow(c).at = now /\ (CallRow(c).noise => CallRow(c).rule = Noisy)  BY DEF CallRow, RuleOf, Noisy
      <4> QED  BY <1>9, <3>2, <4>1, <4>2, OneAdded
    <3> QED  BY <3>1, <3>2
  <2>2. refuses \in BOOLEAN /\ StageOf(config[p]) \in {"observe", "enforce"}  BY DEF StageOf
  <2>3. u \in Ticks
    <3>1. [t.seen EXCEPT ![p] = StageOf(config[p])] \in [Projects -> {"observe", "enforce"}]  BY <1>1, <2>2 DEF Ticks
    <3>2. Refusing(t, step, refuses) \subseteq Projects  BY <1>6, <2>2
    <3>3. now \in Nat /\ t.todo \cup {Len(flagged) + 1} \subseteq fleet \cup Nat  BY <1>1 DEF Ticks
    <3> HIDE DEF p, step, rule, refuses, t
    <3> QED  BY <1>1, <3>1, <3>2, <3>3 DEF Ticks
  <2>4. /\ u.plan = t.plan /\ u.act = t.act /\ u.labelled = t.labelled /\ u.clock = now
        /\ u.todo = (IF rule = "none" THEN t.todo ELSE t.todo \cup {Len(flagged) + 1})
        /\ u.met = t.met /\ u.began = t.began /\ u.alarms = t.alarms /\ u.handled = t.handled
    <3> HIDE DEF p, step, rule, refuses
    <3> QED  BY <1>1 DEF Ticks
  <2>5. Passes(c, u)  BY <1>9
  <2>6. u.todo \subseteq 1..Len(flagged)' /\ Len(flagged)' \in Nat /\ Len(flagged)' >= Len(flagged)
    BY <1>2, <2>1, <2>4
  <2> HIDE DEF u, t
  <2> QED  BY <1>1, <1>2, <1>5, <2>1, <2>3, <2>4, <2>5, <2>6 DEF t
<1> QED  BY <1>1, <1>7, <1>8, <1>9, Zenon DEF SendCall, CallRow

-----------------------------------------------------------------------------
ForProject == {"noisy_load", "noisy_save", "demote_load", "demote_save", "promote"}

SameBatch(u, t) == u.plan = t.plan /\ u.labelled = t.labelled /\ u.clock = t.clock

LEMMA Onward ==
  ASSUME FleetFits, FleetTyped, NEW c \in Runners, NEW at \in Places \ {"configure", "create"}, NEW u \in Ticks,
         GoesOn(c, at, u), UNCHANGED <<Store, Outside>>, SameBatch(u, tick[c]),
         at \in {"send", "review", "label"} => u.todo \subseteq 1..Len(flagged),
         at \in ForProject \/ u.act = "promote" => u.project \in fleet, Pass(at, u)
  PROVE  Done(c, at, u) /\ config' = config /\ flagged' = flagged
<1>1. InHand(at, u, Len(flagged), now)
  BY AllGood DEF InHand, Good, SameBatch, ForProject
<1> QED  BY <1>1, AllGood, DoneOn DEF Outside

LEMMA Dropping ==
  ASSUME FleetFits, fleet \in Fleets, NEW t \in Ticks PROVE
  /\ \A u \in {Dropped(t), Acted(t)} :
       /\ u \in Ticks /\ SameBatch(u, t) /\ u.todo = t.todo /\ u.met = t.met /\ u.began = t.began
       /\ u.alarms = t.alarms /\ u.handled = t.handled
  /\ Dropped(t).act = t.act /\ Acted(t).act = "swept"
<1>1. Dropped(t) \in Ticks /\ Acted(t) \in Ticks  BY DroppedTyped
<1>2. /\ SameBatch(Dropped(t), t) /\ Dropped(t).todo = t.todo /\ Dropped(t).met = t.met /\ Dropped(t).began = t.began
      /\ Dropped(t).alarms = t.alarms /\ Dropped(t).handled = t.handled /\ Dropped(t).act = t.act
  BY DEF Dropped, Ticks, SameBatch
<1>3. /\ SameBatch(Acted(t), Dropped(t)) /\ Acted(t).todo = Dropped(t).todo /\ Acted(t).met = Dropped(t).met
      /\ Acted(t).began = Dropped(t).began /\ Acted(t).alarms = Dropped(t).alarms /\ Acted(t).handled = Dropped(t).handled
      /\ Acted(t).act = "swept"
  BY <1>1 DEF Acted, Ticks, SameBatch
<1> QED  BY <1>1, <1>2, <1>3 DEF SameBatch

LEMMA Meeting ==
  ASSUME NEW t \in Ticks, NEW what \in {"fault", "other", "full"} PROVE
  LET u == Meets(t, what) IN
  /\ u \in Ticks /\ SameBatch(u, t) /\ u.todo = t.todo /\ u.met = t.met \cup {what} /\ u.began = t.began
  /\ u.alarms = t.alarms /\ u.handled = t.handled /\ u.act = t.act /\ u.project = t.project /\ u.rules = t.rules /\ u.held = t.held
  BY MeetsTyped DEF Ticks, SameBatch

LEMMA SentAll ==
  ASSUME FleetFits, FleetTyped, NEW c \in Runners, SendingEnds(c)
  PROVE  /\ config' = config /\ flagged' = flagged /\ doing[c] = "send"
         /\ \E t \in Ticks :
              /\ Done(c, "review", t) /\ t.met = tick[c].met /\ t.began = tick[c].began /\ t.labelled = tick[c].labelled
              /\ t.alarms = tick[c].alarms /\ t.handled = tick[c].handled
<1> DEFINE t == tick[c]  u == [t EXCEPT !.plan = <<>>, !.seen = NoTick.seen, !.refused = {}]
<1> USE AllGood
<1>1. doing[c] = "send" /\ t \in Ticks /\ Good(c) /\ UNCHANGED <<Store, fleet, now>> /\ GoesOn(c, "review", u)
  BY DEF SendingEnds, Doing, Good, Outside
<1>2. NoTick.seen \in [Projects -> {"observe", "enforce"}]  BY NoTickTyped DEF Ticks
<1>3. <<>> \in Seq(FleetCalls)  OBVIOUS
<1>4. /\ u \in Ticks /\ u.plan = <<>> /\ u.labelled = t.labelled /\ u.clock = t.clock /\ u.todo = t.todo /\ u.act = t.act
      /\ u.met = t.met /\ u.began = t.began /\ u.alarms = t.alarms /\ u.handled = t.handled
  BY <1>1, <1>2, <1>3 DEF Ticks
<1> HIDE DEF u
<1>5. InHand("review", u, Len(flagged), now) /\ Pass("review", u)  BY <1>1, <1>4 DEF Good, InHand, Pass
<1>6. Done(c, "review", u) /\ config' = config /\ flagged' = flagged  BY <1>1, <1>4, <1>5, DoneOn DEF Places
<1> QED  BY <1>1, <1>4, <1>6

LEMMA LabellingTyped ==
  ASSUME FleetFits, FleetTyped, NEW c \in Runners, NEW at \in {"review", "label"}, doing[c] = at,
         NEW i \in tick[c].todo, LabelsRow(c, i, at)
  PROVE  /\ config' = config /\ i \in 1..Len(flagged) /\ Len(flagged)' = Len(flagged) /\ flagged'[i].review = LabelFor(flagged[i])
         /\ \/ /\ Done(c, at, WithLabel(tick[c], i))
               /\ flagged' = [flagged EXCEPT ![i].review = LabelFor(flagged[i]), ![i].counted = LabelFor(flagged[i])]
            \/ Done(c, at, Meets(WithLabel(tick[c], i), "fault"))
<1> DEFINE t == tick[c]  u == WithLabel(t, i)
<1> USE AllGood
<1>1. /\ t \in Ticks /\ Good(c) /\ fleet' = fleet /\ now' = now /\ config' = config /\ i \in 1..Len(flagged)
      /\ flagged \in Seq(FlaggedRows)
  BY DEF LabelsRow, Outside, Good, InHand, Typed
<1>2. u \in Ticks  BY <1>1, WithLabelTyped
<1>3. u.plan = t.plan /\ u.clock = t.clock /\ u.todo = t.todo \ {i} /\ u.act = t.act /\ u.labelled = t.labelled \cup {i} /\ u.project = t.project
  BY <1>1 DEF WithLabel, Ticks
<1> HIDE DEF u
<1>4. InHand(at, u, Len(flagged), now) /\ Pass(at, u)  BY <1>1, <1>3 DEF Good, InHand, Pass
<1> DEFINE f == Meets(u, "fault")
<1>5. f \in Ticks /\ InHand(at, f, Len(flagged), now) /\ Pass(at, f)
  <2>1. f \in Ticks /\ SameBatch(f, u) /\ f.todo = u.todo /\ f.act = u.act /\ f.project = u.project  BY <1>2, Meeting
  <2> HIDE DEF f
  <2> QED  BY <1>4, <2>1 DEF InHand, Pass, SameBatch
<1> DEFINE word == LabelFor(flagged[i])
<1>6. word \in {"none", "correct", "false_alarm"}  BY DEF LabelFor
<1>7. \/ GoesOn(c, at, u) /\ flagged' = [flagged EXCEPT ![i].review = word, ![i].counted = word]
      \/ GoesOn(c, at, f) /\ flagged' = [flagged EXCEPT ![i].review = word]
  BY DEF LabelsRow, u
<1>8. Grown /\ RowsFit(flagged') /\ Len(flagged)' = Len(flagged) /\ LabelsKept
  <2> HIDE DEF word, f
  <2>1. Grown /\ RowsFit(flagged') /\ Len(flagged)' = Len(flagged) /\ (word = LabelFor(flagged[i]) => LabelsKept)
    BY <1>6, <1>7, OneLabelled
  <2> QED  BY <2>1 DEF word
<1>9. flagged'[i].review = word
  <2> HIDE DEF word, f
  <2>1. flagged[i] \in FlaggedRows /\ flagged \in [1..Len(flagged) -> FlaggedRows]  BY <1>1
  <2>2. flagged'[i] = [[flagged[i] EXCEPT !.review = word] EXCEPT !.counted = word] \/ flagged'[i] = [flagged[i] EXCEPT !.review = word]
    BY <1>1, <1>7, <2>1
  <2> QED  BY <2>1, <2>2 DEF FlaggedRows
<1>10. at \in Places  BY DEF Places
<1> HIDE DEF f, word
<1>11. CASE GoesOn(c, at, u) /\ flagged' = [flagged EXCEPT ![i].review = word, ![i].counted = word]
  <2>1. Moved(c, at, u)  BY <1>1, <1>2, <1>8, <1>10, <1>11, MovedOn
  <2> QED  BY <1>1, <1>4, <1>8, <1>9, <1>11, <2>1 DEF Done, u, word
<1>12. CASE GoesOn(c, at, f)
  <2>1. Moved(c, at, f)  BY <1>1, <1>5, <1>8, <1>10, <1>12, MovedOn
  <2> QED  BY <1>1, <1>5, <1>8, <1>9, <2>1 DEF Done, f, u, word
<1> QED  BY <1>7, <1>11, <1>12

(* What a tick leaves as it was, in its own hand. *)
Alike(u, t) == u.began = t.began /\ u.alarms = t.alarms /\ u.labelled = t.labelled /\ u.clock = t.clock

Still == config' = config /\ flagged' = flagged

LEMMA Reviewing ==
  ASSUME FleetFits, FleetTyped, NEW c \in Runners, ReviewNow(c)
  PROVE  /\ doing[c] = "review" /\ config' = config
         /\ \/ \E i \in tick[c].todo : LabelFor(flagged[i]) # "none" /\ LabelsRow(c, i, "review")
            \/ \E u \in Ticks : Done(c, "review", u) /\ Still /\ Alike(u, tick[c]) /\ u.met = tick[c].met /\ u.handled = tick[c].handled
<1> DEFINE t == tick[c]  i == Min(t.todo)
<1> USE AllGood
<1>1. doing[c] = "review" /\ t \in Ticks /\ Good(c) /\ t.todo # {} /\ t.todo \subseteq 1..Len(flagged) /\ t.act = "none"
  BY DEF ReviewNow, Good, Doing, InHand, Pass
<1>2. i \in t.todo  BY <1>1, SmallestAndLargest
<1>3. CASE LabelFor(flagged[i]) # "none" /\ LabelsRow(c, i, "review")
  <2>1. config' = config  BY <1>3 DEF LabelsRow
  <2> QED  BY <1>1, <1>2, <1>3, <2>1
<1>4. CASE Passed(c, "review", [t EXCEPT !.todo = @ \ {i}])
  <2> DEFINE u == [t EXCEPT !.todo = @ \ {i}]
  <2>1. /\ u \in Ticks /\ SameBatch(u, t) /\ u.todo = t.todo \ {i} /\ u.act = t.act /\ u.project = t.project
        /\ Alike(u, t) /\ u.met = t.met /\ u.handled = t.handled
    BY <1>1 DEF Ticks, SameBatch, Alike
  <2>2. GoesOn(c, "review", u) /\ UNCHANGED <<Store, Outside>>  BY <1>4 DEF Passed
  <2> HIDE DEF u
  <2>3. Done(c, "review", u) /\ config' = config /\ flagged' = flagged
    BY <1>1, <2>1, <2>2, Onward DEF Places, Pass, ForProject, Good
  <2> QED  BY <1>1, <2>1, <2>3 DEF Still
<1> QED  BY <1>3, <1>4 DEF ReviewNow

LEMMA PassedOn ==
  ASSUME FleetFits, FleetTyped, NEW c \in Runners, NEW at \in Places \ {"configure", "create"}, Passed(c, at, tick[c]),
         at \notin {"send", "review", "label"}, at \notin ForProject, Pass(at, tick[c])
  PROVE  Done(c, at, tick[c]) /\ Still
<1>1. tick[c] \in Ticks /\ (tick[c].act = "promote" => tick[c].project \in fleet)  BY AllGood DEF Good, InHand
<1> QED  BY <1>1, Onward DEF Passed, SameBatch, Still

LEMMA Looking ==
  ASSUME FleetFits, FleetTyped, NEW c \in Runners, LookNoisy(c)
  PROVE  /\ doing[c] = "noisy" /\ Still
         /\ \E p \in tick[c].alarms \ tick[c].handled, at \in {"noisy", "noisy_load"}, u \in Ticks :
              LET noisy == {r \in WatchedRules : State(p, r) = "noisy" /\ Enforces(config[p], r)} IN
              /\ Done(c, at, u) /\ Alike(u, tick[c]) /\ u.handled = tick[c].handled \cup {p} /\ u.act = tick[c].act
              /\ \/ at = "noisy" /\ StageOf(tick[c].began[p]) # "enforce" /\ u.met = tick[c].met
                 \/ at = "noisy" /\ u.met = tick[c].met \cup {"fault"}
                 \/ at = "noisy" /\ noisy = {} /\ u.met = tick[c].met
                 \/ /\ at = "noisy_load" /\ u.project = p /\ u.rules = noisy /\ u.met = tick[c].met
                    /\ StageOf(tick[c].began[p]) = "enforce"
<1> DEFINE t == tick[c]
<1> USE AllGood
<1>1. doing[c] = "noisy" /\ t \in Ticks /\ Good(c) /\ UNCHANGED <<Store, Outside>> /\ Still /\ t.act # "promote"
  BY DEF LookNoisy, Good, Doing, Store, Still, Pass
<1>2. PICK p \in t.alarms \ t.handled :
         LET had == [t EXCEPT !.handled = @ \cup {p}]
             noisy == {r \in WatchedRules : State(p, r) = "noisy" /\ Enforces(config[p], r)} IN
           IF StageOf(t.began[p]) # "enforce" THEN Works /\ GoesOn(c, "noisy", had)
           ELSE \/ Fails /\ GoesOn(c, "noisy", Meets(had, "fault"))
                \/ Works /\ IF noisy = {} THEN GoesOn(c, "noisy", had)
                            ELSE GoesOn(c, "noisy_load", [had EXCEPT !.project = p, !.rules = noisy])
  BY DEF LookNoisy
<1> DEFINE had == [t EXCEPT !.handled = @ \cup {p}]
           noisy == {r \in WatchedRules : State(p, r) = "noisy" /\ Enforces(config[p], r)}
           load == [had EXCEPT !.project = p, !.rules = noisy]
           fault == Meets(had, "fault")
<1>3. p \in fleet /\ p \in Projects /\ noisy \subseteq WatchedRules  BY <1>1, FleetConstants DEF Ticks
<1>4. /\ had \in Ticks /\ SameBatch(had, t) /\ Alike(had, t) /\ had.handled = t.handled \cup {p} /\ had.act = t.act
      /\ had.met = t.met /\ had.todo = t.todo
  BY <1>1, <1>3 DEF Ticks, SameBatch, Alike
<1> HIDE DEF noisy, had
<1>5. /\ load \in Ticks /\ SameBatch(load, t) /\ Alike(load, t) /\ load.handled = t.handled \cup {p} /\ load.act = t.act
      /\ load.met = t.met /\ load.project = p /\ load.rules = noisy
  BY <1>3, <1>4 DEF Ticks, SameBatch, Alike
<1>6. /\ fault \in Ticks /\ SameBatch(fault, t) /\ Alike(fault, t) /\ fault.handled = t.handled \cup {p} /\ fault.act = t.act
      /\ fault.met = t.met \cup {"fault"}
  BY <1>4, Meeting DEF SameBatch, Alike
<1> HIDE DEF load, fault, t
<1>7. GoesOn(c, "noisy", had) => Done(c, "noisy", had)
  BY <1>1, <1>4, Onward DEF Places, Pass, ForProject, t
<1>8. GoesOn(c, "noisy", fault) => Done(c, "noisy", fault)
  BY <1>1, <1>6, Onward DEF Places, Pass, ForProject, t
<1>9. GoesOn(c, "noisy_load", load) => Done(c, "noisy_load", load)
  BY <1>1, <1>3, <1>5, Onward DEF Places, Pass, ForProject, t
<1>10. \/ StageOf(t.began[p]) # "enforce" /\ GoesOn(c, "noisy", had)
       \/ GoesOn(c, "noisy", fault)
       \/ noisy = {} /\ GoesOn(c, "noisy", had)
       \/ StageOf(t.began[p]) = "enforce" /\ GoesOn(c, "noisy_load", load)
  BY <1>2 DEF had, noisy, load, fault, t
<1>11. \E at \in {"noisy", "noisy_load"}, u \in Ticks :
              /\ Done(c, at, u) /\ Alike(u, t) /\ u.handled = t.handled \cup {p} /\ u.act = t.act
              /\ \/ at = "noisy" /\ StageOf(t.began[p]) # "enforce" /\ u.met = t.met
                 \/ at = "noisy" /\ u.met = t.met \cup {"fault"}
                 \/ at = "noisy" /\ noisy = {} /\ u.met = t.met
                 \/ at = "noisy_load" /\ u.project = p /\ u.rules = noisy /\ u.met = t.met /\ StageOf(t.began[p]) = "enforce"
  BY <1>4, <1>5, <1>6, <1>7, <1>8, <1>9, <1>10
<1> QED  BY <1>1, <1>2, <1>11 DEF t, noisy

(* A configuration is read to be changed, or the read fails and the change *)
(* is given up.                                                            *)
Loaded(c, from, to, back, act) ==
  /\ doing[c] = from /\ Still /\ tick[c].project \in fleet
  /\ \/ \E u \in Ticks :
          /\ Done(c, to, u) /\ Alike(u, tick[c]) /\ u.handled = tick[c].handled /\ u.met = tick[c].met
          /\ u.held = config[tick[c].project] /\ u.project = tick[c].project /\ u.rules = tick[c].rules /\ u.act = tick[c].act
     \/ \E u \in Ticks :
          /\ Done(c, back, u) /\ Alike(u, tick[c]) /\ u.handled = tick[c].handled /\ u.met = tick[c].met \cup {"fault"}
          /\ u.act = act

LEMMA Loading ==
  ASSUME FleetFits, FleetTyped, NEW c \in Runners, NEW from, NEW to \in Places \ {"configure", "create", "send", "review", "label"},
         NEW back \in {"noisy", "sweep"}, NEW dropped \in {Dropped(tick[c]), Acted(tick[c])},
         Loads(c, from, to, back, dropped), tick[c].project \in fleet, Pass(to, tick[c]),
         Pass(back, dropped), dropped.act # "promote"
  PROVE  Loaded(c, from, to, back, dropped.act)
<1> DEFINE t == tick[c]  u == [t EXCEPT !.held = config[t.project]]  f == Meets(dropped, "fault")
<1> USE AllGood
<1>1. doing[c] = from /\ t \in Ticks /\ UNCHANGED <<Store, Outside>> /\ Still /\ t.project \in Projects
  BY FleetConstants DEF Loads, Good, Doing, Store, Still
<1>2. config[t.project] \in Configurations  BY <1>1 DEF Typed
<1>3. /\ u \in Ticks /\ SameBatch(u, t) /\ Alike(u, t) /\ u.handled = t.handled /\ u.met = t.met
      /\ u.held = config[t.project] /\ u.project = t.project /\ u.rules = t.rules /\ u.act = t.act
  BY <1>1, <1>2 DEF Ticks, SameBatch, Alike
<1>4. /\ dropped \in Ticks /\ SameBatch(dropped, t) /\ Alike(dropped, t) /\ dropped.handled = t.handled /\ dropped.met = t.met
  BY <1>1, Dropping DEF SameBatch, Alike
<1>5. /\ f \in Ticks /\ SameBatch(f, t) /\ Alike(f, t) /\ f.handled = t.handled /\ f.met = t.met \cup {"fault"} /\ f.act = dropped.act
  BY <1>4, Meeting DEF SameBatch, Alike
<1>6. GoesOn(c, to, u) \/ GoesOn(c, back, f)  BY DEF Loads
<1> HIDE DEF t, u, f
<1>7. GoesOn(c, to, u) => Done(c, to, u)
  <2>1. Pass(to, u)  BY <1>3 DEF Pass, t
  <2> QED  BY <1>1, <1>3, <2>1, Onward DEF t
<1>8. GoesOn(c, back, f) => Done(c, back, f)
  <2>1. Pass(back, f) /\ f.act # "promote"  BY <1>5 DEF Pass
  <2> QED  BY <1>1, <1>5, <2>1, Onward DEF t, Places, ForProject
<1> QED  BY <1>1, <1>3, <1>5, <1>6, <1>7, <1>8 DEF t, Loaded

-----------------------------------------------------------------------------
(* A configuration a tick saves is the one it holds, but for what it set.  *)
LEMMA SavingIts ==
  ASSUME FleetFits, FleetTyped, NEW c \in Runners, NEW at \in {"noisy", "sweep"}, NEW cfg \in Configurations,
         NEW u \in {Dropped(tick[c]), Acted(tick[c])}, tick[c].project \in fleet, Pass(at, u), u.act # "promote",
         SavesAs(c, at, u, tick[c].project, cfg), UNCHANGED <<flagged, watched, Outside>>
  PROVE  /\ Done(c, at, u) /\ flagged' = flagged /\ u \in Ticks /\ Alike(u, tick[c])
         /\ u.met = tick[c].met /\ u.handled = tick[c].handled
         /\ config'[tick[c].project] = cfg
         /\ \A q \in fleet : q # tick[c].project => config'[q] = config[q]
<1> USE AllGood
<1>1. /\ tick[c] \in Ticks /\ u \in Ticks /\ SameBatch(u, tick[c]) /\ Alike(u, tick[c]) /\ u.todo = tick[c].todo
      /\ u.met = tick[c].met /\ u.handled = tick[c].handled
  BY Dropping DEF Good, SameBatch, Alike
<1>2. fleet \subseteq Projects  BY FleetConstants
<1>3. InHand(at, u, Len(flagged), now)
  BY <1>1 DEF InHand, Good, SameBatch
<1> HIDE DEF Good
<1>4. at \in Places  BY DEF Places
<1>5. /\ Done(c, at, u) /\ flagged' = flagged /\ config'[tick[c].project] = cfg
      /\ \A q \in Projects : q # tick[c].project => config'[q] = config[q]
  BY <1>1, <1>2, <1>3, <1>4, DoneSaving
<1> QED  BY <1>1, <1>2, <1>5

LEMMA HeldIsOne == ASSUME FleetTyped, NEW c \in Runners PROVE tick[c].held \in Configurations /\ tick[c].clock \in Nat
                     /\ tick[c].rules \subseteq WatchedRules /\ tick[c] \in Ticks
  BY AllGood DEF Good, Ticks

LEMMA SavingNoisy ==
  ASSUME FleetFits, FleetTyped, NEW c \in Runners, SaveNoisy(c)
  PROVE  LET t == tick[c] IN
         /\ doing[c] = "noisy_save" /\ t.project \in fleet /\ flagged' = flagged
         /\ Done(c, "noisy", Dropped(t)) /\ Alike(Dropped(t), t) /\ Dropped(t).met = t.met /\ Dropped(t).handled = t.handled
         /\ config'[t.project].stage = t.held.stage /\ config'[t.project].observing = t.held.observing \cup t.rules
         /\ \A q \in fleet : q # t.project => config'[q] = config[q]
<1> DEFINE cfg == [tick[c].held EXCEPT !.observing = @ \cup tick[c].rules]
<1> USE AllGood
<1>1. doing[c] = "noisy_save" /\ tick[c].project \in fleet /\ tick[c].act # "promote" /\ tick[c] \in Ticks
  BY DEF SaveNoisy, Doing, Good, InHand, Pass
<1>2. cfg \in Configurations /\ cfg.stage = tick[c].held.stage /\ cfg.observing = tick[c].held.observing \cup tick[c].rules
  BY HeldIsOne DEF Configurations
<1>3. SavesAs(c, "noisy", Dropped(tick[c]), tick[c].project, cfg) /\ UNCHANGED <<flagged, watched, Outside>>
  BY DEF SaveNoisy
<1> HIDE DEF cfg
<1>4. Dropped(tick[c]).act # "promote" /\ Pass("noisy", Dropped(tick[c]))  BY <1>1, Dropping DEF Pass
<1> QED  BY <1>1, <1>2, <1>3, <1>4, SavingIts

LEMMA SavingDemoted ==
  ASSUME FleetFits, FleetTyped, NEW c \in Runners, SaveDemoted(c)
  PROVE  LET t == tick[c] IN
         /\ doing[c] = "demote_save" /\ t.project \in fleet /\ flagged' = flagged
         /\ Done(c, "sweep", Acted(t)) /\ Alike(Acted(t), t) /\ Acted(t).met = t.met /\ Acted(t).handled = t.handled
         /\ Acted(t).act = "swept"
         /\ config'[t.project].stage = "observe"
         /\ \A q \in fleet : q # t.project => config'[q] = config[q]
<1> DEFINE cfg == [tick[c].held EXCEPT !.stage = "observe", !.demoted = tick[c].clock]
<1> USE AllGood
<1>1. doing[c] = "demote_save" /\ tick[c].project \in fleet /\ tick[c] \in Ticks
  BY DEF SaveDemoted, Doing, Good, InHand
<1>2. cfg \in Configurations /\ cfg.stage = "observe"
  BY HeldIsOne DEF Configurations
<1>3. SavesAs(c, "sweep", Acted(tick[c]), tick[c].project, cfg) /\ UNCHANGED <<flagged, watched, Outside>>
  BY DEF SaveDemoted
<1> HIDE DEF cfg
<1>4. Acted(tick[c]).act = "swept" /\ Pass("sweep", Acted(tick[c]))  BY <1>1, Dropping DEF Pass
<1> QED  BY <1>1, <1>2, <1>3, <1>4, SavingIts

LEMMA SavingPromoted ==
  ASSUME FleetFits, FleetTyped, NEW c \in Runners, SavePromoted(c)
  PROVE  LET t == tick[c] IN
         /\ doing[c] = "promote_save" /\ t.project \in fleet /\ flagged' = flagged /\ t.act = "promote"
         /\ Done(c, "sweep", Acted(t)) /\ Alike(Acted(t), t) /\ Acted(t).met = t.met /\ Acted(t).handled = t.handled
         /\ Acted(t).act = "swept"
         /\ config'[t.project].observing = WatchedRules \ t.rules
         /\ \A q \in fleet : q # t.project => config'[q] = config[q]
<1> DEFINE cfg == [tick[c].held EXCEPT !.stage = "enforce", !.observing = WatchedRules \ tick[c].rules, !.promoted = tick[c].clock]
<1> USE AllGood
<1>1. doing[c] = "promote_save" /\ tick[c].act = "promote" /\ tick[c].project \in fleet /\ tick[c] \in Ticks
  BY DEF SavePromoted, Doing, Good, InHand, Pass
<1>2. cfg \in Configurations /\ cfg.observing = WatchedRules \ tick[c].rules
  BY HeldIsOne DEF Configurations
<1>3. SavesAs(c, "sweep", Acted(tick[c]), tick[c].project, cfg) /\ UNCHANGED <<flagged, watched, Outside>>
  BY DEF SavePromoted
<1> HIDE DEF cfg
<1>4. Acted(tick[c]).act = "swept" /\ Pass("sweep", Acted(tick[c]))  BY <1>1, Dropping DEF Pass
<1> QED  BY <1>1, <1>2, <1>3, <1>4, SavingIts

-----------------------------------------------------------------------------
LEMMA Choosing ==
  ASSUME FleetFits, FleetTyped, NEW c \in Runners, ChooseStage(c)
  PROVE  /\ doing[c] = "stage" /\ Still
         /\ \E at \in {"sweep", "promote", "demote_load"}, u \in Ticks :
              /\ Done(c, at, u) /\ Alike(u, tick[c]) /\ u.met = tick[c].met /\ u.handled = tick[c].handled
              /\ at = "sweep" => u.act = "swept"
<1> DEFINE t == tick[c]
<1> USE AllGood
<1>1. doing[c] = "stage" /\ t \in Ticks /\ UNCHANGED <<Store, Outside>> /\ Still /\ t.act = "none"
  BY DEF ChooseStage, Good, Doing, Store, Still, Pass
<1>2. CASE GoesOn(c, "sweep", Acted(t))
  <2> DEFINE u == Acted(t)
  <2>1. u \in Ticks /\ SameBatch(u, t) /\ Alike(u, t) /\ u.met = t.met /\ u.handled = t.handled /\ u.act = "swept"
    BY <1>1, Dropping DEF SameBatch, Alike
  <2> HIDE DEF u
  <2>2. Done(c, "sweep", u)  BY <1>1, <1>2, <2>1, Onward DEF Places, Pass, ForProject, u
  <2> QED  BY <1>1, <2>1, <2>2
<1>3. ASSUME NEW at \in {"promote", "demote_load"}, NEW p \in fleet, GoesOn(c, at, [t EXCEPT !.project = p])
      PROVE  \E u \in Ticks : Done(c, at, u) /\ Alike(u, t) /\ u.met = t.met /\ u.handled = t.handled
  <2> DEFINE u == [t EXCEPT !.project = p]
  <2>1. u \in Ticks /\ SameBatch(u, t) /\ Alike(u, t) /\ u.met = t.met /\ u.handled = t.handled /\ u.act = "none" /\ u.project = p
    BY <1>1, FleetConstants DEF Ticks, SameBatch, Alike
  <2>2. GoesOn(c, at, u)  BY <1>3
  <2> HIDE DEF u
  <2>3. Done(c, at, u)  BY <1>1, <1>3, <2>1, <2>2, Onward DEF Places, Pass, ForProject
  <2> QED  BY <2>1, <2>3
<1>4. MayPromote(t) \subseteq fleet /\ MayDemote(t) \subseteq fleet  BY DEF MayPromote, MayDemote, Enforcing
<1>5. CASE \E p \in MayPromote(t) : GoesOn(c, "promote", [t EXCEPT !.project = p])
  <2> QED  BY <1>1, <1>3, <1>4, <1>5
<1>6. CASE \E p \in MayDemote(t) : GoesOn(c, "demote_load", [t EXCEPT !.project = p])
  <2> QED  BY <1>1, <1>3, <1>4, <1>6
<1> QED  BY <1>2, <1>5, <1>6 DEF ChooseStage

(* The step that gives a promotion up, whether it failed or not.           *)
LEMMA GivingUp ==
  ASSUME FleetFits, FleetTyped, NEW c \in Runners, UNCHANGED <<Store, Outside>>,
         GoesOn(c, "sweep", Acted(tick[c])) \/ GoesOn(c, "sweep", Meets(Acted(tick[c]), "fault"))
  PROVE  \E u \in Ticks :
           /\ Done(c, "sweep", u) /\ Still /\ Alike(u, tick[c]) /\ tick[c].met \subseteq u.met /\ u.handled = tick[c].handled
           /\ u.act = "swept"
<1> DEFINE t == tick[c]  u == Acted(t)  f == Meets(u, "fault")
<1> USE AllGood
<1>1. t \in Ticks  BY DEF Good
<1>2. u \in Ticks /\ SameBatch(u, t) /\ Alike(u, t) /\ u.met = t.met /\ u.handled = t.handled /\ u.act = "swept"
  BY <1>1, Dropping DEF SameBatch, Alike
<1> HIDE DEF u
<1>3. /\ f \in Ticks /\ SameBatch(f, t) /\ Alike(f, t) /\ f.met = t.met \cup {"fault"} /\ f.handled = t.handled
      /\ f.act = "swept"
  BY <1>2, Meeting DEF SameBatch, Alike
<1> HIDE DEF f, t
<1>4. GoesOn(c, "sweep", u) => Done(c, "sweep", u)  BY <1>2, Onward DEF Places, Pass, ForProject, t
<1>5. GoesOn(c, "sweep", f) => Done(c, "sweep", f)  BY <1>3, Onward DEF Places, Pass, ForProject, t
<1>6. Still  BY DEF Store, Still
<1>7. GoesOn(c, "sweep", u) \/ GoesOn(c, "sweep", f)  BY DEF t, u, f
<1> QED  BY <1>2, <1>3, <1>4, <1>5, <1>6, <1>7 DEF t

LEMMA Promoting ==
  ASSUME FleetFits, FleetTyped, NEW c \in Runners, Promote(c)
  PROVE  /\ doing[c] = "promote" /\ Still
         /\ \E u \in Ticks :
              /\ Done(c, "sweep", u) /\ Alike(u, tick[c]) /\ tick[c].met \subseteq u.met /\ u.handled = tick[c].handled
              /\ u.act = "promote" \/ u.act = "swept"
<1> DEFINE t == tick[c]  u == [t EXCEPT !.act = "promote"]
<1> USE AllGood
<1>1. doing[c] = "promote" /\ t \in Ticks /\ UNCHANGED <<Store, Outside>> /\ Still /\ t.project \in fleet
  BY DEF Promote, Good, Doing, Store, Still, InHand
<1>2. CASE GoesOn(c, "sweep", Acted(t)) \/ GoesOn(c, "sweep", Meets(Acted(t), "fault"))
  BY <1>1, <1>2, GivingUp
<1>3. CASE GoesOn(c, "sweep", u)
  <2>1. /\ u \in Ticks /\ SameBatch(u, t) /\ Alike(u, t) /\ u.met = t.met /\ u.handled = t.handled /\ u.act = "promote"
        /\ u.project = t.project
    BY <1>1 DEF Ticks, SameBatch, Alike
  <2> HIDE DEF u
  <2>2. Done(c, "sweep", u)  BY <1>1, <1>3, <2>1, Onward DEF Places, Pass, ForProject
  <2> QED  BY <1>1, <2>1, <2>2
<1> QED  BY <1>2, <1>3 DEF Promote

LEMMA ReadingRules ==
  ASSUME FleetFits, FleetTyped, NEW c \in Runners, ReadRules(c)
  PROVE  /\ doing[c] = "rules" /\ Still
         /\ \/ \E u \in Ticks :
                 /\ Done(c, "sweep", u) /\ Alike(u, tick[c]) /\ tick[c].met \subseteq u.met /\ u.handled = tick[c].handled
                 /\ u.act = "swept"
            \/ \E u \in Ticks :
                 /\ Done(c, "promote_load", u) /\ Alike(u, tick[c]) /\ u.met = tick[c].met /\ u.handled = tick[c].handled
                 /\ u.act = "promote" /\ u.project = tick[c].project /\ u.rules = PromotedRules(u.project)
<1> DEFINE t == tick[c]  u == [t EXCEPT !.rules = PromotedRules(t.project)]
<1> USE AllGood
<1>1. /\ doing[c] = "rules" /\ t \in Ticks /\ UNCHANGED <<Store, Outside>> /\ Still /\ t.act = "promote"
      /\ t.project \in fleet
  BY DEF ReadRules, Good, Doing, Store, Still, InHand, Pass
<1>2. CASE GoesOn(c, "sweep", Acted(t)) \/ GoesOn(c, "sweep", Meets(Acted(t), "fault"))
  BY <1>1, <1>2, GivingUp
<1>3. CASE GoesOn(c, "promote_load", u)
  <2>0. PromotedRules(t.project) \subseteq WatchedRules  BY DEF PromotedRules
  <2>1. /\ u \in Ticks /\ SameBatch(u, t) /\ Alike(u, t) /\ u.met = t.met /\ u.handled = t.handled /\ u.act = "promote"
        /\ u.project = t.project /\ u.rules = PromotedRules(t.project)
    BY <1>1, <2>0 DEF Ticks, SameBatch, Alike
  <2> HIDE DEF u
  <2>2. Done(c, "promote_load", u)  BY <1>1, <1>3, <2>1, Onward DEF Places, Pass, ForProject
  <2> QED  BY <1>1, <2>1, <2>2
<1> QED  BY <1>2, <1>3 DEF ReadRules

LEMMA SweepReading ==
  ASSUME FleetFits, FleetTyped, NEW c \in Runners, SweepRead(c)
  PROVE  LET t == tick[c] IN
         /\ doing[c] = "sweep" /\ Still
         /\ \E u \in Ticks :
              /\ Done(c, "label", u) /\ Alike(u, t) /\ u.handled = t.handled /\ u.act = t.act /\ u.project = t.project
              /\ u.todo = Queue(t) /\ t.met \subseteq u.met
              /\ Cardinality(WithinHorizon(t)) > RowBudget => "full" \in u.met
<1> DEFINE t == tick[c]  u == [t EXCEPT !.todo = Queue(t)]  f == Meets(u, "full")
<1> USE AllGood
<1>1. /\ doing[c] = "sweep" /\ t \in Ticks /\ UNCHANGED <<Store, Outside>> /\ Still /\ t.act # "none"
      /\ (t.act = "promote" => t.project \in fleet)
  BY DEF SweepRead, Good, Doing, Store, Still, InHand, Pass
<1>2. Queue(t) \subseteq 1..Len(flagged)
  <2>1. DOMAIN flagged = 1..Len(flagged)  BY DEF Typed
  <2> QED  BY <2>1 DEF Queue, Reached, WithinHorizon
<1>2a. Queue(t) \in SUBSET (fleet \cup Nat)  BY <1>2
<1>3. /\ u \in Ticks /\ SameBatch(u, t) /\ Alike(u, t) /\ u.met = t.met /\ u.handled = t.handled /\ u.act = t.act
      /\ u.project = t.project /\ u.todo = Queue(t)
  BY <1>1, <1>2a DEF Ticks, SameBatch, Alike
<1> HIDE DEF u
<1>4. /\ f \in Ticks /\ SameBatch(f, t) /\ Alike(f, t) /\ f.met = t.met \cup {"full"} /\ f.handled = t.handled /\ f.act = t.act
      /\ f.project = t.project /\ f.todo = Queue(t)
  BY <1>3, Meeting DEF SameBatch, Alike
<1> HIDE DEF f, t
<1>5. GoesOn(c, "label", u) => Done(c, "label", u)  BY <1>1, <1>2, <1>3, Onward DEF Places, Pass, ForProject, t
<1>6. GoesOn(c, "label", f) => Done(c, "label", f)  BY <1>1, <1>2, <1>4, Onward DEF Places, Pass, ForProject, t
<1>7. GoesOn(c, "label", IF Cardinality(WithinHorizon(t)) > RowBudget THEN f ELSE u)  BY DEF SweepRead, t, u, f
<1> QED  BY <1>1, <1>3, <1>4, <1>5, <1>6, <1>7 DEF t

LEMMA SweepLabelling ==
  ASSUME FleetFits, FleetTyped, NEW c \in Runners, SweepLabel(c)
  PROVE  /\ doing[c] = "label" /\ config' = config
         /\ \E i \in tick[c].todo : LabelsRow(c, i, "label")
<1> USE AllGood
<1>1. doing[c] = "label" /\ tick[c].todo # {} /\ tick[c].todo \subseteq 1..Len(flagged) /\ LabelsRow(c, Max(tick[c].todo), "label")
  BY DEF SweepLabel, Good, Doing, InHand
<1>2. Max(tick[c].todo) \in tick[c].todo  BY <1>1, SmallestAndLargest
<1>3. config' = config  BY <1>1 DEF LabelsRow
<1> QED  BY <1>1, <1>2, <1>3

(* The steps that only go on to the next part of the tick.                 *)
LEMMA GoingOn ==
  ASSUME FleetFits, FleetTyped, NEW c \in Runners
  PROVE  /\ ReviewEnds(c) => doing[c] = "review" /\ Still /\ Done(c, "noisy", tick[c])
         /\ NoisyEnds(c) => /\ doing[c] = "noisy" /\ Still /\ Done(c, AfterNoisy(tick[c]), tick[c])
                            /\ tick[c].alarms \subseteq tick[c].handled
         /\ SweepEnds(c) => /\ doing[c] = "label" /\ Still /\ Done(c, AfterSweep(tick[c]), tick[c])
                            /\ tick[c].todo = {}
<1> DEFINE t == tick[c]
<1> USE AllGood
<1>1. t \in Ticks /\ Good(c) /\ t.act \in {"none", "promote", "swept"}  BY DEF Good, Ticks
<1>2. ASSUME ReviewEnds(c) PROVE doing[c] = "review" /\ Still /\ Done(c, "noisy", t)
  <2>1. doing[c] = "review" /\ Passed(c, "noisy", t) /\ t.act = "none"  BY <1>2 DEF ReviewEnds, Doing, Good, Pass
  <2>2. Pass("noisy", t)  BY <2>1 DEF Pass
  <2> QED  BY <2>1, <2>2, PassedOn DEF Places, ForProject
<1>3. ASSUME NoisyEnds(c)
      PROVE  doing[c] = "noisy" /\ Still /\ Done(c, AfterNoisy(t), t) /\ t.alarms \subseteq t.handled
  <2>1. doing[c] = "noisy" /\ Passed(c, AfterNoisy(t), t) /\ t.act # "promote" /\ t.alarms \subseteq t.handled
    BY <1>3 DEF NoisyEnds, Doing, Good, Pass
  <2>2. Pass(AfterNoisy(t), t) /\ AfterNoisy(t) \in {"stage", "done"}  BY <1>1, <2>1 DEF Pass, AfterNoisy
  <2> QED  BY <2>1, <2>2, PassedOn DEF Places, ForProject
<1>4. ASSUME SweepEnds(c)
      PROVE  doing[c] = "label" /\ Still /\ Done(c, AfterSweep(t), t) /\ t.todo = {}
  <2>1. doing[c] = "label" /\ Passed(c, AfterSweep(t), t) /\ t.act # "none" /\ t.todo = {}
    BY <1>4 DEF SweepEnds, Doing, Good, Pass
  <2>2. Pass(AfterSweep(t), t) /\ AfterSweep(t) \in {"rules", "noisy"}  BY <1>1, <2>1 DEF Pass, AfterSweep
  <2> QED  BY <2>1, <2>2, PassedOn DEF Places, ForProject
<1> QED  BY <1>2, <1>3, <1>4

LEMMA Stopping ==
  ASSUME FleetFits, FleetTyped, NEW c \in Runners, Finish(c) \/ Stops(c)
  PROVE  Done(c, "idle", NoTick) /\ Still
<1>1. TickEnds(c) /\ UNCHANGED <<Store, fleet, now>>  BY DEF Finish, Stops, Outside
<1> QED  BY <1>1, Ending DEF Still

LEMMA LoadingEach ==
  ASSUME FleetFits, FleetTyped, NEW c \in Runners
  PROVE  /\ LoadForNoisy(c) => Loaded(c, "noisy_load", "noisy_save", "noisy", tick[c].act)
         /\ LoadForDemote(c) => Loaded(c, "demote_load", "demote_save", "sweep", "swept")
         /\ LoadForPromote(c) => Loaded(c, "promote_load", "promote_save", "sweep", "swept") /\ tick[c].act = "promote"
<1> DEFINE t == tick[c]
<1> USE AllGood
<1>1. /\ t \in Ticks /\ Good(c) /\ Dropped(t).act = t.act /\ Acted(t).act = "swept"
  BY Dropping DEF Good
<1>2. ASSUME LoadForNoisy(c) PROVE Loaded(c, "noisy_load", "noisy_save", "noisy", t.act)
  <2>1. Loads(c, "noisy_load", "noisy_save", "noisy", Dropped(t)) /\ doing[c] = "noisy_load"  BY <1>2 DEF LoadForNoisy, Loads, Doing
  <2>2. t.project \in fleet /\ t.act # "promote" /\ Pass("noisy_save", t) /\ Pass("noisy", Dropped(t)) /\ Dropped(t).act # "promote"
    BY <1>1, <2>1 DEF Good, InHand, Pass
  <2> QED  BY <1>1, <2>1, <2>2, Loading DEF Places
<1>3. ASSUME LoadForDemote(c) PROVE Loaded(c, "demote_load", "demote_save", "sweep", "swept")
  <2>1. Loads(c, "demote_load", "demote_save", "sweep", Acted(t)) /\ doing[c] = "demote_load"  BY <1>3 DEF LoadForDemote, Loads, Doing
  <2>2. t.project \in fleet /\ Pass("demote_save", t) /\ Pass("sweep", Acted(t)) /\ Acted(t).act # "promote"
    BY <1>1, <2>1 DEF Good, InHand, Pass
  <2> QED  BY <1>1, <2>1, <2>2, Loading DEF Places
<1>4. ASSUME LoadForPromote(c)
      PROVE  Loaded(c, "promote_load", "promote_save", "sweep", "swept") /\ t.act = "promote"
  <2>1. Loads(c, "promote_load", "promote_save", "sweep", Acted(t)) /\ doing[c] = "promote_load"  BY <1>4 DEF LoadForPromote, Loads, Doing
  <2>2. t.project \in fleet /\ t.act = "promote" /\ Pass("promote_save", t) /\ Pass("sweep", Acted(t)) /\ Acted(t).act # "promote"
    BY <1>1, <2>1 DEF Good, InHand, Pass
  <2> QED  BY <1>1, <2>1, <2>2, Loading DEF Places
<1> QED  BY <1>2, <1>3, <1>4

-----------------------------------------------------------------------------
(* Every step of a tick is one of these moves, so what is of its type      *)
(* stays so.                                                               *)
LEMMA EveryStep == ASSUME FleetFits, FleetTyped, NEW c \in Runners, Runs(c) PROVE \E at, u : Done(c, at, u)
<1>1. CASE ClaimTick(c)  BY <1>1, Claiming
<1>2. CASE ReadConfig(c)  BY <1>2, Reading
<1>3. CASE CreateConfig(c)  BY <1>3, Creating
<1>4. CASE SendCall(c) \/ SendingEnds(c)  BY <1>4, Sending, SentAll
<1>5. CASE ReviewNow(c)
  <2>1. CASE \E i \in tick[c].todo : LabelFor(flagged[i]) # "none" /\ LabelsRow(c, i, "review")
    <3>1. doing[c] = "review"  BY <1>5, Reviewing
    <3> QED  BY <2>1, <3>1, LabellingTyped
  <2>2. CASE \E u \in Ticks : Done(c, "review", u)  BY <2>2
  <2> QED  BY <1>5, <2>1, <2>2, Reviewing
<1>6. CASE ReviewEnds(c) \/ NoisyEnds(c) \/ SweepEnds(c)  BY <1>6, GoingOn
<1>7. CASE LookNoisy(c)  BY <1>7, Looking
<1>8. CASE LoadForNoisy(c) \/ LoadForDemote(c) \/ LoadForPromote(c)  BY <1>8, LoadingEach DEF Loaded
<1>9. CASE SaveNoisy(c) \/ SaveDemoted(c) \/ SavePromoted(c)  BY <1>9, SavingNoisy, SavingDemoted, SavingPromoted
<1>10. CASE ChooseStage(c)  BY <1>10, Choosing
<1>11. CASE Promote(c)  BY <1>11, Promoting
<1>12. CASE ReadRules(c)  BY <1>12, ReadingRules
<1>13. CASE SweepRead(c)  BY <1>13, SweepReading
<1>14. CASE SweepLabel(c)
  <2>1. doing[c] = "label" /\ \E i \in tick[c].todo : LabelsRow(c, i, "label")  BY <1>14, SweepLabelling
  <2> QED  BY <2>1, LabellingTyped
<1>15. CASE Finish(c) \/ Stops(c)  BY <1>15, Stopping
<1> QED
  BY <1>1, <1>2, <1>3, <1>4, <1>5, <1>6, <1>7, <1>8, <1>9, <1>10, <1>11, <1>12, <1>13, <1>14, <1>15 DEF Runs

LEMMA StaysInHand ==
  ASSUME NEW at, NEW t, NEW rows \in Nat, NEW more \in Nat, rows <= more, NEW moment \in Nat, NEW later \in Nat, moment <= later,
         t.clock \in Nat, InHand(at, t, rows, moment)
  PROVE  InHand(at, t, more, later)
  BY DEF InHand

LEMMA BesideTyped ==
  ASSUME FleetTyped, NEW d \in Runners, Beside(d), tick' \in [Runners -> Ticks], fleet' = fleet, Grown,
         now' \in Nat, now <= now'
  PROVE  InHand(doing[d], tick[d], Len(flagged), now)' /\ Pass(doing[d], tick[d])'
<1> DEFINE t == tick[d]
<1>1. Good(d) /\ t \in Ticks /\ Len(flagged) \in Nat /\ now \in Nat  BY AllGood DEF Good
<1>2. Len(flagged)' \in Nat /\ Len(flagged) <= Len(flagged)'  BY DEF Grown
<1>3. doing'[d] = doing[d] /\ tick'[d] \in {t, Meets(t, "other")}  BY DEF Beside
<1>4. /\ tick'[d].plan = t.plan /\ tick'[d].todo = t.todo /\ tick'[d].labelled = t.labelled /\ tick'[d].clock = t.clock
      /\ tick'[d].act = t.act /\ tick'[d].project = t.project
  BY <1>1, <1>3, Meeting DEF SameBatch
<1>5. InHand(doing[d], t, Len(flagged), now) /\ Pass(doing[d], t) /\ t.clock \in Nat  BY <1>1 DEF Good, Ticks
<1>6. InHand(doing[d], t, Len(flagged)', now')  BY <1>1, <1>2, <1>5, StaysInHand
<1> HIDE DEF t
<1> QED  BY <1>3, <1>4, <1>5, <1>6 DEF InHand, Pass

LEMMA DoneTyped ==
  ASSUME FleetFits, FleetTyped, NEW c \in Runners, NEW at, NEW u, Done(c, at, u) PROVE FleetTyped'
<1>1. /\ fleet' = fleet /\ now' = now /\ config' \in [Projects -> Configurations] /\ RowsFit(flagged')
      /\ doing' \in [Runners -> Places] /\ tick' \in [Runners -> Ticks] /\ doing'[c] = at /\ tick'[c] = u
      /\ \A d \in Runners : d # c => Beside(d)
  BY DEF Done, Moved
<1>2. FlaggedRows' = FlaggedRows /\ Ticks' = Ticks  BY <1>1 DEF FlaggedRows, Ticks
<1>3. Typed'  BY <1>1, <1>2 DEF Typed, RowsFit, FleetTyped
<1>4. Grown /\ now \in Nat  BY DEF Done, Moved, FleetTyped, Typed
<1>5. ASSUME NEW d \in Runners
      PROVE  InHand(doing[d], tick[d], Len(flagged), now)' /\ Pass(doing[d], tick[d])'
  <2>1. CASE d = c
    <3>1. InHand(at, u, Len(flagged)', now') /\ Pass(at, u)  BY DEF Done
    <3> QED  BY <1>1, <2>1, <3>1 DEF InHand, Pass
  <2>2. CASE d # c  BY <1>1, <1>4, <2>2, BesideTyped
  <2> QED  BY <2>1, <2>2
<1> QED  BY <1>3, <1>5 DEF FleetTyped

(* What is no step of a tick leaves the ticks under way as they are, but   *)
(* for having met another's hand, and then it may take a label back.       *)
Aside ==
  /\ fleet' = fleet /\ now' \in Nat /\ now <= now' /\ config' \in [Projects -> Configurations] /\ RowsFit(flagged') /\ Grown
  /\ Len(flagged)' = Len(flagged)
  /\ doing' = doing /\ tick' \in [Runners -> Ticks]
  /\ \A d \in Runners : Beside(d) /\ (LabelsKept \/ doing[d] = "idle" \/ "other" \in tick'[d].met)

LEMMA StandingAside == ASSUME FleetFits, FleetTyped, Passage \/ ByHand \/ UNCHANGED fleetVars PROVE Aside
<1>0. Typed /\ now \in Nat  BY DEF FleetTyped, Typed
<1>1. CASE Passage \/ UNCHANGED fleetVars
  <2>1. /\ fleet' = fleet /\ now' \in Nat /\ now <= now' /\ config' = config /\ flagged' = flagged /\ doing' = doing /\ tick' = tick
    BY <1>0, <1>1 DEF Passage, fleetVars, Store
  <2>2. Grown /\ LabelsKept /\ RowsFit(flagged')  BY <1>0, <2>1, Unlabelled
  <2> QED  BY <1>0, <2>1, <2>2 DEF Aside, Beside, Typed
<1>2. CASE ByHand
  <2>1. fleet' = fleet /\ now' = now /\ doing' = doing /\ tick' = MetOthers  BY <1>2 DEF ByHand, Outside
  <2>2. \A d \in Runners : MetOthers[d] = (IF doing[d] = "idle" THEN tick[d] ELSE Meets(tick[d], "other"))  BY DEF MetOthers, Doing
  <2>3. ASSUME NEW d \in Runners
        PROVE  Beside(d) /\ tick'[d] \in Ticks /\ (doing[d] = "idle" \/ "other" \in tick'[d].met)
    <3>1. tick[d] \in Ticks  BY <1>0 DEF Typed
    <3>2. Meets(tick[d], "other") \in Ticks /\ "other" \in Meets(tick[d], "other").met  BY <3>1, Meeting
    <3> QED  BY <2>1, <2>2, <3>1, <3>2 DEF Beside
  <2>4. tick' \in [Runners -> Ticks]  BY <2>1, <2>3 DEF MetOthers
  <2>5. Grown /\ RowsFit(flagged') /\ Len(flagged)' = Len(flagged) /\ config' \in [Projects -> Configurations]
    <3>1. CASE /\ \E i \in DOMAIN flagged, word \in {"none", "correct", "false_alarm"} :
                    flagged' = [flagged EXCEPT ![i].review = word, ![i].counted = word]
               /\ UNCHANGED config
      <4>1. PICK i \in DOMAIN flagged, word \in {"none", "correct", "false_alarm"} :
               flagged' = [flagged EXCEPT ![i].review = word, ![i].counted = word]
        BY <3>1
      <4>2. Grown /\ RowsFit(flagged') /\ Len(flagged)' = Len(flagged)  BY <1>0, <4>1, OneLabelled
      <4> QED  BY <1>0, <3>1, <4>2 DEF Typed
    <3>2. CASE /\ \E p \in fleet, stage \in {"observe", "enforce"}, observing \in SUBSET WatchedRules :
                    Saves(p, [config[p] EXCEPT !.stage = stage, !.observing = observing])
               /\ UNCHANGED flagged
      <4>1. PICK p \in fleet, stage \in {"observe", "enforce"}, observing \in SUBSET WatchedRules :
               Saves(p, [config[p] EXCEPT !.stage = stage, !.observing = observing])
        BY <3>2
      <4>2. p \in Projects  BY <1>0, FleetConstants DEF Typed
      <4>3. [config[p] EXCEPT !.stage = stage, !.observing = observing] \in Configurations
        BY <1>0, <4>2 DEF Typed, Configurations
      <4>4. config' \in [Projects -> Configurations]  BY <1>0, <4>1, <4>3 DEF Saves, Typed
      <4> QED  BY <1>0, <3>2, <4>4, Unlabelled
    <3> QED  BY <1>2, <3>1, <3>2 DEF ByHand
  <2> QED  BY <1>0, <2>1, <2>3, <2>4, <2>5 DEF Aside
<1> QED  BY <1>1, <1>2

LEMMA AsideTyped == ASSUME FleetFits, FleetTyped, Aside PROVE FleetTyped'
<1>1. /\ fleet' = fleet /\ now' \in Nat /\ now <= now' /\ config' \in [Projects -> Configurations] /\ RowsFit(flagged') /\ Grown
      /\ doing' = doing /\ tick' \in [Runners -> Ticks] /\ \A d \in Runners : Beside(d)
  BY DEF Aside
<1>2. FlaggedRows' = FlaggedRows /\ Ticks' = Ticks  BY <1>1 DEF FlaggedRows, Ticks
<1>3. Typed'  BY <1>1, <1>2 DEF Typed, RowsFit, FleetTyped
<1> QED  BY <1>1, <1>3, BesideTyped DEF FleetTyped

LEMMA FleetStart == ASSUME FleetFits, FleetInit PROVE FleetTyped
<1>1. fleet \in Fleets  BY DEF FleetInit
<1>2. NoTick \in Ticks /\ NoTick.plan = <<>> /\ NoTick.labelled = {} /\ NoTick.clock = Never /\ NoTick.act = "none"
  BY <1>1, NoTickTyped DEF NoTick
<1>3. config \in [Projects -> Configurations]  BY <1>1, FleetConstants DEF FleetInit
<1>4. flagged \in Seq(FlaggedRows) /\ Len(flagged) = 0  BY DEF FleetInit
<1>5. doing \in [Runners -> Places] /\ tick \in [Runners -> Ticks]  BY <1>2 DEF FleetInit, Places
<1>6. Typed  BY <1>1, <1>3, <1>4, <1>5 DEF Typed, FleetInit
<1>7. \A c \in Runners : doing[c] = "idle" /\ tick[c] = NoTick /\ now = 1  BY DEF FleetInit
<1>8. InHand("idle", NoTick, Len(flagged), 1) /\ Pass("idle", NoTick)  BY <1>2, <1>4 DEF InHand, Pass, Never
<1> QED  BY <1>6, <1>7, <1>8 DEF FleetTyped

LEMMA FleetTypeStep == ASSUME FleetFits, FleetTyped, [FleetNext]_fleetVars PROVE FleetTyped'
<1>1. CASE \E c \in Runners : Runs(c)  BY <1>1, EveryStep, DoneTyped
<1>2. CASE Passage \/ ByHand \/ UNCHANGED fleetVars  BY <1>2, StandingAside, AsideTyped
<1> QED  BY <1>1, <1>2 DEF FleetNext

(* Whatever the ticks do, each has in hand what its step needs and is in   *)
(* the pass it should be in: none looks for noisy rules in the middle of a *)
(* promotion, or ends before its last sweep.                               *)
THEOREM FleetTypeCorrect == FleetFits => (FleetSpec => []FleetTyped)
<1> SUFFICES ASSUME FleetFits PROVE FleetSpec => []FleetTyped  OBVIOUS
<1>1. FleetInit => FleetTyped  BY FleetStart
<1>2. FleetTyped /\ [FleetNext]_fleetVars => FleetTyped'  BY FleetTypeStep
<1> QED  BY <1>1, <1>2, PTL DEF FleetSpec

-----------------------------------------------------------------------------
(* The rows are in the order of their calls.                               *)
Ordered(rows, moment) ==
  \A i, j \in 1..Len(rows) : i <= j => rows[i].at <= rows[j].at /\ rows[j].at <= moment

Old(t, row) == t.clock - row.at >= MinAge /\ t.clock - row.at <= Horizon

Wanted(row) == LabelFor(row) # "none"

(* What a tick labelled stays labelled, and once its last sweep has read   *)
(* the whole queue nothing old enough waits but what it has in hand.       *)
Afterwards == {"label", "noisy", "noisy_load", "noisy_save", "done"}

LabelsStay(at, t, rows) ==
  (at # "idle" /\ "other" \notin t.met) => \A i \in t.labelled : Wanted(rows[i]) => rows[i].review # "none"

Swept(at, t, rows) ==
  (t.act = "swept" /\ at \in Afterwards /\ t.met \cap {"other", "full"} = {}) =>
    \A i \in 1..Len(rows) : Old(t, rows[i]) /\ Wanted(rows[i]) =>
      rows[i].review # "none" \/ (at = "label" /\ i \in t.todo)

SweptInv ==
  /\ Ordered(flagged, now)
  /\ \A c \in Runners : LabelsStay(doing[c], tick[c], flagged) /\ Swept(doing[c], tick[c], flagged)

(* A row says of its call what it said, and a new one is of now.           *)
LEMMA AsMade ==
  ASSUME Typed, Grown, RowsFit(flagged'), NEW i \in 1..Len(flagged)' PROVE
  /\ i \in 1..Len(flagged) =>
       /\ flagged'[i].at = flagged[i].at /\ LabelFor(flagged'[i]) = LabelFor(flagged[i])
       /\ flagged'[i].noise = flagged[i].noise /\ flagged'[i].project = flagged[i].project /\ flagged'[i].rule = flagged[i].rule
       /\ flagged[i].at \in Nat
  /\ i \notin 1..Len(flagged) => flagged'[i].at = now
  /\ i \in Nat /\ Len(flagged) \in Nat /\ Len(flagged)' \in Nat /\ Len(flagged) <= Len(flagged)' /\ flagged'[i].at \in Nat
<1>1. Len(flagged) \in Nat /\ Len(flagged)' \in Nat /\ Len(flagged) <= Len(flagged)'  BY DEF Typed, Grown
<1>2. flagged'[i] \in FlaggedRows  BY DEF RowsFit
<1>3. i \in 1..Len(flagged) => flagged[i] \in FlaggedRows  BY DEF Typed
<1> QED  BY <1>1, <1>2, <1>3 DEF Grown, LabelFor, FlaggedRows

LEMMA RowsOrdered ==
  ASSUME Typed, Grown, RowsFit(flagged'), now' \in Nat, now <= now', Ordered(flagged, now)
  PROVE  Ordered(flagged, now)'
<1> DEFINE rows == flagged'
<1>1. ASSUME NEW i \in 1..Len(rows), NEW j \in 1..Len(rows), i <= j
      PROVE  rows[i].at <= rows[j].at /\ rows[j].at <= now'
  <2>1. now \in Nat /\ Len(flagged) \in Nat  BY DEF Typed
  <2>2. CASE j \in 1..Len(flagged)
    <3>1. i \in 1..Len(flagged)  BY <1>1, <2>1, <2>2
    <3> QED  BY <1>1, <2>1, <2>2, <3>1, AsMade DEF Ordered
  <2>3. CASE j \notin 1..Len(flagged)
    <3>1. rows[j].at = now  BY <2>3, AsMade
    <3>2. CASE i \in 1..Len(flagged)
      <4>1. flagged[i].at <= now /\ rows[i].at = flagged[i].at  BY <2>1, <3>2, AsMade DEF Ordered
      <4> QED  BY <2>1, <3>1, <4>1, AsMade
    <3>3. CASE i \notin 1..Len(flagged)  BY <2>1, <3>1, <3>3, AsMade
    <3> QED  BY <3>2, <3>3
  <2> QED  BY <2>2, <2>3
<1> QED  BY <1>1 DEF Ordered

(* A call made since the tick's clock is too young for it.                 *)
LEMMA TooYoung ==
  ASSUME FleetFits, Typed, Grown, RowsFit(flagged'), NEW t \in Ticks, t.clock <= now, NEW i \in 1..Len(flagged)',
         Old(t, flagged'[i])
  PROVE  i \in 1..Len(flagged) /\ Old(t, flagged[i])
<1>1. t.clock \in Nat /\ now \in Nat /\ MinAge \in Nat /\ MinAge > 0  BY FleetConstants DEF Ticks, Typed
<1>2. i \in 1..Len(flagged)
  <2>1. SUFFICES ASSUME i \notin 1..Len(flagged) PROVE FALSE  OBVIOUS
  <2>2. flagged'[i].at = now  BY <2>1, AsMade
  <2> QED  BY <1>1, <2>2 DEF Old
<1> QED  BY <1>2, AsMade DEF Old

LEMMA LabelsStayOn ==
  ASSUME Typed, Grown, LabelsKept, RowsFit(flagged'), NEW at, NEW t \in Ticks, NEW to, NEW u,
         at # "idle", t.labelled \subseteq 1..Len(flagged), u.labelled = t.labelled, t.met \subseteq u.met,
         LabelsStay(at, t, flagged)
  PROVE  LabelsStay(to, u, flagged')
<1>1. \A i \in t.labelled : i \in 1..Len(flagged) /\ i \in 1..Len(flagged)'  BY AsMade DEF Typed, Grown
<1> QED  BY <1>1, AsMade DEF LabelsStay, LabelsKept, Wanted

LEMMA SweptOn ==
  ASSUME FleetFits, Typed, Grown, LabelsKept, RowsFit(flagged'), NEW at, NEW t \in Ticks, NEW to, NEW u \in Ticks,
         t.clock <= now, u.clock = t.clock, t.met \subseteq u.met,
         (u.act = "swept" /\ to \in Afterwards) =>
           t.act = "swept" /\ at \in Afterwards /\ (at = "label" => t.todo = {} \/ (to = "label" /\ u.todo = t.todo)),
         Swept(at, t, flagged)
  PROVE  Swept(to, u, flagged')
<1> SUFFICES ASSUME u.act = "swept", to \in Afterwards, u.met \cap {"other", "full"} = {},
                    NEW i \in 1..Len(flagged'), Old(u, flagged'[i]), Wanted(flagged'[i])
             PROVE  flagged'[i].review # "none" \/ (to = "label" /\ i \in u.todo)
  BY DEF Swept
<1>1. Old(t, flagged'[i])  BY DEF Old
<1>2. i \in 1..Len(flagged) /\ Old(t, flagged[i])  BY <1>1, TooYoung
<1>3. Wanted(flagged[i])  BY <1>2, AsMade DEF Wanted
<1>4. flagged[i].review # "none" \/ (at = "label" /\ i \in t.todo)  BY <1>2, <1>3 DEF Swept
<1> QED  BY <1>2, <1>3, <1>4 DEF LabelsKept, Wanted

LEMMA BesideSwept ==
  ASSUME FleetFits, FleetTyped, NEW d \in Runners, Beside(d), tick' \in [Runners -> Ticks], Grown, RowsFit(flagged'),
         LabelsKept \/ doing[d] = "idle" \/ "other" \in tick'[d].met,
         LabelsStay(doing[d], tick[d], flagged), Swept(doing[d], tick[d], flagged)
  PROVE  LabelsStay(doing'[d], tick'[d], flagged') /\ Swept(doing'[d], tick'[d], flagged')
<1> DEFINE t == tick[d]
<1>1. Good(d) /\ t \in Ticks /\ Typed  BY AllGood DEF Good
<1>2. doing'[d] = doing[d] /\ tick'[d] \in {t, Meets(t, "other")}  BY DEF Beside
<1>3. "other" \in Meets(t, "other").met  BY <1>1, Meeting
<1>4. CASE doing[d] = "idle"  BY <1>2, <1>4 DEF LabelsStay, Swept, Afterwards
<1>5. CASE "other" \in tick'[d].met  BY <1>5 DEF LabelsStay, Swept
<1>6. CASE tick'[d] = t /\ doing[d] # "idle" /\ LabelsKept
  <2>1. t.clock <= now /\ t.labelled \subseteq 1..Len(flagged)  BY <1>1 DEF Good, InHand
  <2>2. LabelsStay(doing[d], t, flagged')  BY <1>1, <1>6, <2>1, LabelsStayOn
  <2>3. Swept(doing[d], t, flagged')
    <3> HIDE DEF t
    <3> QED  BY <1>1, <1>6, <2>1, SweptOn DEF t
  <2> QED  BY <1>2, <1>6, <2>2, <2>3
<1> QED  BY <1>2, <1>3, <1>4, <1>5, <1>6

(* A step of a tick that keeps what it labelled and what it swept.         *)
Ran(c, at, u) == Done(c, at, u) /\ LabelsStay(at, u, flagged') /\ Swept(at, u, flagged')

LEMMA RanOn ==
  ASSUME FleetFits, FleetTyped, SweptInv, NEW c \in Runners, doing[c] # "idle", NEW at, NEW u, Done(c, at, u),
         u.labelled = tick[c].labelled, tick[c].met \subseteq u.met,
         (u.act = "swept" /\ at \in Afterwards) =>
           /\ u.clock = tick[c].clock /\ tick[c].act = "swept" /\ doing[c] \in Afterwards
           /\ doing[c] = "label" => tick[c].todo = {} \/ (at = "label" /\ u.todo = tick[c].todo)
  PROVE  Ran(c, at, u)
<1> DEFINE t == tick[c]
<1>1. Good(c) /\ t \in Ticks /\ Typed /\ t.clock <= now /\ t.labelled \subseteq 1..Len(flagged)  BY AllGood DEF Good, InHand
<1>2. Grown /\ LabelsKept /\ RowsFit(flagged') /\ u \in Ticks  BY DEF Done, Moved
<1>3. LabelsStay(doing[c], t, flagged) /\ Swept(doing[c], t, flagged)  BY DEF SweptInv
<1>4. LabelsStay(at, u, flagged')  BY <1>1, <1>2, <1>3, LabelsStayOn
<1>5. Swept(at, u, flagged')
  <2>1. CASE u.act = "swept" /\ at \in Afterwards
    <3> HIDE DEF t
    <3> QED  BY <1>1, <1>2, <1>3, <2>1, SweptOn DEF t
  <2>2. CASE ~(u.act = "swept" /\ at \in Afterwards)  BY <2>2 DEF Swept
  <2> QED  BY <2>1, <2>2
<1> QED  BY <1>4, <1>5 DEF Ran

LEMMA RanIdle == ASSUME NEW c, NEW u, Done(c, "idle", u) PROVE Ran(c, "idle", u)
  BY DEF Ran, LabelsStay, Swept, Afterwards

LEMMA RanClaim == ASSUME FleetFits, FleetTyped, NEW c \in Runners, ClaimTick(c) PROVE \E at, u : Ran(c, at, u)
<1>1. CASE Done(c, doing[c], tick[c])
  <2>1. doing[c] = "idle"  BY DEF ClaimTick, Doing
  <2> QED  BY <1>1, <2>1, RanIdle
<1>2. CASE \E plan : Done(c, "configure", [NoTick EXCEPT !.bucket = now, !.clock = now, !.plan = plan, !.todo = fleet])
  <2>1. PICK plan : Done(c, "configure", [NoTick EXCEPT !.bucket = now, !.clock = now, !.plan = plan, !.todo = fleet])  BY <1>2
  <2> DEFINE u == [NoTick EXCEPT !.bucket = now, !.clock = now, !.plan = plan, !.todo = fleet]
  <2>2. u.labelled = {} /\ u.act = "none"  BY DEF NoTick
  <2>3. Done(c, "configure", u)  BY <2>1
  <2> HIDE DEF u
  <2>4. Ran(c, "configure", u)  BY <2>2, <2>3 DEF Ran, LabelsStay, Swept
  <2> QED  BY <2>4
<1> QED  BY <1>1, <1>2, Claiming

LabelledAs(t, i, u) ==
  /\ u.labelled = t.labelled \cup {i} /\ u.todo = t.todo \ {i} /\ u.clock = t.clock /\ u.act = t.act
  /\ t.met \subseteq u.met /\ u.project = t.project /\ u.began = t.began /\ u.handled = t.handled
  /\ u.alarms = (IF flagged[i].noise THEN t.alarms \cup {flagged[i].project} ELSE t.alarms)

LEMMA LabelledFields ==
  ASSUME Typed, NEW t \in Ticks, NEW i \in 1..Len(flagged)
  PROVE  LabelledAs(t, i, WithLabel(t, i)) /\ LabelledAs(t, i, Meets(WithLabel(t, i), "fault"))
         /\ "fault" \in Meets(WithLabel(t, i), "fault").met
<1> DEFINE w == WithLabel(t, i)  u == Meets(w, "fault")
<1>1. w \in Ticks
  <2>1. i \in DOMAIN flagged  BY DEF Typed
  <2> QED  BY <2>1, WithLabelTyped
<1>2. LabelledAs(t, i, w) /\ w.met = t.met  BY DEF WithLabel, Ticks, LabelledAs
<1> HIDE DEF w
<1>3. /\ SameBatch(u, w) /\ u.todo = w.todo /\ u.met = w.met \cup {"fault"} /\ u.began = w.began /\ u.alarms = w.alarms
      /\ u.handled = w.handled /\ u.act = w.act /\ u.project = w.project
  BY <1>1, Meeting
<1> HIDE DEF u
<1>4. LabelledAs(t, i, u) /\ "fault" \in u.met  BY <1>2, <1>3 DEF SameBatch, LabelledAs
<1> QED  BY <1>2, <1>4 DEF w, u

LEMMA RanLabel ==
  ASSUME FleetFits, FleetTyped, SweptInv, NEW c \in Runners, NEW at \in {"review", "label"}, doing[c] = at,
         NEW i \in tick[c].todo, LabelsRow(c, i, at)
  PROVE  \E u : Ran(c, at, u)
<1> DEFINE t == tick[c]
<1>1. PICK u \in {WithLabel(t, i), Meets(WithLabel(t, i), "fault")} :
        Done(c, at, u) /\ i \in 1..Len(flagged) /\ flagged'[i].review = LabelFor(flagged[i])
  BY LabellingTyped
<1>2. Good(c) /\ t \in Ticks /\ Typed /\ t.clock <= now /\ t.labelled \subseteq 1..Len(flagged)  BY AllGood DEF Good, InHand
<1>3. Grown /\ LabelsKept /\ RowsFit(flagged') /\ u \in Ticks /\ Pass(at, u)  BY <1>1 DEF Done, Moved
<1>4. u.labelled = t.labelled \cup {i} /\ u.todo = t.todo \ {i} /\ u.clock = t.clock /\ u.act = t.act /\ t.met \subseteq u.met
  <2>1. LabelledAs(t, i, u)  BY <1>1, <1>2, LabelledFields
  <2> QED  BY <2>1 DEF LabelledAs
<1>5. LabelsStay(at, t, flagged) /\ Swept(at, t, flagged)  BY DEF SweptInv
<1>6. i \in 1..Len(flagged') /\ (Wanted(flagged'[i]) => flagged'[i].review # "none")
  <2>1. i \in 1..Len(flagged')  BY <1>1, <1>2, <1>3 DEF Grown, Typed
  <2> QED  BY <1>1, <1>2, <1>3, <2>1, AsMade DEF Wanted
<1>7. LabelsStay(at, t, flagged')  BY <1>2, <1>3, <1>5, LabelsStayOn
<1>8. Swept(at, t, flagged')
  <2> HIDE DEF t
  <2> QED  BY <1>2, <1>3, <1>5, SweptOn DEF t
<1> HIDE DEF t
<1>9. LabelsStay(at, u, flagged')  BY <1>4, <1>6, <1>7 DEF LabelsStay
<1>10. Swept(at, u, flagged')
  <2>1. ASSUME NEW j \in 1..Len(flagged'), Old(u, flagged'[j]) PROVE Old(t, flagged'[j])  BY <1>4, <2>1 DEF Old
  <2> QED  BY <1>4, <1>6, <1>8, <2>1 DEF Swept
<1> QED  BY <1>1, <1>9, <1>10 DEF Ran

LEMMA HorizonIsFinite == ASSUME Typed, NEW t PROVE IsFiniteSet(WithinHorizon(t)) /\ Cardinality(WithinHorizon(t)) \in Nat
<1>1. DOMAIN flagged = 1..Len(flagged) /\ Len(flagged) \in Nat  BY DEF Typed
<1>2. WithinHorizon(t) \subseteq 1..Len(flagged)  BY <1>1 DEF WithinHorizon
<1>3. IsFiniteSet(1..Len(flagged))  BY <1>1, FS_Interval
<1> QED  BY <1>2, <1>3, FS_Subset, FS_CardinalityType

(* Where the budget was not met the sweep reaches back to every row in the *)
(* horizon, for the rows after a row in it are in it too.                  *)
LEMMA WholeHorizon ==
  ASSUME FleetFits, Typed, Ordered(flagged, now), NEW t \in Ticks, Cardinality(WithinHorizon(t)) <= RowBudget,
         NEW j \in 1..Len(flagged), t.clock - flagged[j].at <= Horizon
  PROVE  j > Len(flagged) - RowBudget
<1> DEFINE n == Len(flagged)
<1>1. n \in Nat /\ DOMAIN flagged = 1..n /\ t.clock \in Nat /\ Horizon \in Nat /\ RowBudget \in Nat /\ j \in Int
  BY FleetConstants DEF Typed, Ticks
<1>2. \A k \in 1..n : flagged[k].at \in Nat
  <2>1. \A k \in 1..n : flagged[k] \in FlaggedRows  BY DEF Typed
  <2> QED  BY <2>1 DEF FlaggedRows
<1>3. j..n \subseteq WithinHorizon(t)
  <2>1. ASSUME NEW k \in j..n PROVE k \in WithinHorizon(t)
    <3>1. k \in 1..n /\ j <= k  BY <1>1, <2>1
    <3>2. flagged[j].at <= flagged[k].at  BY <3>1 DEF Ordered
    <3> QED  BY <1>1, <1>2, <3>1, <3>2 DEF WithinHorizon
  <2> QED  BY <2>1
<1>4. IsFiniteSet(WithinHorizon(t))  BY HorizonIsFinite
<1>5. Cardinality(j..n) = n - j + 1  BY <1>1, FS_Interval
<1>6. Cardinality(j..n) <= Cardinality(WithinHorizon(t)) /\ Cardinality(WithinHorizon(t)) \in Nat
  BY <1>3, <1>4, FS_Subset, FS_CardinalityType
<1> QED  BY <1>1, <1>5, <1>6

LEMMA RanSweep == ASSUME FleetFits, FleetTyped, SweptInv, NEW c \in Runners, SweepRead(c) PROVE \E u : Ran(c, "label", u)
<1> DEFINE t == tick[c]
<1>1. PICK u \in Ticks :
        /\ Done(c, "label", u) /\ Alike(u, t) /\ u.act = t.act /\ u.todo = Queue(t) /\ t.met \subseteq u.met
        /\ Cardinality(WithinHorizon(t)) > RowBudget => "full" \in u.met
  BY SweepReading
<1>2. doing[c] = "sweep" /\ flagged' = flagged  BY SweepReading DEF Still
<1>3. Good(c) /\ t \in Ticks /\ Typed /\ t.labelled \subseteq 1..Len(flagged)  BY AllGood DEF Good, InHand
<1>4. LabelsStay("sweep", t, flagged) /\ Ordered(flagged, now)  BY <1>2 DEF SweptInv
<1>5. LabelsStay("label", u, flagged')  BY <1>1, <1>2, <1>4 DEF LabelsStay, Alike
<1>6. Swept("label", u, flagged')
  <2> SUFFICES ASSUME u.act = "swept", u.met \cap {"other", "full"} = {}, NEW j \in 1..Len(flagged), Old(u, flagged[j]),
                      Wanted(flagged[j]), flagged[j].review = "none"
               PROVE  j \in Queue(t)
    BY <1>1, <1>2 DEF Swept
  <2>1. t.clock - flagged[j].at >= MinAge /\ t.clock - flagged[j].at <= Horizon  BY <1>1 DEF Old, Alike
  <2>2. ~(Cardinality(WithinHorizon(t)) > RowBudget)  BY <1>1
  <2>3. Cardinality(WithinHorizon(t)) \in Nat /\ RowBudget \in Nat  BY <1>3, HorizonIsFinite, FleetConstants DEF Typed
  <2>4. j > Len(flagged) - RowBudget
    <3> HIDE DEF t
    <3>1. Cardinality(WithinHorizon(t)) <= RowBudget  BY <2>2, <2>3
    <3> QED  BY <1>3, <1>4, <2>1, <3>1, WholeHorizon
  <2>5. j \in DOMAIN flagged /\ j \in WithinHorizon(t)  BY <1>3, <2>1 DEF WithinHorizon, Typed
  <2>6. j \notin t.labelled  BY <1>1, <1>4 DEF LabelsStay
  <2> QED  BY <1>1, <2>1, <2>4, <2>5, <2>6 DEF Queue, Reached, InScope, OldEnough, Waits, Wanted
<1> QED  BY <1>1, <1>5, <1>6 DEF Ran

LEMMA RanEach == ASSUME FleetFits, FleetTyped, SweptInv, NEW c \in Runners, Runs(c) PROVE \E at, u : Ran(c, at, u)
<1> DEFINE t == tick[c]
<1>0. t \in Ticks  BY AllGood DEF Good
<1>1. CASE ClaimTick(c)  BY <1>1, RanClaim
<1>2. CASE ReadConfig(c) \/ CreateConfig(c)
  <2>1. doing[c] # "idle"  BY <1>2 DEF ReadConfig, CreateConfig, Doing
  <2>2. CASE Done(c, "idle", NoTick)  BY <2>2, RanIdle
  <2>3. CASE Done(c, "create", t)  BY <2>1, <2>3, RanOn DEF Afterwards
  <2>4. CASE \E cfg : Done(c, AfterProject(t, NextProject(t)), ConfiguredAs(t, NextProject(t), cfg))
    <3>1. PICK cfg : Done(c, AfterProject(t, NextProject(t)), ConfiguredAs(t, NextProject(t), cfg))  BY <2>4
    <3> DEFINE u == ConfiguredAs(t, NextProject(t), cfg)  at == AfterProject(t, NextProject(t))
    <3>2. at \notin Afterwards  BY DEF AfterProject, Afterwards
    <3>3. u.labelled = t.labelled /\ u.met = t.met  BY <1>0 DEF ConfiguredAs, Ticks
    <3>4. Done(c, at, u)  BY <3>1
    <3> HIDE DEF u, at
    <3> QED  BY <2>1, <3>2, <3>3, <3>4, RanOn
  <2> QED  BY <1>2, <2>2, <2>3, <2>4, Reading, Creating
<1>3. CASE SendCall(c) \/ SendingEnds(c)
  <2>1. doing[c] = "send"  BY <1>3, Sending, SentAll
  <2>2. PICK at \in {"send", "review"}, u \in Ticks : Done(c, at, u) /\ u.met = t.met /\ u.labelled = t.labelled  BY <1>3, Sending, SentAll
  <2> QED  BY <2>1, <2>2, RanOn DEF Afterwards
<1>4. CASE ReviewNow(c)
  <2>1. doing[c] = "review"  BY <1>4, Reviewing
  <2>2. CASE \E i \in t.todo : LabelsRow(c, i, "review")  BY <2>1, <2>2, RanLabel
  <2>3. CASE \E u \in Ticks : Done(c, "review", u) /\ Alike(u, t) /\ u.met = t.met  BY <2>1, <2>3, RanOn DEF Afterwards, Alike
  <2> QED  BY <1>4, <2>2, <2>3, Reviewing
<1>5. CASE ReviewEnds(c) \/ NoisyEnds(c) \/ SweepEnds(c)
  <2>1. CASE ReviewEnds(c)
    <3>1. doing[c] = "review" /\ Done(c, "noisy", t) /\ t.act = "none"  BY <2>1, GoingOn, AllGood DEF Good, Pass
    <3> QED  BY <3>1, RanOn
  <2>2. CASE NoisyEnds(c)
    <3>1. doing[c] = "noisy" /\ Done(c, AfterNoisy(t), t)  BY <2>2, GoingOn
    <3> QED  BY <3>1, RanOn DEF Afterwards
  <2>3. CASE SweepEnds(c)
    <3>1. doing[c] = "label" /\ Done(c, AfterSweep(t), t) /\ t.todo = {}  BY <2>3, GoingOn
    <3> QED  BY <3>1, RanOn DEF Afterwards
  <2> QED  BY <1>5, <2>1, <2>2, <2>3
<1>6. CASE LookNoisy(c)
  <2>1. doing[c] = "noisy"  BY <1>6, Looking
  <2>2. PICK at \in {"noisy", "noisy_load"}, u \in Ticks : Done(c, at, u) /\ Alike(u, t) /\ t.met \subseteq u.met /\ u.act = t.act
    BY <1>6, Looking
  <2> QED  BY <2>1, <2>2, RanOn DEF Afterwards, Alike
<1>7. CASE LoadForNoisy(c)
  <2>1. doing[c] = "noisy_load"  BY <1>7, LoadingEach DEF Loaded
  <2>2. PICK at \in {"noisy", "noisy_save"}, u \in Ticks : Done(c, at, u) /\ Alike(u, t) /\ t.met \subseteq u.met /\ u.act = t.act
    BY <1>7, LoadingEach DEF Loaded
  <2> QED  BY <2>1, <2>2, RanOn DEF Afterwards, Alike
<1>8. CASE LoadForDemote(c) \/ LoadForPromote(c)
  <2>1. doing[c] # "idle"  BY <1>8, LoadingEach DEF Loaded
  <2>2. PICK at \in {"demote_save", "promote_save", "sweep"}, u \in Ticks : Done(c, at, u) /\ Alike(u, t) /\ t.met \subseteq u.met
    BY <1>8, LoadingEach DEF Loaded
  <2> QED  BY <2>1, <2>2, RanOn DEF Afterwards, Alike
<1>9. CASE SaveNoisy(c)
  <2>1. /\ doing[c] = "noisy_save" /\ Done(c, "noisy", Dropped(t)) /\ Alike(Dropped(t), t) /\ Dropped(t).met = t.met
        /\ Dropped(t).act = t.act
    BY <1>0, <1>9, SavingNoisy, Dropping, AllGood
  <2> QED  BY <2>1, RanOn DEF Afterwards, Alike
<1>10. CASE SaveDemoted(c) \/ SavePromoted(c)
  <2>1. doing[c] # "idle" /\ Done(c, "sweep", Acted(t)) /\ Alike(Acted(t), t) /\ Acted(t).met = t.met
    BY <1>10, SavingDemoted, SavingPromoted
  <2> QED  BY <2>1, RanOn DEF Afterwards, Alike
<1>11. CASE ChooseStage(c) \/ Promote(c) \/ ReadRules(c)
  <2>1. doing[c] # "idle"  BY <1>11, Choosing, Promoting, ReadingRules
  <2>2. PICK at \in {"sweep", "promote", "demote_load", "promote_load"}, u \in Ticks : Done(c, at, u) /\ Alike(u, t) /\ t.met \subseteq u.met
    BY <1>11, Choosing, Promoting, ReadingRules
  <2> QED  BY <2>1, <2>2, RanOn DEF Afterwards, Alike
<1>12. CASE SweepRead(c)  BY <1>12, RanSweep
<1>13. CASE SweepLabel(c)
  <2>1. doing[c] = "label" /\ \E i \in t.todo : LabelsRow(c, i, "label")  BY <1>13, SweepLabelling
  <2> QED  BY <2>1, RanLabel
<1>14. CASE Finish(c) \/ Stops(c)  BY <1>14, Stopping, RanIdle
<1> QED
  BY <1>1, <1>2, <1>3, <1>4, <1>5, <1>6, <1>7, <1>8, <1>9, <1>10, <1>11, <1>12, <1>13, <1>14 DEF Runs

LEMMA SweptRuns == ASSUME FleetFits, FleetTyped, SweptInv, NEW c \in Runners, Runs(c) PROVE SweptInv'
<1>1. PICK at, u : Ran(c, at, u)  BY RanEach
<1>2. /\ now' = now /\ Grown /\ RowsFit(flagged') /\ LabelsKept /\ tick' \in [Runners -> Ticks]
      /\ doing'[c] = at /\ tick'[c] = u /\ \A d \in Runners : d # c => Beside(d)
  BY <1>1 DEF Ran, Done, Moved
<1>3. Typed /\ now \in Nat  BY DEF FleetTyped, Typed
<1>4. Ordered(flagged, now)'  BY <1>2, <1>3, RowsOrdered DEF SweptInv
<1>5. ASSUME NEW d \in Runners
      PROVE  LabelsStay(doing'[d], tick'[d], flagged') /\ Swept(doing'[d], tick'[d], flagged')
  <2>1. CASE d = c  BY <1>1, <1>2, <2>1 DEF Ran
  <2>2. CASE d # c  BY <1>2, <2>2, BesideSwept DEF SweptInv
  <2> QED  BY <2>1, <2>2
<1> QED  BY <1>4, <1>5 DEF SweptInv, LabelsStay, Swept

LEMMA SweptAside == ASSUME FleetFits, FleetTyped, SweptInv, Aside PROVE SweptInv'
<1>1. /\ now' \in Nat /\ now <= now' /\ Grown /\ RowsFit(flagged') /\ tick' \in [Runners -> Ticks]
      /\ \A d \in Runners : Beside(d) /\ (LabelsKept \/ doing[d] = "idle" \/ "other" \in tick'[d].met)
  BY DEF Aside
<1>2. Typed /\ now \in Nat  BY DEF FleetTyped, Typed
<1>3. Ordered(flagged, now)'  BY <1>1, <1>2, RowsOrdered DEF SweptInv
<1>4. ASSUME NEW d \in Runners
      PROVE  LabelsStay(doing'[d], tick'[d], flagged') /\ Swept(doing'[d], tick'[d], flagged')
  BY <1>1, BesideSwept DEF SweptInv
<1> QED  BY <1>3, <1>4 DEF SweptInv, LabelsStay, Swept

LEMMA SweptStep == ASSUME FleetFits, FleetTyped, SweptInv, [FleetNext]_fleetVars PROVE SweptInv'
<1>1. CASE \E c \in Runners : Runs(c)  BY <1>1, SweptRuns
<1>2. CASE Passage \/ ByHand \/ UNCHANGED fleetVars  BY <1>2, StandingAside, SweptAside
<1> QED  BY <1>1, <1>2 DEF FleetNext

LEMMA SweptStart == ASSUME FleetFits, FleetInit PROVE SweptInv
<1>1. Len(flagged) = 0 /\ \A c \in Runners : doing[c] = "idle"  BY DEF FleetInit
<1>2. Ordered(flagged, now)  BY <1>1 DEF Ordered
<1> QED  BY <1>1, <1>2 DEF SweptInv, LabelsStay, Swept, Afterwards

(* A tick that ended in time, read the whole horizon and met nobody else's *)
(* hand leaves no call an operator labels waiting past the minimum age,    *)
(* whatever became of the ticks that made those calls: with any number of  *)
(* ticks at once, over any horizon and row budget.                         *)
THEOREM QueueIsSwept == FleetFits => (FleetSpec => []QueueSwept)
<1> SUFFICES ASSUME FleetFits PROVE FleetSpec => []QueueSwept  OBVIOUS
<1>1. FleetInit => FleetTyped /\ SweptInv  BY FleetStart, SweptStart
<1>2. FleetTyped /\ SweptInv /\ [FleetNext]_fleetVars => FleetTyped' /\ SweptInv'  BY FleetTypeStep, SweptStep
<1>3. FleetTyped /\ SweptInv => QueueSwept
  <2> SUFFICES ASSUME FleetTyped, SweptInv, NEW c \in Runners, Ended(c, {"fault"}), NEW i \in WithinHorizon(tick[c]),
                      tick[c].clock - flagged[i].at >= MinAge, LabelFor(flagged[i]) # "none"
               PROVE  flagged[i].review # "none"
    BY DEF QueueSwept
  <2>1. Good(c) /\ Typed  BY AllGood
  <2>2. doing[c] = "done" /\ tick[c].act = "swept" /\ tick[c].met \cap {"other", "full"} = {}
    BY <2>1 DEF Ended, Doing, Good, Pass
  <2>3. i \in 1..Len(flagged) /\ Old(tick[c], flagged[i])  BY <2>1 DEF WithinHorizon, Old, Typed
  <2> QED  BY <2>2, <2>3 DEF SweptInv, Swept, Afterwards, Wanted
<1> QED  BY <1>1, <1>2, <1>3, PTL DEF FleetSpec

-----------------------------------------------------------------------------
(* A false alarm of project q, and one a sweep of tick t would read.       *)
Alarm(row, q) == row.noise /\ row.project = q

Seen(rows, i, t) == i > Len(rows) - RowBudget /\ Old(t, rows[i])

(* None of q's is left for the last sweep to find.                         *)
NoneLeft(q, t, rows) == \A i \in 1..Len(rows) : Alarm(rows[i], q) /\ Seen(rows, i, t) => rows[i].review # "none"

(* A rule that came to enforce by the tick's own promotion.                *)
Mine(q, t, cfgs) == StageOf(t.began[q]) # "enforce" /\ Enforces(cfgs[q], Noisy)

Setting(at, t, q) == at \in {"configure", "create"} /\ q \in t.todo

(* What a tick marked counts, and what it heard alarms of it labelled.     *)
Marked(t, rows) ==
  /\ \A i \in t.labelled :
       rows[i].noise => rows[i].review # "none" /\ rows[i].counted = "false_alarm" /\ rows[i].project \in t.alarms
  /\ \A q \in t.alarms : \E i \in t.labelled : Alarm(rows[i], q)

(* What it promoted itself it has heard no alarm of, and will hear none.   *)
PromotedWell(at, t, rows, cfgs) ==
  \A q \in fleet : Mine(q, t, cfgs) /\ ~Setting(at, t, q) =>
    /\ t.act = "swept" /\ q \notin t.alarms /\ NoneLeft(q, t, rows)
    /\ at = "label" => \A i \in t.todo : ~Alarm(rows[i], q)

(* What it looked at is set back, or is about to be.                       *)
Handled(at, t, cfgs) ==
  /\ t.handled \subseteq t.alarms
  /\ \A q \in t.handled :
       Enforces(cfgs[q], Noisy) => at \in {"noisy_load", "noisy_save"} /\ t.project = q /\ Noisy \in t.rules
  /\ at = "done" => t.alarms \subseteq t.handled
  /\ at \in {"configure", "create"} => t.handled = {}

HoldsItsOwn(at, t, cfgs) ==
  at \in {"noisy_save", "demote_save", "promote_save"} => t.held = cfgs[t.project]

(* Before it promotes a project it labels what waits of it, and no rule it *)
(* then heard an alarm of is among those it promotes.                      *)
Readied(at, t, rows) ==
  /\ at \in {"promote_load", "promote_save"} /\ t.project \in t.alarms => Noisy \notin t.rules
  /\ (t.act = "promote" /\ at \in {"label", "rules", "promote_load", "promote_save"}) =>
       \A i \in 1..Len(rows) : Alarm(rows[i], t.project) /\ Seen(rows, i, t) =>
         rows[i].review # "none" \/ (at = "label" /\ i \in t.todo)

Fine(at, t, rows, cfgs) ==
  /\ Marked(t, rows) /\ PromotedWell(at, t, rows, cfgs) /\ Handled(at, t, cfgs)
  /\ HoldsItsOwn(at, t, cfgs) /\ Readied(at, t, rows)

(* All of it as long as no call to the store failed the tick and nobody    *)
(* else's hand changed what it read.                                       *)
Undisturbed(t) == t.met \cap {"fault", "other"} = {}

SetBack(at, t, rows, cfgs) == at # "idle" /\ Undisturbed(t) => Fine(at, t, rows, cfgs)

SetBackInv == \A c \in Runners : SetBack(doing[c], tick[c], flagged, config)

-----------------------------------------------------------------------------
LEMMA AlarmStays ==
  ASSUME Typed, Grown, LabelsKept, RowsFit(flagged'), NEW i \in 1..Len(flagged)
  PROVE  /\ i \in 1..Len(flagged)' /\ flagged'[i].noise = flagged[i].noise /\ flagged'[i].project = flagged[i].project
         /\ flagged[i].noise /\ flagged[i].counted = "false_alarm" => flagged'[i].counted = "false_alarm"
         /\ flagged[i].noise /\ flagged[i].review # "none" => flagged'[i].review # "none"
         /\ flagged[i].noise \in BOOLEAN
<1>1. i \in 1..Len(flagged)' /\ flagged[i] \in FlaggedRows  BY DEF Typed, Grown
<1>2. flagged[i].noise \in BOOLEAN  BY <1>1 DEF FlaggedRows
<1>3. flagged[i].noise => LabelFor(flagged[i]) # "none"  BY DEF LabelFor
<1> QED  BY <1>1, <1>2, <1>3, AsMade DEF LabelsKept

LEMMA SeenBefore ==
  ASSUME FleetFits, Typed, Grown, RowsFit(flagged'), NEW t \in Ticks, t.clock <= now, NEW u, u.clock = t.clock,
         NEW i \in 1..Len(flagged)', Seen(flagged', i, u)
  PROVE  i \in 1..Len(flagged) /\ Seen(flagged, i, t)
<1>1. Old(t, flagged'[i])  BY DEF Seen, Old
<1>2. i \in 1..Len(flagged) /\ Old(t, flagged[i])  BY <1>1, TooYoung
<1>3. i > Len(flagged) - RowBudget
  <2>1. i \in Int /\ Len(flagged) \in Int /\ Len(flagged)' \in Int /\ RowBudget \in Int /\ Len(flagged) <= Len(flagged)'
    BY FleetConstants, AsMade DEF Typed
  <2>2. i > Len(flagged)' - RowBudget  BY DEF Seen
  <2> QED  BY <2>1, <2>2
<1> QED  BY <1>2, <1>3 DEF Seen

LEMMA MarkedOn ==
  ASSUME Typed, Grown, LabelsKept, RowsFit(flagged'), NEW t \in Ticks, NEW u, t.labelled \subseteq 1..Len(flagged),
         u.labelled = t.labelled, u.alarms = t.alarms, Marked(t, flagged)
  PROVE  Marked(u, flagged')
<1>1. \A i \in t.labelled : i \in 1..Len(flagged)  OBVIOUS
<1>2. ASSUME NEW i \in t.labelled, flagged'[i].noise
      PROVE  flagged'[i].review # "none" /\ flagged'[i].counted = "false_alarm" /\ flagged'[i].project \in t.alarms
  BY <1>1, <1>2, AlarmStays DEF Marked
<1>3. ASSUME NEW q \in t.alarms PROVE \E i \in t.labelled : Alarm(flagged'[i], q)
  BY <1>1, AlarmStays DEF Marked, Alarm
<1> QED  BY <1>2, <1>3 DEF Marked

LEMMA NoneLeftOn ==
  ASSUME FleetFits, Typed, Grown, LabelsKept, RowsFit(flagged'), NEW t \in Ticks, t.clock <= now, NEW u, u.clock = t.clock,
         NEW q, NoneLeft(q, t, flagged)
  PROVE  NoneLeft(q, u, flagged')
<1> SUFFICES ASSUME NEW i \in 1..Len(flagged'), Alarm(flagged'[i], q), Seen(flagged', i, u) PROVE flagged'[i].review # "none"
  BY DEF NoneLeft
<1>1. i \in 1..Len(flagged) /\ Seen(flagged, i, t)  BY SeenBefore
<1>2. Alarm(flagged[i], q) /\ flagged[i].noise  BY <1>1, AlarmStays DEF Alarm
<1>3. flagged[i].review # "none"  BY <1>1, <1>2 DEF NoneLeft
<1> QED  BY <1>1, <1>2, <1>3, AlarmStays

LEMMA ReadiedOn ==
  ASSUME FleetFits, Typed, Grown, LabelsKept, RowsFit(flagged'), NEW t \in Ticks, t.clock <= now, NEW u, u.clock = t.clock,
         NEW at, NEW to, u.project = t.project, t.act = "promote",
         at \in {"label", "rules", "promote_load", "promote_save"}, at = "label" => (to = "label" /\ u.todo = t.todo) \/ t.todo = {},
         to \in {"promote_load", "promote_save"} /\ u.project \in u.alarms => Noisy \notin u.rules,
         Readied(at, t, flagged)
  PROVE  Readied(to, u, flagged')
<1> SUFFICES ASSUME NEW i \in 1..Len(flagged'), Alarm(flagged'[i], u.project), Seen(flagged', i, u)
             PROVE  flagged'[i].review # "none" \/ (to = "label" /\ i \in u.todo)
  BY DEF Readied
<1>1. i \in 1..Len(flagged) /\ Seen(flagged, i, t)  BY SeenBefore
<1>2. Alarm(flagged[i], t.project) /\ flagged[i].noise  BY <1>1, AlarmStays DEF Alarm
<1>3. flagged[i].review # "none" \/ (at = "label" /\ i \in t.todo)  BY <1>1, <1>2 DEF Readied
<1> QED  BY <1>1, <1>2, <1>3, AlarmStays

(* A step that saves no configuration, marks no row and looks at no        *)
(* project.                                                                *)
LEMMA FineOn ==
  ASSUME FleetFits, Typed, Grown, LabelsKept, RowsFit(flagged'), config' = config,
         NEW t \in Ticks, t.clock <= now, t.labelled \subseteq 1..Len(flagged), NEW u, NEW at, NEW to,
         u.began = t.began, u.alarms = t.alarms, u.labelled = t.labelled, u.handled = t.handled,
         t.act = "swept" => u.act = "swept" /\ u.clock = t.clock,
         \A q \in fleet : Setting(at, t, q) => Setting(to, u, q),
         to \in {"configure", "create"} => at \in {"configure", "create"},
         to = "label" => \A q \in fleet, i \in u.todo : Mine(q, t, config) => ~Alarm(flagged'[i], q),
         at \in {"noisy_load", "noisy_save"} => to \in {"noisy_load", "noisy_save"} /\ u.project = t.project /\ u.rules = t.rules,
         to = "done" => t.alarms \subseteq t.handled,
         HoldsItsOwn(to, u, config), Readied(to, u, flagged'),
         Fine(at, t, flagged, config)
  PROVE  Fine(to, u, flagged', config')
<1>1. Marked(u, flagged')  BY MarkedOn DEF Fine
<1>2. PromotedWell(to, u, flagged', config')
  <2> SUFFICES ASSUME NEW q \in fleet, Mine(q, u, config), ~Setting(to, u, q)
               PROVE  /\ u.act = "swept" /\ q \notin u.alarms /\ NoneLeft(q, u, flagged')
                      /\ to = "label" => \A i \in u.todo : ~Alarm(flagged'[i], q)
    BY DEF PromotedWell
  <2>1. Mine(q, t, config) /\ ~Setting(at, t, q)  BY DEF Mine
  <2>2. t.act = "swept" /\ q \notin t.alarms /\ NoneLeft(q, t, flagged)  BY <2>1 DEF Fine, PromotedWell
  <2>3. NoneLeft(q, u, flagged')  BY <2>2, NoneLeftOn
  <2> QED  BY <2>1, <2>2, <2>3
<1>3. Handled(to, u, config')
  <2>1. Handled(at, t, config)  BY DEF Fine
  <2> QED  BY <2>1 DEF Handled
<1> QED  BY <1>1, <1>2, <1>3 DEF Fine

LEMMA BesideSetBack ==
  ASSUME FleetFits, FleetTyped, NEW d \in Runners, Beside(d), tick' \in [Runners -> Ticks], Grown, RowsFit(flagged'),
         LabelsKept \/ doing[d] = "idle" \/ "other" \in tick'[d].met,
         SetBack(doing[d], tick[d], flagged, config)
  PROVE  SetBack(doing'[d], tick'[d], flagged', config')
<1> DEFINE t == tick[d]  at == doing[d]
<1>1. Good(d) /\ t \in Ticks /\ Typed /\ t.clock <= now /\ t.labelled \subseteq 1..Len(flagged)  BY AllGood DEF Good, InHand
<1>2. doing'[d] = at /\ tick'[d] \in {t, Meets(t, "other")}  BY DEF Beside
<1>3. "other" \in Meets(t, "other").met  BY <1>1, Meeting
<1>4. CASE at = "idle"  BY <1>2, <1>4 DEF SetBack
<1>5. CASE "other" \in tick'[d].met  BY <1>5 DEF SetBack, Undisturbed
<1>6. CASE tick'[d] = t /\ at # "idle" /\ LabelsKept /\ "other" \notin t.met
  <2>0. config' = config  BY <1>3, <1>6 DEF Beside
  <2> SUFFICES ASSUME Undisturbed(t) PROVE Fine(at, t, flagged', config')
    BY <1>2, <1>6 DEF SetBack
  <2>1. Fine(at, t, flagged, config)  BY <1>6 DEF SetBack
  <2>2. Readied(at, t, flagged')
    <3>1. Readied(at, t, flagged)  BY <2>1 DEF Fine
    <3>2. CASE t.act = "promote" /\ at \in {"label", "rules", "promote_load", "promote_save"}
      <4>1. at \in {"promote_load", "promote_save"} /\ t.project \in t.alarms => Noisy \notin t.rules  BY <3>1 DEF Readied
      <4> HIDE DEF t, at
      <4> QED  BY <1>1, <1>6, <3>1, <3>2, <4>1, ReadiedOn
    <3>3. CASE ~(t.act = "promote" /\ at \in {"label", "rules", "promote_load", "promote_save"})
      <4> HIDE DEF t, at
      <4> QED  BY <3>1, <3>3 DEF Readied
    <3> QED  BY <3>2, <3>3
  <2>3. at = "label" => \A q \in fleet, i \in t.todo : Mine(q, t, config) => ~Alarm(flagged'[i], q)
    <3>1. at = "label" => t.todo \subseteq 1..Len(flagged)  BY <1>1 DEF Good, InHand
    <3>2. at = "label" => \A q \in fleet, i \in t.todo : Mine(q, t, config) => ~Alarm(flagged[i], q)
      BY <2>1 DEF Fine, PromotedWell, Setting
    <3> HIDE DEF t, at
    <3> QED  BY <1>1, <1>6, <3>1, <3>2, AlarmStays DEF Alarm
  <2>4. HoldsItsOwn(at, t, config) /\ (at = "done" => t.alarms \subseteq t.handled)  BY <2>1 DEF Fine, Handled
  <2> HIDE DEF t, at
  <2> QED  BY <1>1, <1>6, <2>0, <2>1, <2>2, <2>3, <2>4, FineOn
<1> QED  BY <1>2, <1>3, <1>4, <1>5, <1>6

-----------------------------------------------------------------------------
(* A step of a tick that keeps it so.                                      *)
Kept(c, at, u) == Done(c, at, u) /\ SetBack(at, u, flagged', config')

LEMMA KeptIdle == ASSUME NEW c, NEW u, Done(c, "idle", u) PROVE Kept(c, "idle", u)
  BY DEF Kept, SetBack

LEMMA KeptFailed == ASSUME NEW c, NEW at, NEW u, Done(c, at, u), "fault" \in u.met PROVE Kept(c, at, u)
  BY DEF Kept, SetBack, Undisturbed

LEMMA OwnFine ==
  ASSUME FleetTyped, SetBackInv, NEW c \in Runners, doing[c] # "idle", NEW at, NEW u, Done(c, at, u), tick[c].met \subseteq u.met
  PROVE  /\ tick[c] \in Ticks /\ tick[c].clock <= now /\ tick[c].labelled \subseteq 1..Len(flagged) /\ Typed
         /\ Grown /\ LabelsKept /\ RowsFit(flagged') /\ u \in Ticks
         /\ Undisturbed(u) => Fine(doing[c], tick[c], flagged, config)
<1>1. Good(c) /\ Typed /\ tick[c] \in Ticks /\ tick[c].clock <= now /\ tick[c].labelled \subseteq 1..Len(flagged)
  BY AllGood DEF Good, InHand
<1>2. Grown /\ LabelsKept /\ RowsFit(flagged') /\ u \in Ticks  BY DEF Done, Moved
<1>3. Undisturbed(u) => Undisturbed(tick[c])  BY DEF Undisturbed
<1> QED  BY <1>1, <1>2, <1>3 DEF SetBackInv, SetBack

LEMMA KeptOn ==
  ASSUME FleetFits, FleetTyped, SetBackInv, NEW c \in Runners, doing[c] # "idle", NEW at, NEW u, Done(c, at, u),
         tick[c].met \subseteq u.met, config' = config,
         u.began = tick[c].began, u.alarms = tick[c].alarms, u.labelled = tick[c].labelled, u.handled = tick[c].handled,
         tick[c].act = "swept" => u.act = "swept" /\ u.clock = tick[c].clock,
         \A q \in fleet : Setting(doing[c], tick[c], q) => Setting(at, u, q),
         at \in {"configure", "create"} => doing[c] \in {"configure", "create"},
         doing[c] \in {"noisy_load", "noisy_save"} =>
           at \in {"noisy_load", "noisy_save"} /\ u.project = tick[c].project /\ u.rules = tick[c].rules,
         at = "done" => tick[c].alarms \subseteq tick[c].handled,
         Fine(doing[c], tick[c], flagged, config) =>
           /\ HoldsItsOwn(at, u, config) /\ Readied(at, u, flagged')
           /\ at = "label" => \A q \in fleet, i \in u.todo : Mine(q, tick[c], config) => ~Alarm(flagged'[i], q)
  PROVE  Kept(c, at, u)
<1> DEFINE t == tick[c]  from == doing[c]
<1>1. /\ t \in Ticks /\ t.clock <= now /\ t.labelled \subseteq 1..Len(flagged) /\ Typed
      /\ Grown /\ LabelsKept /\ RowsFit(flagged') /\ u \in Ticks
      /\ Undisturbed(u) => Fine(from, t, flagged, config)
  BY OwnFine
<1>2. ASSUME Undisturbed(u) PROVE Fine(at, u, flagged', config')
  <2>1. Fine(from, t, flagged, config)  BY <1>1, <1>2
  <2> HIDE DEF t, from
  <2> QED  BY <1>1, <2>1, FineOn DEF t, from
<1> QED  BY <1>2 DEF Kept, SetBack

(* Where it goes on to what asks for nothing new.                          *)
Plain == Places \ {"label", "rules", "promote_load", "promote_save", "noisy_save", "demote_save", "done"}

LEMMA KeptPlain ==
  ASSUME FleetFits, FleetTyped, SetBackInv, NEW c \in Runners, doing[c] \notin {"idle", "noisy_load", "noisy_save"},
         NEW at \in Plain, NEW u, Done(c, at, u),
         tick[c].met \subseteq u.met, config' = config,
         u.began = tick[c].began, u.alarms = tick[c].alarms, u.labelled = tick[c].labelled, u.handled = tick[c].handled,
         tick[c].act = "swept" => u.act = "swept" /\ u.clock = tick[c].clock,
         \A q \in fleet : Setting(doing[c], tick[c], q) => Setting(at, u, q),
         at \in {"configure", "create"} => doing[c] \in {"configure", "create"}
  PROVE  Kept(c, at, u)
<1>1. HoldsItsOwn(at, u, config) /\ Readied(at, u, flagged')  BY DEF HoldsItsOwn, Readied, Plain
<1> QED  BY <1>1, KeptOn DEF Plain

LEMMA KeptClaim == ASSUME FleetFits, FleetTyped, NEW c \in Runners, ClaimTick(c) PROVE \E at, u : Kept(c, at, u)
<1>1. CASE Done(c, doing[c], tick[c])
  <2>1. doing[c] = "idle"  BY DEF ClaimTick, Doing
  <2> QED  BY <1>1, <2>1, KeptIdle
<1>2. CASE \E plan : Done(c, "configure", [NoTick EXCEPT !.bucket = now, !.clock = now, !.plan = plan, !.todo = fleet])
  <2>1. PICK plan : Done(c, "configure", [NoTick EXCEPT !.bucket = now, !.clock = now, !.plan = plan, !.todo = fleet])  BY <1>2
  <2> DEFINE u == [NoTick EXCEPT !.bucket = now, !.clock = now, !.plan = plan, !.todo = fleet]
  <2>2. u.labelled = {} /\ u.alarms = {} /\ u.handled = {} /\ u.todo = fleet /\ u.act = "none"  BY DEF NoTick
  <2>3. Done(c, "configure", u)  BY <2>1
  <2> HIDE DEF u
  <2>4. Fine("configure", u, flagged', config')
    BY <2>2 DEF Fine, Marked, PromotedWell, Setting, Handled, HoldsItsOwn, Readied
  <2> QED  BY <2>3, <2>4 DEF Kept, SetBack
<1> QED  BY <1>1, <1>2, Claiming

(* What a project is configured as the tick begins is not the tick's own.  *)
LEMMA FineConfigured ==
  ASSUME FleetFits, FleetTyped, SetBackInv, NEW c \in Runners, doing[c] \in {"configure", "create"}, flagged' = flagged,
         NEW p, NEW cfg, NEW at \in {"configure", "send"}, NEW u, Done(c, at, u), u = ConfiguredAs(tick[c], p, cfg), p \in Projects,
         at = "send" => tick[c].todo = {p}, config'[p] = cfg, \A q \in Projects : q # p => config'[q] = config[q]
  PROVE  Kept(c, at, u)
<1> DEFINE t == tick[c]
<1>1. t \in Ticks /\ Good(c) /\ fleet \subseteq Projects  BY AllGood, FleetConstants DEF Good
<1>2. /\ u.labelled = t.labelled /\ u.alarms = t.alarms /\ u.handled = t.handled /\ u.met = t.met /\ u.act = t.act
      /\ u.todo = t.todo \ {p} /\ u.began[p] = cfg /\ \A q \in Projects : q # p => u.began[q] = t.began[q]
      /\ u.clock = t.clock
  BY <1>1 DEF ConfiguredAs, Ticks
<1>3. t.act = "none"  BY <1>1 DEF Good, Pass
<1>4. ASSUME Undisturbed(u) PROVE Fine(at, u, flagged', config')
  <2>1. Fine(doing[c], t, flagged, config)  BY <1>2, <1>4, OwnFine
  <2> HIDE DEF t
  <2>2. Marked(u, flagged')  BY <1>2, <2>1 DEF Fine, Marked
  <2>3. PromotedWell(at, u, flagged', config')
    <3> SUFFICES ASSUME NEW q \in fleet, Mine(q, u, config'), ~Setting(at, u, q) PROVE FALSE
      BY DEF PromotedWell
    <3>1. q \in Projects  BY <1>1
    <3>2. q # p  BY <1>2 DEF Mine, Enforces
    <3>3. Mine(q, t, config)  BY <1>2, <3>1, <3>2 DEF Mine
    <3>4. ~Setting(doing[c], t, q)  BY <1>2, <3>2 DEF Setting, t
    <3> QED  BY <1>3, <2>1, <3>3, <3>4 DEF Fine, PromotedWell
  <2>4. t.handled = {}  BY <2>1 DEF Fine, Handled
  <2> QED  BY <1>2, <1>3, <2>2, <2>3, <2>4 DEF Fine, Handled, HoldsItsOwn, Readied
<1> QED  BY <1>4 DEF Kept, SetBack

(* A rule of a project the tick heard an alarm of reads as noisy.          *)
LEMMA HeardNoisy ==
  ASSUME Typed, NEW t \in Ticks, t.labelled \subseteq 1..Len(flagged), Marked(t, flagged), NEW p \in t.alarms
  PROVE  State(p, Noisy) = "noisy" /\ Noisy \in WatchedRules
<1>1. PICK i \in t.labelled : Alarm(flagged[i], p)  BY DEF Marked
<1>2. i \in 1..Len(flagged) /\ DOMAIN flagged = 1..Len(flagged)  BY DEF Typed
<1>3. flagged[i].rule = Noisy /\ flagged[i].counted = "false_alarm" /\ flagged[i].project = p
  BY <1>1, <1>2 DEF Typed, Marked, Alarm
<1>4. i \in OfRule(p, Noisy)  BY <1>2, <1>3 DEF OfRule
<1> QED  BY <1>3, <1>4 DEF State, WatchedRules, Noisy

LEMMA KeptLook == ASSUME FleetFits, FleetTyped, SetBackInv, NEW c \in Runners, LookNoisy(c) PROVE \E at, u : Kept(c, at, u)
<1> DEFINE t == tick[c]  noisy(p) == {r \in WatchedRules : State(p, r) = "noisy" /\ Enforces(config[p], r)}
<1>1. PICK p \in t.alarms \ t.handled, at \in {"noisy", "noisy_load"}, u \in Ticks :
        /\ Done(c, at, u) /\ Alike(u, t) /\ u.handled = t.handled \cup {p} /\ u.act = t.act
        /\ \/ at = "noisy" /\ StageOf(t.began[p]) # "enforce" /\ u.met = t.met
           \/ at = "noisy" /\ u.met = t.met \cup {"fault"}
           \/ at = "noisy" /\ noisy(p) = {} /\ u.met = t.met
           \/ /\ at = "noisy_load" /\ u.project = p /\ u.rules = noisy(p) /\ u.met = t.met
              /\ StageOf(t.began[p]) = "enforce"
  BY Looking
<1>2. doing[c] = "noisy" /\ Still  BY Looking
<1>3. t \in Ticks /\ t.labelled \subseteq 1..Len(flagged) /\ Typed /\ (Undisturbed(u) => Fine("noisy", t, flagged, config))
  BY <1>1, <1>2, OwnFine
<1>4. ASSUME Undisturbed(u) PROVE Fine(at, u, flagged, config)
  <2>1. Fine("noisy", t, flagged, config)  BY <1>3, <1>4
  <2>2. Marked(t, flagged) /\ Marked(u, flagged)  BY <1>1, <2>1 DEF Fine, Marked, Alike
  <2>3. PromotedWell(at, u, flagged, config)
    <3> SUFFICES ASSUME NEW q \in fleet, Mine(q, u, config)
                 PROVE  u.act = "swept" /\ q \notin u.alarms /\ NoneLeft(q, u, flagged)
      BY <1>1 DEF PromotedWell
    <3>1. Mine(q, t, config) /\ ~Setting("noisy", t, q)  BY <1>1 DEF Mine, Alike, Setting
    <3>2. t.act = "swept" /\ q \notin t.alarms /\ NoneLeft(q, t, flagged)  BY <2>1, <3>1 DEF Fine, PromotedWell
    <3>3. NoneLeft(q, u, flagged)  BY <1>1, <3>2 DEF NoneLeft, Seen, Old, Alike
    <3> QED  BY <1>1, <3>2, <3>3 DEF Alike
  <2>4. Enforces(config[p], Noisy) => at = "noisy_load" /\ u.project = p /\ Noisy \in u.rules
    <3>1. p \in fleet  BY <1>3 DEF Ticks
    <3>2. State(p, Noisy) = "noisy" /\ Noisy \in WatchedRules
      <4> HIDE DEF t
      <4> QED  BY <1>3, <2>2, HeardNoisy
    <3>3. Enforces(config[p], Noisy) => StageOf(t.began[p]) = "enforce" /\ Noisy \in noisy(p)
      <4>1. ~Mine(p, t, config)  BY <2>1, <3>1 DEF Fine, PromotedWell, Setting
      <4> QED  BY <3>2, <4>1 DEF Mine
    <3>4. ~(u.met = t.met \cup {"fault"})  BY <1>4 DEF Undisturbed
    <3> HIDE DEF noisy, t
    <3> QED  BY <1>1, <3>3, <3>4
  <2>5. Handled(at, u, config)
    <3>1. t.handled \subseteq t.alarms /\ \A q \in t.handled : ~Enforces(config[q], Noisy)  BY <2>1 DEF Fine, Handled
    <3> HIDE DEF t
    <3> QED  BY <1>1, <2>4, <3>1 DEF Handled, Alike
  <2>6. HoldsItsOwn(at, u, config) /\ Readied(at, u, flagged)  BY <1>1 DEF HoldsItsOwn, Readied
  <2> QED  BY <2>2, <2>3, <2>5, <2>6 DEF Fine
<1>5. flagged' = flagged /\ config' = config  BY <1>2 DEF Still
<1>6. SetBack(at, u, flagged', config')  BY <1>4, <1>5 DEF SetBack
<1> QED  BY <1>1, <1>6 DEF Kept

LEMMA KeptSaveNoisy ==
  ASSUME FleetFits, FleetTyped, SetBackInv, NEW c \in Runners, SaveNoisy(c) PROVE Kept(c, "noisy", Dropped(tick[c]))
<1> DEFINE t == tick[c]  u == Dropped(t)  p == t.project
<1>1. /\ doing[c] = "noisy_save" /\ p \in fleet /\ flagged' = flagged
      /\ Done(c, "noisy", u) /\ Alike(u, t) /\ u.met = t.met /\ u.handled = t.handled
      /\ config'[p].stage = t.held.stage /\ config'[p].observing = t.held.observing \cup t.rules
      /\ \A q \in fleet : q # p => config'[q] = config[q]
  BY SavingNoisy
<1>2. t \in Ticks /\ (Undisturbed(u) => Fine("noisy_save", t, flagged, config))  BY <1>1, OwnFine
<1>3. u.act = t.act  BY <1>2, Dropping, AllGood
<1> HIDE DEF u, t
<1>4. ASSUME Undisturbed(u) PROVE Fine("noisy", u, flagged, config')
  <2>1. Fine("noisy_save", t, flagged, config)  BY <1>2, <1>4
  <2>2. t.held = config[p]  BY <2>1 DEF Fine, HoldsItsOwn
  <2>3. ASSUME NEW q \in fleet, Enforces(config'[q], Noisy)
        PROVE  Enforces(config[q], Noisy) /\ (q = p => Noisy \notin t.rules)
    <3>1. CASE q = p  BY <1>1, <2>2, <2>3, <3>1 DEF Enforces, StageOf
    <3>2. CASE q # p  BY <1>1, <2>3, <3>2
    <3> QED  BY <3>1, <3>2
  <2>4. Marked(u, flagged)  BY <1>1, <2>1 DEF Fine, Marked, Alike
  <2>5. PromotedWell("noisy", u, flagged, config')
    <3> SUFFICES ASSUME NEW q \in fleet, Mine(q, u, config')
                 PROVE  u.act = "swept" /\ q \notin u.alarms /\ NoneLeft(q, u, flagged)
      BY DEF PromotedWell
    <3>1. Mine(q, t, config) /\ ~Setting("noisy_save", t, q)  BY <1>1, <2>3 DEF Mine, Alike, Setting
    <3>2. t.act = "swept" /\ q \notin t.alarms /\ NoneLeft(q, t, flagged)  BY <2>1, <3>1 DEF Fine, PromotedWell
    <3>3. NoneLeft(q, u, flagged)  BY <1>1, <3>2 DEF NoneLeft, Seen, Old, Alike
    <3> QED  BY <1>1, <1>3, <3>2, <3>3 DEF Alike
  <2>6. Handled("noisy", u, config')
    <3>1. /\ t.handled \subseteq t.alarms
          /\ \A q \in t.handled : Enforces(config[q], Noisy) => p = q /\ Noisy \in t.rules
      BY <2>1 DEF Fine, Handled
    <3>2. t.handled \subseteq fleet  BY <1>2 DEF Ticks
    <3>3. \A q \in t.handled : ~Enforces(config'[q], Noisy)  BY <2>3, <3>1, <3>2
    <3> QED  BY <1>1, <3>1, <3>3 DEF Handled, Alike
  <2>7. HoldsItsOwn("noisy", u, config') /\ Readied("noisy", u, flagged)  BY DEF HoldsItsOwn, Readied
  <2> QED  BY <2>4, <2>5, <2>6, <2>7 DEF Fine
<1>5. SetBack("noisy", u, flagged', config')  BY <1>1, <1>4 DEF SetBack
<1> QED  BY <1>1, <1>5 DEF Kept, u, t

(* A change of stage, in which the tick has promoted no rule before.       *)
LEMMA KeptStage ==
  ASSUME FleetFits, FleetTyped, SetBackInv, NEW c \in Runners, SaveDemoted(c) \/ SavePromoted(c)
  PROVE  Kept(c, "sweep", Acted(tick[c]))
<1> DEFINE t == tick[c]  u == Acted(t)  p == t.project
<1>1. /\ doing[c] \in {"demote_save", "promote_save"} /\ p \in fleet /\ flagged' = flagged
      /\ Done(c, "sweep", u) /\ Alike(u, t) /\ u.met = t.met /\ u.handled = t.handled /\ u.act = "swept"
      /\ \A q \in fleet : q # p => config'[q] = config[q]
      /\ \/ config'[p].stage = "observe"
         \/ doing[c] = "promote_save" /\ t.act = "promote" /\ config'[p].observing = WatchedRules \ t.rules
  BY SavingDemoted, SavingPromoted
<1>2. t \in Ticks /\ (Undisturbed(u) => Fine(doing[c], t, flagged, config))  BY <1>1, OwnFine
<1>3. t.act # "swept"
  <2>1. Pass(doing[c], t)  BY AllGood DEF Good
  <2> QED  BY <1>1, <2>1 DEF Pass
<1> HIDE DEF u, t
<1>4. ASSUME Undisturbed(u) PROVE Fine("sweep", u, flagged, config')
  <2>1. Fine(doing[c], t, flagged, config)  BY <1>2, <1>4
  <2>2. Marked(u, flagged)  BY <1>1, <2>1 DEF Fine, Marked, Alike
  <2>3. Enforces(config'[p], Noisy) => /\ doing[c] = "promote_save" /\ t.act = "promote" /\ Noisy \in t.rules /\ p \notin t.alarms
    <3>1. Enforces(config'[p], Noisy) => doing[c] = "promote_save" /\ t.act = "promote" /\ Noisy \in t.rules
      BY <1>1 DEF Enforces, StageOf, WatchedRules, Noisy
    <3>2. doing[c] = "promote_save" /\ p \in t.alarms => Noisy \notin t.rules  BY <2>1 DEF Fine, Readied
    <3> QED  BY <3>1, <3>2
  <2>4. PromotedWell("sweep", u, flagged, config')
    <3> SUFFICES ASSUME NEW q \in fleet, Mine(q, u, config')
                 PROVE  q \notin u.alarms /\ NoneLeft(q, u, flagged)
      BY <1>1 DEF PromotedWell
    <3>1. q = p
      <4>1. q # p => Mine(q, t, config)  BY <1>1 DEF Mine, Alike
      <4>2. ~Setting(doing[c], t, q)  BY <1>1 DEF Setting
      <4> QED  BY <1>3, <2>1, <4>1, <4>2 DEF Fine, PromotedWell
    <3>2. doing[c] = "promote_save" /\ t.act = "promote" /\ p \notin t.alarms  BY <2>3, <3>1 DEF Mine
    <3>3. NoneLeft(p, u, flagged)  BY <1>1, <2>1, <3>2 DEF Fine, Readied, NoneLeft, Seen, Old, Alike
    <3> QED  BY <1>1, <3>1, <3>2, <3>3 DEF Alike
  <2>5. Handled("sweep", u, config')
    <3>1. t.handled \subseteq t.alarms /\ \A q \in t.handled : ~Enforces(config[q], Noisy)  BY <1>1, <2>1 DEF Fine, Handled
    <3>2. t.handled \subseteq fleet  BY <1>2 DEF Ticks
    <3>3. \A q \in t.handled : ~Enforces(config'[q], Noisy)  BY <1>1, <2>3, <3>1, <3>2
    <3> QED  BY <1>1, <3>1, <3>3 DEF Handled, Alike
  <2>6. HoldsItsOwn("sweep", u, config') /\ Readied("sweep", u, flagged)  BY DEF HoldsItsOwn, Readied
  <2> QED  BY <2>2, <2>4, <2>5, <2>6 DEF Fine
<1>5. SetBack("sweep", u, flagged', config')  BY <1>1, <1>4 DEF SetBack
<1> QED  BY <1>1, <1>5 DEF Kept, u, t

LEMMA KeptLabel ==
  ASSUME FleetFits, FleetTyped, SetBackInv, NEW c \in Runners, NEW at \in {"review", "label"}, doing[c] = at,
         NEW i \in tick[c].todo, LabelsRow(c, i, at)
  PROVE  \E u : Kept(c, at, u)
<1> DEFINE t == tick[c]  u == WithLabel(t, i)
<1>1. /\ config' = config /\ i \in 1..Len(flagged) /\ flagged'[i].review = LabelFor(flagged[i])
      /\ \/ /\ Done(c, at, u)
            /\ flagged' = [flagged EXCEPT ![i].review = LabelFor(flagged[i]), ![i].counted = LabelFor(flagged[i])]
         \/ Done(c, at, Meets(u, "fault"))
  BY LabellingTyped
<1>2. t \in Ticks /\ Typed /\ Good(c)  BY AllGood DEF Good
<1>3. LabelledAs(t, i, u) /\ "fault" \in Meets(u, "fault").met  BY <1>1, <1>2, LabelledFields
<1>4. CASE Done(c, at, Meets(u, "fault"))  BY <1>3, <1>4, KeptFailed
<1>5. CASE /\ Done(c, at, u)
           /\ flagged' = [flagged EXCEPT ![i].review = LabelFor(flagged[i]), ![i].counted = LabelFor(flagged[i])]
  <2>1. flagged'[i].counted = LabelFor(flagged[i])
    <3> DEFINE half == [flagged EXCEPT ![i].review = LabelFor(flagged[i])]  word == LabelFor(flagged[i])
    <3>1. flagged \in [1..Len(flagged) -> FlaggedRows] /\ flagged[i] \in FlaggedRows  BY <1>1, <1>2 DEF Typed
    <3>2. half[i] = [flagged[i] EXCEPT !.review = word] /\ DOMAIN half = 1..Len(flagged)  BY <1>1, <3>1
    <3>3. "counted" \in DOMAIN half[i]  BY <3>1, <3>2 DEF FlaggedRows
    <3>4. flagged' = [half EXCEPT ![i].counted = word]  BY <1>5
    <3> HIDE DEF half, word
    <3>5. flagged'[i].counted = word  BY <1>1, <3>2, <3>3, <3>4
    <3> QED  BY <3>5 DEF word
  <2>2. /\ Grown /\ LabelsKept /\ RowsFit(flagged') /\ t.clock <= now /\ t.labelled \subseteq 1..Len(flagged)
        /\ t.todo \subseteq 1..Len(flagged) /\ Pass(at, t)
    BY <1>2, <1>5 DEF Done, Moved, Good, InHand
  <2>3. flagged[i].noise => LabelFor(flagged[i]) = "false_alarm"  BY DEF LabelFor
  <2>4. t.met \subseteq u.met  BY <1>3 DEF LabelledAs
  <2>5. Undisturbed(u) => Fine(at, t, flagged, config)  BY <1>5, <2>4, OwnFine
  <2> HIDE DEF u, t
  <2>6. ASSUME Undisturbed(u) PROVE Fine(at, u, flagged', config)
    <3>1. Fine(at, t, flagged, config)  BY <2>5, <2>6
    <3>2. Marked(t, flagged')  BY <1>2, <2>2, <3>1, MarkedOn DEF Fine
    <3>3. Marked(u, flagged')
      <4>1. /\ flagged'[i].noise = flagged[i].noise /\ flagged'[i].project = flagged[i].project /\ flagged[i].noise \in BOOLEAN
        BY <1>1, <1>2, <2>2, AlarmStays
      <4>2. flagged'[i].noise =>
              flagged'[i].review # "none" /\ flagged'[i].counted = "false_alarm" /\ flagged'[i].project \in u.alarms
        BY <1>1, <1>3, <2>1, <2>3, <4>1 DEF LabelledAs
      <4>3. t.alarms \subseteq u.alarms /\ u.labelled = t.labelled \cup {i}  BY <1>3 DEF LabelledAs
      <4>4. ASSUME NEW q \in u.alarms PROVE \E k \in u.labelled : Alarm(flagged'[k], q)
        <5>1. CASE q \in t.alarms  BY <3>2, <4>3, <5>1 DEF Marked
        <5>2. CASE q \notin t.alarms
          <6>1. flagged[i].noise /\ q = flagged[i].project  BY <1>3, <5>2 DEF LabelledAs
          <6> QED  BY <4>1, <4>3, <6>1 DEF Alarm
        <5> QED  BY <5>1, <5>2
      <4> QED  BY <3>2, <4>2, <4>3, <4>4 DEF Marked
    <3>4. PromotedWell(at, u, flagged', config)
      <4> SUFFICES ASSUME NEW q \in fleet, Mine(q, u, config)
                   PROVE  /\ u.act = "swept" /\ q \notin u.alarms /\ NoneLeft(q, u, flagged')
                          /\ at = "label" => \A k \in u.todo : ~Alarm(flagged'[k], q)
        BY DEF PromotedWell
      <4>1. Mine(q, t, config) /\ ~Setting(at, t, q)  BY <1>3 DEF Mine, LabelledAs, Setting
      <4>2. /\ t.act = "swept" /\ q \notin t.alarms /\ NoneLeft(q, t, flagged)
            /\ at = "label" => \A k \in t.todo : ~Alarm(flagged[k], q)
        BY <3>1, <4>1 DEF Fine, PromotedWell
      <4>3. at = "label"  BY <2>2, <4>2 DEF Pass
      <4>4. ~Alarm(flagged[i], q) /\ i \in t.todo  BY <4>2, <4>3 DEF t
      <4>5. q \notin u.alarms  BY <1>3, <4>2, <4>4 DEF LabelledAs, Alarm
      <4>6. NoneLeft(q, u, flagged')  BY <1>2, <1>3, <2>2, <4>2, NoneLeftOn DEF LabelledAs
      <4>7. ASSUME NEW k \in u.todo PROVE ~Alarm(flagged'[k], q)
        <5>1. k \in t.todo /\ k \in 1..Len(flagged)  BY <1>3, <2>2 DEF LabelledAs
        <5> QED  BY <1>2, <2>2, <4>2, <4>3, <5>1, AlarmStays DEF Alarm
      <4> QED  BY <1>3, <4>2, <4>5, <4>6, <4>7 DEF LabelledAs
    <3>5. Handled(at, u, config)  BY <1>3, <3>1 DEF Fine, Handled, LabelledAs
    <3>6. Readied(at, u, flagged')
      <4> SUFFICES ASSUME u.act = "promote", at = "label", NEW k \in 1..Len(flagged'), Alarm(flagged'[k], u.project),
                          Seen(flagged', k, u), flagged'[k].review = "none"
                   PROVE  k \in u.todo
        BY DEF Readied
      <4>1. k \in 1..Len(flagged) /\ Seen(flagged, k, t)  BY <1>2, <1>3, <2>2, SeenBefore DEF LabelledAs
      <4>2. Alarm(flagged[k], t.project) /\ flagged[k].noise  BY <1>2, <1>3, <2>2, <4>1, AlarmStays DEF Alarm, LabelledAs
      <4>3. flagged[k].review = "none"  BY <1>2, <2>2, <4>1, <4>2, AlarmStays
      <4>4. k \in t.todo  BY <1>3, <3>1, <4>1, <4>2, <4>3 DEF Fine, Readied, LabelledAs
      <4>5. k # i  BY <1>1, <2>3, <4>2
      <4> QED  BY <1>3, <4>4, <4>5 DEF LabelledAs
    <3>7. HoldsItsOwn(at, u, config)  BY DEF HoldsItsOwn
    <3> QED  BY <3>3, <3>4, <3>5, <3>6, <3>7 DEF Fine
  <2>7. SetBack(at, u, flagged', config')  BY <1>1, <2>6 DEF SetBack
  <2> QED  BY <1>5, <2>7 DEF Kept
<1> QED  BY <1>1, <1>4, <1>5

LEMMA KeptSweep == ASSUME FleetFits, FleetTyped, SetBackInv, NEW c \in Runners, SweepRead(c) PROVE \E u : Kept(c, "label", u)
<1> DEFINE t == tick[c]
<1>1. PICK u \in Ticks :
        /\ Done(c, "label", u) /\ Alike(u, t) /\ u.handled = t.handled /\ u.act = t.act /\ u.project = t.project
        /\ u.todo = Queue(t) /\ t.met \subseteq u.met
  BY SweepReading
<1>2. doing[c] = "sweep" /\ Still  BY SweepReading
<1>3. Typed /\ t \in Ticks /\ DOMAIN flagged = 1..Len(flagged)  BY AllGood DEF Good, Typed
<1>4. MinAge > 0 /\ MinAge \in Nat /\ t.clock \in Nat  BY <1>3, FleetConstants DEF Ticks, Typed
<1>5. \A i \in Queue(t) : i \in 1..Len(flagged) /\ flagged[i].review = "none" /\ i > Len(flagged) - RowBudget
  BY <1>3 DEF Queue, Reached, WithinHorizon, Waits
<1>6. ASSUME Fine("sweep", t, flagged, config), NEW q \in fleet, NEW i \in u.todo, Mine(q, t, config)
      PROVE  ~Alarm(flagged[i], q)
  <2>1. t.act = "swept" /\ NoneLeft(q, t, flagged)  BY <1>6 DEF Fine, PromotedWell, Setting
  <2>2. Old(t, flagged[i])
    BY <1>1, <1>6, <2>1 DEF Queue, Reached, WithinHorizon, OldEnough, Old
  <2> QED  BY <1>1, <1>5, <1>6, <2>1, <2>2 DEF NoneLeft, Seen
<1>7. ASSUME Fine("sweep", t, flagged, config) PROVE Readied("label", u, flagged)
  <2> SUFFICES ASSUME t.act = "promote", NEW i \in 1..Len(flagged), Alarm(flagged[i], t.project), Seen(flagged, i, u),
                      flagged[i].review = "none"
               PROVE  i \in Queue(t)
    BY <1>1 DEF Readied
  <2>1. i > Len(flagged) - RowBudget /\ t.clock - flagged[i].at >= MinAge /\ t.clock - flagged[i].at <= Horizon
    BY <1>1 DEF Seen, Old, Alike
  <2>2. flagged[i].noise /\ flagged[i].project = t.project  BY DEF Alarm
  <2>3. LabelFor(flagged[i]) # "none"  BY <2>2 DEF LabelFor
  <2>4. i \notin t.labelled  BY <1>7, <2>2 DEF Fine, Marked
  <2>5. t.clock - flagged[i].at >= 0
    <3>1. flagged[i].at \in Nat
      <4>1. flagged[i] \in FlaggedRows  BY <1>3 DEF Typed
      <4> QED  BY <4>1 DEF FlaggedRows
    <3> QED  BY <1>4, <2>1, <3>1
  <2> QED  BY <1>3, <2>1, <2>2, <2>3, <2>4, <2>5 DEF Queue, Reached, WithinHorizon, InScope, OldEnough, Waits
<1>8. flagged' = flagged /\ config' = config /\ doing[c] \notin {"idle", "noisy_load", "noisy_save"}  BY <1>2 DEF Still
<1>9. HoldsItsOwn("label", u, config)  BY DEF HoldsItsOwn
<1>10. \A q \in fleet : ~Setting("sweep", t, q)  BY DEF Setting
<1> QED  BY <1>1, <1>2, <1>6, <1>7, <1>8, <1>9, <1>10, KeptOn DEF Alike

LEMMA KeptRules == ASSUME FleetFits, FleetTyped, SetBackInv, NEW c \in Runners, ReadRules(c) PROVE \E at, u : Kept(c, at, u)
<1> DEFINE t == tick[c]
<1>1. doing[c] = "rules" /\ config' = config /\ flagged' = flagged  BY ReadingRules DEF Still
<1>2. Good(c) /\ t \in Ticks /\ Typed /\ t.act = "promote" /\ t.clock <= now /\ t.labelled \subseteq 1..Len(flagged)
  BY <1>1, AllGood DEF Good, Pass, InHand
<1>3. \A q \in fleet : ~Setting(doing[c], t, q)  BY <1>1 DEF Setting
<1>4. CASE \E u \in Ticks : Done(c, "sweep", u) /\ Alike(u, t) /\ t.met \subseteq u.met /\ u.handled = t.handled
  <2>1. "sweep" \in Plain  BY DEF Plain, Places
  <2> QED  BY <1>1, <1>2, <1>3, <1>4, <2>1, KeptPlain DEF Alike
<1>5. CASE \E u \in Ticks :
             /\ Done(c, "promote_load", u) /\ Alike(u, t) /\ u.met = t.met /\ u.handled = t.handled
             /\ u.act = "promote" /\ u.project = t.project /\ u.rules = PromotedRules(u.project)
  <2>1. PICK u \in Ticks :
          /\ Done(c, "promote_load", u) /\ Alike(u, t) /\ u.met = t.met /\ u.handled = t.handled
          /\ u.act = "promote" /\ u.project = t.project /\ u.rules = PromotedRules(u.project)
    BY <1>5
  <2>2. Grown /\ LabelsKept /\ RowsFit(flagged')  BY <2>1 DEF Done, Moved
  <2>3. ASSUME Fine("rules", t, flagged, config) PROVE Readied("promote_load", u, flagged')
    <3>1. u.project \in u.alarms => Noisy \notin u.rules
      <4>1. ASSUME u.project \in t.alarms PROVE State(u.project, Noisy) = "noisy"
        <5>1. Marked(t, flagged)  BY <2>3 DEF Fine
        <5> HIDE DEF t
        <5> QED  BY <1>2, <4>1, <5>1, HeardNoisy
      <4> QED  BY <2>1, <4>1 DEF PromotedRules, Alike
    <3>2. u.clock = t.clock /\ Readied("rules", t, flagged)  BY <2>1, <2>3 DEF Alike, Fine
    <3> HIDE DEF t
    <3> QED  BY <1>2, <2>1, <2>2, <3>1, <3>2, ReadiedOn
  <2>4. HoldsItsOwn("promote_load", u, config)  BY DEF HoldsItsOwn
  <2> QED  BY <1>1, <1>2, <1>3, <2>1, <2>3, <2>4, KeptOn DEF Alike
<1> QED  BY <1>4, <1>5, ReadingRules

LEMMA KeptGoesOn ==
  ASSUME FleetFits, FleetTyped, SetBackInv, NEW c \in Runners, ReviewEnds(c) \/ NoisyEnds(c) \/ SweepEnds(c)
  PROVE  \E at : Kept(c, at, tick[c])
<1> DEFINE t == tick[c]
<1>1. Good(c) /\ t \in Ticks /\ Typed /\ t.clock <= now /\ t.labelled \subseteq 1..Len(flagged) /\ Pass(doing[c], t)
  BY AllGood DEF Good, InHand
<1>2. CASE ReviewEnds(c)
  <2>1. doing[c] = "review" /\ Still /\ Done(c, "noisy", t) /\ "noisy" \in Plain  BY <1>2, GoingOn DEF Plain, Places
  <2> QED  BY <2>1, KeptPlain DEF Still, Setting
<1>3. CASE NoisyEnds(c)
  <2>1. doing[c] = "noisy" /\ Still /\ Done(c, AfterNoisy(t), t) /\ t.alarms \subseteq t.handled  BY <1>3, GoingOn
  <2>2. AfterNoisy(t) \in {"stage", "done"}  BY DEF AfterNoisy
  <2>3. HoldsItsOwn(AfterNoisy(t), t, config) /\ Readied(AfterNoisy(t), t, flagged')  BY <2>2 DEF HoldsItsOwn, Readied
  <2> QED  BY <2>1, <2>2, <2>3, KeptOn DEF Still, Setting
<1>4. CASE SweepEnds(c)
  <2>1. doing[c] = "label" /\ Still /\ Done(c, AfterSweep(t), t) /\ t.todo = {}  BY <1>4, GoingOn
  <2>2. CASE t.act = "promote"
    <3>1. AfterSweep(t) = "rules"  BY <2>2 DEF AfterSweep
    <3>2. Grown /\ LabelsKept /\ RowsFit(flagged')  BY <2>1 DEF Done, Moved
    <3>3. ASSUME Fine("label", t, flagged, config) PROVE Readied("rules", t, flagged')
      <4>1. Readied("label", t, flagged)  BY <3>3 DEF Fine
      <4> HIDE DEF t
      <4> QED  BY <1>1, <2>1, <2>2, <3>2, <4>1, ReadiedOn
    <3>4. HoldsItsOwn("rules", t, config)  BY DEF HoldsItsOwn
    <3> QED  BY <2>1, <3>1, <3>3, <3>4, KeptOn DEF Still, Setting
  <2>3. CASE t.act # "promote"
    <3>1. AfterSweep(t) = "noisy" /\ "noisy" \in Plain  BY <2>3 DEF AfterSweep, Plain, Places
    <3> QED  BY <2>1, <3>1, KeptPlain DEF Still, Setting
  <2> QED  BY <2>2, <2>3
<1> QED  BY <1>2, <1>3, <1>4

LEMMA KeptLoad ==
  ASSUME FleetFits, FleetTyped, SetBackInv, NEW c \in Runners, NEW from, NEW to, NEW back, NEW act,
         <<from, to>> \in {<<"noisy_load", "noisy_save">>, <<"demote_load", "demote_save">>, <<"promote_load", "promote_save">>},
         Loaded(c, from, to, back, act), from = "promote_load" => tick[c].act = "promote"
  PROVE  \E at, u : Kept(c, at, u)
<1> DEFINE t == tick[c]
<1>1. doing[c] = from /\ config' = config /\ flagged' = flagged /\ from \in {"noisy_load", "demote_load", "promote_load"}
  BY DEF Loaded, Still
<1>2. Good(c) /\ t \in Ticks /\ Typed /\ t.clock <= now /\ t.labelled \subseteq 1..Len(flagged)  BY AllGood DEF Good, InHand
<1>3. CASE \E u \in Ticks : Done(c, back, u) /\ u.met = t.met \cup {"fault"}
  <2>1. PICK u \in Ticks : Done(c, back, u) /\ u.met = t.met \cup {"fault"}  BY <1>3
  <2>2. "fault" \in u.met  BY <2>1
  <2> QED  BY <2>1, <2>2, KeptFailed
<1>4. CASE \E u \in Ticks :
             /\ Done(c, to, u) /\ Alike(u, t) /\ u.handled = t.handled /\ u.met = t.met
             /\ u.held = config[t.project] /\ u.project = t.project /\ u.rules = t.rules /\ u.act = t.act
  <2>1. PICK u \in Ticks :
          /\ Done(c, to, u) /\ Alike(u, t) /\ u.handled = t.handled /\ u.met = t.met
          /\ u.held = config[t.project] /\ u.project = t.project /\ u.rules = t.rules /\ u.act = t.act
    BY <1>4
  <2>2. Grown /\ LabelsKept /\ RowsFit(flagged')  BY <2>1 DEF Done, Moved
  <2>3. HoldsItsOwn(to, u, config)  BY <2>1 DEF HoldsItsOwn
  <2>4. ASSUME Fine(from, t, flagged, config) PROVE Readied(to, u, flagged')
    <3>1. Readied(from, t, flagged) /\ u.clock = t.clock /\ u.alarms = t.alarms  BY <2>1, <2>4 DEF Fine, Alike
    <3>2. CASE from = "promote_load"
      <4>1. to = "promote_save" /\ t.act = "promote"  BY <3>2
      <4>2. u.project \in u.alarms => Noisy \notin u.rules  BY <2>1, <3>1, <3>2 DEF Readied
      <4> HIDE DEF t
      <4> QED  BY <1>2, <2>1, <2>2, <3>1, <3>2, <4>1, <4>2, ReadiedOn
    <3>3. CASE from # "promote_load"  BY <3>3 DEF Readied
    <3> QED  BY <3>2, <3>3
  <2>5. from = "noisy_load" => to = "noisy_save"  OBVIOUS
  <2>6. to \notin {"configure", "create", "label", "done"}  OBVIOUS
  <2>7. /\ u.began = t.began /\ u.alarms = t.alarms /\ u.labelled = t.labelled /\ u.clock = t.clock /\ t.met \subseteq u.met
        /\ \A q \in fleet : ~Setting(from, t, q)
    BY <1>1, <2>1 DEF Alike, Setting
  <2>8. Kept(c, to, u)  BY <1>1, <2>1, <2>3, <2>4, <2>5, <2>6, <2>7, KeptOn
  <2> QED  BY <2>8
<1> QED  BY <1>3, <1>4 DEF Loaded

LEMMA KeptBegins ==
  ASSUME FleetFits, FleetTyped, SetBackInv, NEW c \in Runners, ReadConfig(c) \/ CreateConfig(c)
  PROVE  \E at, u : Kept(c, at, u)
<1> DEFINE t == tick[c]  p == NextProject(t)  u(cfg) == ConfiguredAs(t, p, cfg)
<1>1. doing[c] \in {"configure", "create"}  BY DEF ReadConfig, CreateConfig, Doing
<1>2. Fresh \in Configurations /\ Good(c) /\ t \in Ticks /\ Pass(doing[c], t)  BY FleetConstants, AllGood DEF Good
<1>3. p \in Projects /\ t.act = "none"  BY <1>1, <1>2, Configured DEF Pass
<1>4. AfterProject(t, p) \in {"configure", "send"} /\ (AfterProject(t, p) = "send" => t.todo = {p})  BY DEF AfterProject
<1>5. CASE Done(c, "idle", NoTick)  BY <1>5, KeptIdle
<1>6. CASE ReadConfig(c) /\ Done(c, "create", t)
  <2>1. config' = config /\ doing[c] = "configure"  BY <1>6, Reading DEF ReadConfig, Doing
  <2>2. \A q \in fleet : Setting(doing[c], t, q) => Setting("create", t, q)  BY DEF Setting
  <2>3. "create" \in Plain  BY DEF Plain, Places
  <2>4. Kept(c, "create", t)  BY <1>6, <2>1, <2>2, <2>3, KeptPlain
  <2> QED  BY <2>4
<1>7. ASSUME NEW cfg, Done(c, AfterProject(t, p), u(cfg)), flagged' = flagged, config'[p] = cfg,
             \A q \in Projects : q # p => config'[q] = config[q]
      PROVE  \E at, v : Kept(c, at, v)
  <2> DEFINE v == u(cfg)  at == AfterProject(t, p)
  <2>1. v = ConfiguredAs(t, p, cfg) /\ Done(c, at, v) /\ at \in {"configure", "send"} /\ (at = "send" => t.todo = {p})
    BY <1>4, <1>7
  <2> HIDE DEF v, at, p
  <2>2. Kept(c, at, v)  BY <1>1, <1>3, <1>7, <2>1, FineConfigured
  <2> QED  BY <2>2
<1>8. CASE ReadConfig(c) /\ config' = config /\ flagged' = flagged /\ Done(c, AfterProject(t, p), u(config[p]))
  BY <1>7, <1>8
<1>9. CASE CreateConfig(c)
  <2>1. /\ Done(c, AfterProject(t, p), u(Fresh)) /\ flagged' = flagged
        /\ config'[p] = Fresh /\ \A q \in Projects : q # p => config'[q] = config[q]
    BY <1>9, Creating
  <2> QED  BY <1>7, <2>1
<1> QED  BY <1>5, <1>6, <1>8, <1>9, Reading

LEMMA KeptEach == ASSUME FleetFits, FleetTyped, SetBackInv, NEW c \in Runners, Runs(c) PROVE \E at, u : Kept(c, at, u)
<1> DEFINE t == tick[c]
<1>0. Good(c) /\ t \in Ticks /\ Pass(doing[c], t)  BY AllGood DEF Good
<1>1. CASE ClaimTick(c)  BY <1>1, KeptClaim
<1>2. CASE ReadConfig(c) \/ CreateConfig(c)  BY <1>2, KeptBegins
<1>3. CASE SendCall(c) \/ SendingEnds(c)
  <2>1. doing[c] = "send" /\ config' = config  BY <1>3, Sending, SentAll
  <2>2. PICK at \in {"send", "review"}, u \in Ticks :
          /\ Done(c, at, u) /\ u.met = t.met /\ u.began = t.began /\ u.labelled = t.labelled
          /\ u.alarms = t.alarms /\ u.handled = t.handled
    BY <1>3, Sending, SentAll
  <2>3. t.act = "none" /\ at \in Plain  BY <1>0, <2>1 DEF Pass, Plain, Places
  <2>4. Kept(c, at, u)  BY <2>1, <2>2, <2>3, KeptPlain DEF Setting
  <2> QED  BY <2>4
<1>4. CASE ReviewNow(c)
  <2>1. doing[c] = "review" /\ config' = config  BY <1>4, Reviewing
  <2>2. CASE \E i \in t.todo : LabelsRow(c, i, "review")  BY <2>1, <2>2, KeptLabel
  <2>3. CASE \E u \in Ticks : Done(c, "review", u) /\ Alike(u, t) /\ u.met = t.met /\ u.handled = t.handled
    <3>1. PICK u \in Ticks : Done(c, "review", u) /\ Alike(u, t) /\ u.met = t.met /\ u.handled = t.handled  BY <2>3
    <3>2. t.act = "none" /\ "review" \in Plain  BY <1>0, <2>1 DEF Pass, Plain, Places
    <3>3. Kept(c, "review", u)  BY <2>1, <3>1, <3>2, KeptPlain DEF Setting, Alike
    <3> QED  BY <3>3
  <2> QED  BY <1>4, <2>2, <2>3, Reviewing
<1>5. CASE ReviewEnds(c) \/ NoisyEnds(c) \/ SweepEnds(c)  BY <1>5, KeptGoesOn
<1>6. CASE LookNoisy(c)  BY <1>6, KeptLook
<1>7. CASE LoadForNoisy(c) \/ LoadForDemote(c) \/ LoadForPromote(c)  BY <1>7, LoadingEach, KeptLoad
<1>8. CASE SaveNoisy(c)  BY <1>8, KeptSaveNoisy
<1>9. CASE SaveDemoted(c) \/ SavePromoted(c)  BY <1>9, KeptStage
<1>10. CASE ChooseStage(c)
  <2>1. doing[c] = "stage" /\ config' = config  BY <1>10, Choosing DEF Still
  <2>2. PICK at \in {"sweep", "promote", "demote_load"}, u \in Ticks :
          Done(c, at, u) /\ Alike(u, t) /\ u.met = t.met /\ u.handled = t.handled
    BY <1>10, Choosing
  <2>3. t.act = "none" /\ at \in Plain  BY <1>0, <2>1 DEF Pass, Plain, Places
  <2>4. Kept(c, at, u)  BY <2>1, <2>2, <2>3, KeptPlain DEF Setting, Alike
  <2> QED  BY <2>4
<1>11. CASE Promote(c)
  <2>1. doing[c] = "promote" /\ config' = config  BY <1>11, Promoting DEF Still
  <2>2. PICK u \in Ticks : Done(c, "sweep", u) /\ Alike(u, t) /\ t.met \subseteq u.met /\ u.handled = t.handled
    BY <1>11, Promoting
  <2>3. t.act = "none" /\ "sweep" \in Plain  BY <1>0, <2>1 DEF Pass, Plain, Places
  <2>4. Kept(c, "sweep", u)  BY <2>1, <2>2, <2>3, KeptPlain DEF Setting, Alike
  <2> QED  BY <2>4
<1>12. CASE ReadRules(c)  BY <1>12, KeptRules
<1>13. CASE SweepRead(c)  BY <1>13, KeptSweep
<1>14. CASE SweepLabel(c)
  <2>1. doing[c] = "label" /\ \E i \in t.todo : LabelsRow(c, i, "label")  BY <1>14, SweepLabelling
  <2> QED  BY <2>1, KeptLabel
<1>15. CASE Finish(c) \/ Stops(c)  BY <1>15, Stopping, KeptIdle
<1> QED
  BY <1>1, <1>2, <1>3, <1>4, <1>5, <1>6, <1>7, <1>8, <1>9, <1>10, <1>11, <1>12, <1>13, <1>14, <1>15 DEF Runs

LEMMA SetBackRuns == ASSUME FleetFits, FleetTyped, SetBackInv, NEW c \in Runners, Runs(c) PROVE SetBackInv'
<1>1. PICK at, u : Kept(c, at, u)  BY KeptEach
<1>2. /\ fleet' = fleet /\ Grown /\ RowsFit(flagged') /\ LabelsKept /\ tick' \in [Runners -> Ticks]
      /\ doing'[c] = at /\ tick'[c] = u /\ \A d \in Runners : d # c => Beside(d)
  BY <1>1 DEF Kept, Done, Moved
<1>3. ASSUME NEW d \in Runners PROVE SetBack(doing'[d], tick'[d], flagged', config')
  <2>1. CASE d = c  BY <1>1, <1>2, <2>1 DEF Kept
  <2>2. CASE d # c  BY <1>2, <2>2, BesideSetBack DEF SetBackInv
  <2> QED  BY <2>1, <2>2
<1> QED  BY <1>2, <1>3 DEF SetBackInv, SetBack, Fine, PromotedWell

LEMMA SetBackAside == ASSUME FleetFits, FleetTyped, SetBackInv, Aside PROVE SetBackInv'
<1>1. /\ fleet' = fleet /\ Grown /\ RowsFit(flagged') /\ tick' \in [Runners -> Ticks]
      /\ \A d \in Runners : Beside(d) /\ (LabelsKept \/ doing[d] = "idle" \/ "other" \in tick'[d].met)
  BY DEF Aside
<1>2. ASSUME NEW d \in Runners PROVE SetBack(doing'[d], tick'[d], flagged', config')
  BY <1>1, BesideSetBack DEF SetBackInv
<1> QED  BY <1>1, <1>2 DEF SetBackInv, SetBack, Fine, PromotedWell

LEMMA SetBackStep == ASSUME FleetFits, FleetTyped, SetBackInv, [FleetNext]_fleetVars PROVE SetBackInv'
<1>1. CASE \E c \in Runners : Runs(c)  BY <1>1, SetBackRuns
<1>2. CASE Passage \/ ByHand \/ UNCHANGED fleetVars  BY <1>2, StandingAside, SetBackAside
<1> QED  BY <1>1, <1>2 DEF FleetNext

(* A tick that ended in time, met no fault and nobody else's hand leaves   *)
(* no rule enforcing that it marked a false alarm of, not even one it      *)
(* promoted itself in between: whatever the target of enforcing projects,  *)
(* the cooldown, the ages and the budget.                                  *)
THEOREM NoisyRulesSetBack == FleetFits => (FleetSpec => []NoisySetBack)
<1> SUFFICES ASSUME FleetFits PROVE FleetSpec => []NoisySetBack  OBVIOUS
<1>1. FleetInit => FleetTyped /\ SetBackInv
  <2>1. FleetInit => SetBackInv  BY DEF FleetInit, SetBackInv, SetBack
  <2> QED  BY <2>1, FleetStart
<1>2. FleetTyped /\ SetBackInv /\ [FleetNext]_fleetVars => FleetTyped' /\ SetBackInv'  BY FleetTypeStep, SetBackStep
<1>3. FleetTyped /\ SetBackInv => NoisySetBack
  <2> SUFFICES ASSUME FleetTyped, SetBackInv, NEW c \in Runners, Ended(c, {"full"}), NEW i \in tick[c].labelled, flagged[i].noise
               PROVE  ~Enforces(config[flagged[i].project], flagged[i].rule)
    BY DEF NoisySetBack
  <2>1. Good(c) /\ Typed  BY AllGood
  <2>2. doing[c] = "done" /\ Undisturbed(tick[c])  BY DEF Ended, Doing, Undisturbed
  <2>3. Fine("done", tick[c], flagged, config)  BY <2>2 DEF SetBackInv, SetBack
  <2>4. i \in 1..Len(flagged) /\ flagged[i].rule = Noisy  BY <2>1 DEF Good, InHand, Typed
  <2>5. flagged[i].project \in tick[c].handled  BY <2>3 DEF Fine, Marked, Handled
  <2> QED  BY <2>3, <2>4, <2>5 DEF Fine, Handled
<1> QED  BY <1>1, <1>2, <1>3, PTL DEF FleetSpec
=============================================================================

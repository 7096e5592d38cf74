---------------------------------- MODULE MCDesk ----------------------------------
(***************************************************************************)
(* What the service does with its rules and its policy, each part on a     *)
(* small instance: the review queue with the counts of its day, the        *)
(* drafting of a rule, the copies containers hold of a book, and the       *)
(* demo's fleet.  They share no state but their inputs, so each behaviour  *)
(* is of one part: the others stand still in their initial state.          *)
(***************************************************************************)
EXTENDS Reviews, Drafts, Rulebook, Fleet, TLC

CONSTANTS
  c1, c2,                         \* containers
  seen1, seen2, stopped, r1, r2,  \* calls, and the rules that flagged them
  pay, web                        \* projects of the fleet

VARIABLE part

TheContainers == {c1, c2}

-----------------------------------------------------------------------------
(* Two calls seen and one stopped, flagged by rules that overlap.          *)
TheCalls    == {seen1, seen2, stopped}
TheRules    == {r1, r2}
Overlapping == (seen1 :> {r1, r2}) @@ (seen2 :> {r1}) @@ (stopped :> {r1})
Refused     == {stopped}

-----------------------------------------------------------------------------
(* Rules as they may be stored, and answers as a model may give them.      *)
Reply(says, id, patterns) == Rule(id, "enforce", patterns) @@ [says |-> says]
TheReplies ==
  {Reply("not a rule", "a", "sound"), Reply("a rule", "a", "sound"), Reply("a rule", "shipped", "sound"), Reply("a rule", "none", "sound")}
TheSets ==
  {<<Rule("a", "none", "sound")>>, <<Rule("b", "a typo", "sound"), Rule("drafted-rule", "observe", "sound")>>}
TheInputs   == {"blank", "too long", "fine"}
TheReserved == {"shipped"}

-----------------------------------------------------------------------------
(* The fleet: two projects that nobody has touched or that were just       *)
(* promoted, with one call a batch and three ticks, one at a time, and one *)
(* upset; or one project just promoted, with two ticks that overlap.       *)
PayAndWeb == {pay, web}
PayAlone  == {pay}
TheFleets == {PayAndWeb, PayAlone}

NoiseOrCrossing == {<<FleetCall(pay, "noise", FALSE)>>, <<FleetCall(web, "crossing", FALSE)>>}
PaysNoise ==
  {<<FleetCall(pay, "noise", FALSE)>>,
   <<FleetCall(pay, "crossing", FALSE), FleetCall(pay, "noise", TRUE)>>,
   <<FleetCall(pay, "settings", FALSE), FleetCall(pay, "none", TRUE)>>}
TheBatches == NoiseOrCrossing \cup PaysNoise

NotSet == [stage |-> "unset", observing |-> {}, promoted |-> 0, demoted |-> 0]
JustPromoted == [NotSet EXCEPT !.stage = "enforce", !.promoted = 1]
NewOrPromoted == {NotSet, JustPromoted}

Promoted == config = [p \in Projects |-> JustPromoted]

Narrowly ==
  IF fleet = PayAlone THEN upsets' = 0 /\ now' <= 2
  ELSE /\ now' # now => \A c \in Runners : Doing(c, "idle")
       /\ ticked' # ticked => \A c \in Runners : tick'[c].plan \in NoiseOrCrossing \cup {<<>>}

-----------------------------------------------------------------------------
(* The three books, each from an empty table or one that holds what nobody *)
(* can use.                                                                *)
TheBooks == {"policy", "shared", "own"}
AsFound  == {[no |-> 0, put |-> 0], [no |-> -1, put |-> 0]}

-----------------------------------------------------------------------------
ASSUME DeskFits == ConstantsFit /\ DraftsFit /\ BookFits /\ FleetFits

(* Which of the two containers is which makes no difference.               *)
Alike == Permutations(TheContainers)

DeskInit ==
  /\ part \in {"reviews", "drafts", "book", "fleet"}
  /\ Init /\ DraftsInit /\ BookInit /\ FleetInit
  /\ part # "drafts" => Len(force) = 1
  /\ part # "book" => book = "own" /\ stored = Nothing
  /\ part # "fleet" => fleet = PayAlone
  /\ fleet = PayAlone => Promoted

DeskNext ==
  \/ part = "reviews" /\ Next /\ UNCHANGED <<part, draftVars, bookVars, fleetVars>>
  \/ part = "drafts" /\ DraftsNext /\ UNCHANGED <<part, vars, bookVars, fleetVars>>
  \/ part = "book" /\ BookNext /\ UNCHANGED <<part, vars, draftVars, fleetVars>>
  \/ part = "fleet" /\ FleetNext /\ Narrowly /\ UNCHANGED <<part, vars, draftVars, bookVars>>

deskVars == <<part, vars, draftVars, bookVars, fleetVars>>

(* The properties are those of the four modules.                           *)
DeskSpec == DeskInit /\ [][DeskNext]_deskVars
=============================================================================

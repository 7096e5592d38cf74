-------------------------------- MODULE Reviews --------------------------------
(***************************************************************************)
(* The review queue of one project's day: the ledger rows of its flagged   *)
(* calls, the daily rollup that counts them, and the reviews that label    *)
(* the rows and move the counts.  Readiness to enforce a rule is read off  *)
(* the rollup alone (application/rollups.py), so this module is about how  *)
(* far the rollup may stray from the labels.                               *)
(*                                                                         *)
(* Recording counts first and writes the row second; reviewing labels the  *)
(* row first and counts second.  Each is a call to the store of its own,   *)
(* falling back to the container's memory when the table fails.            *)
(***************************************************************************)
EXTENDS Integers, FiniteSets

CONSTANTS
  Containers,
  Calls,        \* the flagged calls of the day
  Rules,
  Flags,        \* Flags[d]: the rules call d is counted under
  Refusals,     \* the calls that were refused; the others were observed
  MaxReviews,   \* BOUND: review items posted in a behaviour
  StoreFaults,  \* a call to the table may fail
  Crashes       \* a container may die between two of them

(* What the constants must be. *)
ConstantsFit ==
  /\ IsFiniteSet(Containers) /\ IsFiniteSet(Calls)
  /\ Flags \in [Calls -> SUBSET Rules \ {{}}]
  /\ Refusals \subseteq Calls
  /\ MaxReviews \in Nat /\ StoreFaults \in BOOLEAN /\ Crashes \in BOOLEAN

Labels   == {"correct", "false_alarm"}
Row      == Labels \cup {"absent", "unlabelled"}
Counters == {"observed", "reviewed"} \cup Labels

VARIABLES
  ledger,     \* ledger[d]: call d's row on the table, by its label
  memRow,     \* memRow[c][d]: its row in container c's memory
  stats,      \* stats[n][r]: counter n of rule r in the day's rollup
  pc,         \* pc[c]: the store call container c makes next
  job,        \* job[c]: the call it is about, the label asked, the label before
  recorded,   \* calls whose recording has begun
  reviews,    \* review items posted so far
  judged,     \* HISTORY: judged[d]: the last label d was given, anywhere
  lost        \* HISTORY: which counts never reached the rollup

rows == <<ledger, memRow>>
vars == <<rows, stats, pc, job, recorded, reviews, judged, lost>>

Observed(d) == d \notin Refusals
Zero == [n \in Counters |-> [r \in Rules |-> 0]]
NoJob == [call |-> CHOOSE d \in Calls : TRUE, label |-> "unlabelled", before |-> "absent"]

Init ==
  /\ ledger = [d \in Calls |-> "absent"]
  /\ memRow = [c \in Containers |-> ledger]
  /\ stats = Zero
  /\ pc = [c \in Containers |-> "idle"] /\ job = [c \in Containers |-> NoJob]
  /\ recorded = {} /\ reviews = 0
  /\ judged = [d \in Calls |-> "unlabelled"] /\ lost = {}

-----------------------------------------------------------------------------
At(c, label) == pc[c] = label

Goes(c, label, what) ==
  pc' = [pc EXCEPT ![c] = label] /\ job' = [job EXCEPT ![c] = what]

Ends(c) == Goes(c, "idle", NoJob)

Plus(s, delta) == [n \in Counters |-> [r \in Rules |-> s[n][r] + delta[n][r]]]

(* adjust_rollup: one ADD on the table.  When that fails the counts go to  *)
(* this container's memory, which nobody reads while the table answers.    *)
Adjusts(delta, loss) ==
  \/ stats' = Plus(stats, delta) /\ UNCHANGED lost
  \/ StoreFaults /\ lost' = lost \cup {loss} /\ UNCHANGED stats

One(yes) == IF yes THEN 1 ELSE 0

(* rollup_counters: an observation counts once for every rule it flagged.  *)
Counted(d) ==
  [n \in Counters |-> [r \in Rules |->
     One(n = "observed" /\ Observed(d) /\ r \in Flags[d])]]

(* Slip: a refusal that is labelled leaves a queue it never was in.        *)
DeltasOfAnyKind(d, old, new) ==
  [n \in Counters |-> [r \in Rules |->
     IF r \notin Flags[d] \/ n = "observed" THEN 0
     ELSE IF n = "reviewed" THEN One(new \in Labels) - One(old \in Labels)
     ELSE One(new = n) - One(old = n)]]

(* review_deltas: what a label moving from old to new changes.             *)
Deltas(d, old, new) ==
  [n \in Counters |-> [r \in Rules |->
     IF r \notin Flags[d] \/ n = "observed" THEN 0
     ELSE IF n = "reviewed"
          THEN IF Observed(d) THEN One(new \in Labels) - One(old \in Labels) ELSE 0
          ELSE One(new = n) - One(old = n)]]

-----------------------------------------------------------------------------
(* record_decision: the rollup, then the row.                              *)

Record(c, d) ==
  /\ At(c, "idle") /\ d \notin recorded
  /\ recorded' = recorded \cup {d}
  /\ Adjusts(Counted(d), "recording")
  /\ Goes(c, "put", [NoJob EXCEPT !.call = d])
  /\ UNCHANGED <<rows, reviews, judged>>

Put(c) ==
  /\ At(c, "put") /\ Ends(c)
  /\ LET d == job[c].call IN
       \/ ledger' = [ledger EXCEPT ![d] = "unlabelled"] /\ UNCHANGED memRow
       \/ StoreFaults /\ memRow' = [memRow EXCEPT ![c][d] = "unlabelled"] /\ UNCHANGED ledger
  /\ UNCHANGED <<stats, recorded, reviews, judged, lost>>

-----------------------------------------------------------------------------
(* _apply_review: read the row, label it, count the label.                 *)

(* get_decision answers from memory only when the table fails.  A row that *)
(* is not found ends the item.                                             *)
ReadRow(c, d, label) ==
  /\ At(c, "idle") /\ reviews < MaxReviews
  /\ \E row \in {ledger[d]} \cup (IF StoreFaults THEN {memRow[c][d]} ELSE {}) :
       row # "absent" /\ Goes(c, "label", [call |-> d, label |-> label, before |-> row])
  /\ reviews' = reviews + 1
  /\ UNCHANGED <<rows, stats, recorded, judged, lost>>

(* The label replaced, as the update itself returned it, decides what to   *)
(* count; the same label again counts nothing.                             *)
Labelled(c, before) ==
  LET j == job[c] IN
    /\ judged' = [judged EXCEPT ![j.call] = j.label]
    /\ IF before = j.label THEN Ends(c) ELSE Goes(c, "count", [j EXCEPT !.before = before])

(* Slip: what the label replaced is taken from the row as it was read.     *)
LabelRowAsRead(c) ==
  LET j == job[c] IN
    /\ At(c, "label")
    /\ \/ /\ ledger[j.call] # "absent" /\ Labelled(c, j.before)
          /\ ledger' = [ledger EXCEPT ![j.call] = j.label] /\ UNCHANGED memRow
       \/ /\ ledger[j.call] = "absent" /\ Ends(c) /\ UNCHANGED <<rows, judged>>
    /\ UNCHANGED <<stats, recorded, reviews, lost>>

LabelRow(c) ==
  LET d == job[c].call IN
    /\ At(c, "label")
    /\ \/ /\ ledger[d] # "absent" /\ Labelled(c, ledger[d])
          /\ ledger' = [ledger EXCEPT ![d] = job[c].label] /\ UNCHANGED memRow
       \/ /\ StoreFaults /\ memRow[c][d] # "absent" /\ Labelled(c, memRow[c][d])
          /\ memRow' = [memRow EXCEPT ![c][d] = job[c].label] /\ UNCHANGED ledger
       \/ /\ ledger[d] = "absent" \/ (StoreFaults /\ memRow[c][d] = "absent")
          /\ Ends(c) /\ UNCHANGED <<rows, judged>>
    /\ UNCHANGED <<stats, recorded, reviews, lost>>

(* A first label on an observed call only shortens the queue; losing any   *)
(* other count can hide a false alarm.                                     *)
Loss(j) == IF j.before = "unlabelled" /\ Observed(j.call) THEN "first_label" ELSE "label"

CountReview(c) ==
  LET j == job[c] IN
    /\ At(c, "count") /\ Ends(c)
    /\ Adjusts(Deltas(j.call, j.before, j.label), Loss(j))
    /\ UNCHANGED <<rows, recorded, reviews, judged>>

(* The container dies with its memory and whatever it had not counted yet. *)
Crash(c) ==
  /\ Crashes /\ Ends(c)
  /\ memRow' = [memRow EXCEPT ![c] = [d \in Calls |-> "absent"]]
  /\ lost' = IF At(c, "count") THEN lost \cup {Loss(job[c])} ELSE lost
  /\ UNCHANGED <<ledger, stats, recorded, reviews, judged>>

Serve(c) ==
  \/ \E d \in Calls : Record(c, d) \/ \E label \in Labels \cup {"unlabelled"} : ReadRow(c, d, label)
  \/ Put(c) \/ LabelRow(c) \/ CountReview(c)

Next == \E c \in Containers : Serve(c) \/ Crash(c)

Spec == Init /\ [][Next]_vars

-----------------------------------------------------------------------------
(* readiness: what the page says of a rule (_state).                       *)

Waiting(r) == stats["observed"][r] > stats["reviewed"][r]

Ready(r) == stats["false_alarm"][r] = 0 /\ ~Waiting(r) /\ stats["correct"][r] > 0

-----------------------------------------------------------------------------
(* PROPERTIES                                                              *)

Pending == {c \in Containers : At(c, "count")}

Flagged(r, calls) == {d \in calls : r \in Flags[d]}

(* While every count reached the rollup, the rollup and the counts still   *)
(* under way say exactly what the labels on the calls say, however many    *)
(* reviewers label, change and clear the same calls at once (review_deltas *)
(* over the row label_decision returned).                                  *)
CountsFollowLabels ==
  lost = {} => \A r \in Rules :
    /\ stats["observed"][r] = Cardinality({d \in Flagged(r, recorded) : Observed(d)})
    /\ \A label \in Labels :
         stats[label][r]
           + Cardinality({c \in Pending : r \in Flags[job[c].call] /\ job[c].label = label})
           - Cardinality({c \in Pending : r \in Flags[job[c].call] /\ job[c].before = label})
         = Cardinality({d \in Flagged(r, recorded) : judged[d] = label})

(* A rule reads ready only when every call it flagged that ran was judged  *)
(* correct, some call was, and none a false alarm: through crashes, rows   *)
(* that never landed and first labels that were never counted.  It says    *)
(* nothing once a recording or the change of a label went uncounted.       *)
ReadyIsEarned ==
  (lost \subseteq {"first_label"} /\ \A c \in Pending : Loss(job[c]) = "first_label") =>
    \A r \in Rules : Ready(r) =>
      /\ \E d \in Flagged(r, recorded) : judged[d] = "correct"
      /\ \A d \in Flagged(r, recorded) : judged[d] # "false_alarm"
      /\ \A d \in Flagged(r, recorded) : Observed(d) => judged[d] = "correct"
=============================================================================

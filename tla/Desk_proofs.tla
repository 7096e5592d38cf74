------------------------------ MODULE Desk_proofs -------------------------------
(***************************************************************************)
(* The review queue: the counts of a day and the labels of its rows, for   *)
(* any number of containers, calls, rules and reviews, and whichever calls *)
(* fail.  The drafts: what they may cost, and what one may be, for any     *)
(* number of containers, days and drafts, whatever the model answers.  The *)
(* book of rules: how old what a call is judged by may be, and that it     *)
(* only gets newer, for any number of containers, saves and faults.        *)
(***************************************************************************)
EXTENDS Reviews, Drafts, Rulebook, FiniteSetTheorems, SequenceTheorems, WellFoundedInduction, TLAPS

Marks == Labels \cup {"unlabelled"}
Jobs  == [call : Calls \cup {NoJob.call}, label : Marks, before : Row]

Typed ==
  /\ ledger \in [Calls -> Row] /\ memRow \in [Containers -> [Calls -> Row]]
  /\ stats \in [Counters -> [Rules -> Int]]
  /\ pc \in [Containers -> {"idle", "put", "label", "count"}] /\ job \in [Containers -> Jobs]
  /\ recorded \subseteq Calls /\ judged \in [Calls -> Marks]

(* A row is in one place at most, and has the last label given.            *)
Nowhere(d)   == ledger[d] = "absent" /\ \A c \in Containers : memRow[c][d] = "absent"
Puts(c, d)   == pc[c] = "put" /\ job[c].call = d

OneRow(d) ==
  /\ ledger[d] \in {"absent", judged[d]} /\ \A c \in Containers : memRow[c][d] \in {"absent", judged[d]}
  /\ \A c \in Containers : memRow[c][d] # "absent" =>
       ledger[d] = "absent" /\ \A b \in Containers : b # c => memRow[b][d] = "absent"
  /\ \A c \in Containers : Puts(c, d) =>
       Nowhere(d) /\ judged[d] = "unlabelled" /\ \A b \in Containers : b # c => ~Puts(b, d)
  /\ d \notin recorded => Nowhere(d) /\ judged[d] = "unlabelled"

(* What a container has in hand is a call that was recorded; what it has   *)
(* to count is the change of a label.                                      *)
InHand(c) ==
  /\ pc[c] # "idle" => job[c].call \in recorded
  /\ pc[c] = "count" => job[c].before \in Marks \ {job[c].label}

RowInv == (\A d \in Calls : OneRow(d)) /\ \A c \in Containers : InHand(c)

(* The calls that have a label, the calls that left the queue, and the     *)
(* containers about to count a label given and a label taken.              *)
Have(r, label) == {d \in Flagged(r, recorded) : judged[d] = label}
Seen(r)        == {d \in Flagged(r, recorded) : Observed(d)}
Done(r)        == {d \in Seen(r) : judged[d] \in Labels}
Counting(r)    == {c \in Pending : r \in Flags[job[c].call]}
Gives(r, label) == {c \in Counting(r) : job[c].label = label}
Takes(r, label) == {c \in Counting(r) : job[c].before = label}
Settles(r)      == {c \in Counting(r) : Observed(job[c].call) /\ job[c].label \in Labels}
Reopens(r)     == {c \in Counting(r) : Observed(job[c].call) /\ job[c].before \in Labels}

(* How many labels, and how many reviews, the rollup will never count.     *)
Missing(r, label) ==
  Cardinality(Have(r, label)) - stats[label][r] - Cardinality(Gives(r, label)) + Cardinality(Takes(r, label))
MissingReviews(r) ==
  Cardinality(Done(r)) - stats["reviewed"][r] - Cardinality(Settles(r)) + Cardinality(Reopens(r))

(* While first labels are all that was lost, each was lost as a label and  *)
(* as a review alike.                                                      *)
CountsOf(r) ==
  /\ stats["observed"][r] = Cardinality(Seen(r))
  /\ \A label \in Labels : Missing(r, label) >= 0 /\ (lost = {} => Missing(r, label) = 0)
  /\ MissingReviews(r) = Missing(r, "correct") + Missing(r, "false_alarm")

CountInv == lost \subseteq {"first_label"} => \A r \in Rules : CountsOf(r)

IInv == Typed /\ RowInv /\ CountInv

-----------------------------------------------------------------------------
Places == {"idle", "put", "label", "count"}

LEMMA Constants == ASSUME ConstantsFit PROVE
  /\ IsFiniteSet(Containers) /\ IsFiniteSet(Calls) /\ \A d \in Calls : Flags[d] \subseteq Rules
  /\ NoJob \in Jobs /\ NoJob.label = "unlabelled" /\ NoJob.before = "absent"
  /\ \A d \in Calls : [NoJob EXCEPT !.call = d] \in Jobs /\ [NoJob EXCEPT !.call = d].call = d
  BY DEF ConstantsFit, Jobs, NoJob, Row, Marks

(* A step that is one container's changes what that container has in hand. *)
LEMMA GoesOneOnly ==
  ASSUME Typed, NEW c \in Containers, NEW label \in Places, NEW what \in Jobs, Goes(c, label, what)
  PROVE  /\ pc' \in [Containers -> Places] /\ job' \in [Containers -> Jobs]
         /\ pc'[c] = label /\ job'[c] = what
         /\ \A b \in Containers : b # c => pc'[b] = pc[b] /\ job'[b] = job[b]
  BY DEF Typed, Goes, Places

LEMMA RecordKeeps ==
  ASSUME ConstantsFit, Typed, RowInv, NEW c \in Containers, NEW d \in Calls, Record(c, d)
  PROVE  (RowInv /\ Typed)'
<1> USE Constants
<1> DEFINE what == [NoJob EXCEPT !.call = d]
<1>1. what \in Jobs /\ what.call = d
  OBVIOUS
<1>2. /\ pc[c] = "idle" /\ d \notin recorded /\ recorded' = recorded \cup {d} /\ Goes(c, "put", what)
      /\ UNCHANGED <<ledger, memRow, judged>>
  BY DEF Record, At, rows
<1> HIDE DEF what
<1>3. /\ pc' \in [Containers -> Places] /\ job' \in [Containers -> Jobs] /\ pc'[c] = "put" /\ job'[c] = what
      /\ \A b \in Containers : b # c => pc'[b] = pc[b] /\ job'[b] = job[b]
  BY <1>1, <1>2, GoesOneOnly DEF Places
<1>4. stats' \in [Counters -> [Rules -> Int]]
  <2>1. stats' = stats \/ stats' = Plus(stats, Counted(d))
    BY DEF Record, Adjusts
  <2>2. Counted(d) \in [Counters -> [Rules -> Int]]
    BY DEF Counted, One
  <2>3. Plus(stats, Counted(d)) \in [Counters -> [Rules -> Int]]
    BY <2>2 DEF Plus, Typed
  <2> QED BY <2>1, <2>3 DEF Typed
<1>5. Typed'
  BY <1>2, <1>3, <1>4 DEF Typed, Places
<1>6. ASSUME NEW e \in Calls PROVE OneRow(e)'
  <2>1. OneRow(e) /\ \A b \in Containers : InHand(b)
    BY DEF RowInv
  <2>2. CASE e = d
    <3>1. Nowhere(d) /\ judged[d] = "unlabelled"
      BY <1>2, <2>1, <2>2 DEF OneRow
    <3>2. \A b \in Containers : b # c => ~(pc'[b] = "put" /\ job'[b].call = d)
      BY <1>2, <1>3, <2>1 DEF InHand
    <3>3. Nowhere(d)'
      BY <1>2, <3>1 DEF Nowhere
    <3> QED BY <1>2, <2>1, <2>2, <3>1, <3>2, <3>3 DEF OneRow, Puts, Nowhere
  <2>3. CASE e # d
    <3>1. \A b \in Containers : Puts(b, e)' <=> Puts(b, e)
      BY <1>1, <1>2, <1>3, <2>3 DEF Puts
    <3> QED BY <1>2, <2>1, <2>3, <3>1 DEF OneRow, Nowhere
  <2> QED BY <2>2, <2>3
<1>7. ASSUME NEW b \in Containers PROVE InHand(b)'
  <2>1. InHand(b)
    BY DEF RowInv
  <2> QED BY <1>1, <1>2, <1>3, <2>1 DEF InHand
<1> QED BY <1>5, <1>6, <1>7 DEF RowInv

LEMMA PutKeeps ==
  ASSUME ConstantsFit, Typed, RowInv, NEW c \in Containers, Put(c)
  PROVE  (RowInv /\ Typed)'
<1> USE Constants
<1> DEFINE d == job[c].call
<1>1. pc[c] = "put" /\ Goes(c, "idle", NoJob) /\ UNCHANGED <<stats, recorded, judged>>
  BY DEF Put, At, Ends
<1>2. d \in Calls /\ d \in recorded /\ Puts(c, d)
  BY <1>1 DEF RowInv, InHand, Typed, Puts
<1>3. Nowhere(d) /\ judged[d] = "unlabelled" /\ \A b \in Containers : b # c => ~Puts(b, d)
  BY <1>2 DEF RowInv, OneRow
<1>4. /\ pc' \in [Containers -> Places] /\ job' \in [Containers -> Jobs] /\ pc'[c] = "idle"
      /\ \A b \in Containers : b # c => pc'[b] = pc[b] /\ job'[b] = job[b]
  BY <1>1, GoesOneOnly DEF Places
<1>5. \/ ledger' = [ledger EXCEPT ![d] = "unlabelled"] /\ memRow' = memRow
      \/ memRow' = [memRow EXCEPT ![c][d] = "unlabelled"] /\ ledger' = ledger
  BY DEF Put
<1>6. Typed'
  <2>1. ledger' \in [Calls -> Row]
    BY <1>5 DEF Typed, Row
  <2>2. [memRow EXCEPT ![c][d] = "unlabelled"] \in [Containers -> [Calls -> Row]]
    BY <1>2 DEF Typed, Row
  <2>3. memRow' \in [Containers -> [Calls -> Row]]
    BY <1>5, <2>2 DEF Typed
  <2> QED BY <1>1, <1>4, <2>1, <2>3 DEF Typed, Places
<1>7. /\ ledger'[d] \in {"absent", "unlabelled"}
      /\ \A b \in Containers : memRow'[b][d] # "absent" => b = c /\ memRow'[b][d] = "unlabelled" /\ ledger'[d] = "absent"
      /\ \A e \in Calls : e # d => ledger'[e] = ledger[e] /\ \A b \in Containers : memRow'[b][e] = memRow[b][e]
  <2>1. CASE ledger' = [ledger EXCEPT ![d] = "unlabelled"] /\ memRow' = memRow
    BY <1>2, <1>3, <2>1 DEF Typed, Nowhere
  <2>2. CASE memRow' = [memRow EXCEPT ![c][d] = "unlabelled"] /\ ledger' = ledger
    BY <1>2, <1>3, <2>2 DEF Typed, Nowhere
  <2> QED BY <1>5, <2>1, <2>2
<1>8. ASSUME NEW e \in Calls PROVE OneRow(e)'
  <2>1. OneRow(e)
    BY DEF RowInv
  <2>2. \A b \in Containers : Puts(b, e)' => Puts(b, e) /\ b # c
    BY <1>4 DEF Puts
  <2>3. CASE e = d
    BY <1>1, <1>2, <1>3, <1>7, <2>1, <2>2, <2>3 DEF OneRow
  <2>4. CASE e # d
    BY <1>1, <1>7, <2>1, <2>2, <2>4 DEF OneRow, Nowhere
  <2> QED BY <2>3, <2>4
<1>9. ASSUME NEW b \in Containers PROVE InHand(b)'
  BY <1>1, <1>4 DEF InHand, RowInv
<1> QED BY <1>6, <1>8, <1>9 DEF RowInv

LEMMA ReadRowKeeps ==
  ASSUME ConstantsFit, Typed, RowInv, NEW c \in Containers, NEW d \in Calls, NEW label \in Marks, ReadRow(c, d, label)
  PROVE  (RowInv /\ Typed)'
<1> USE Constants
<1>1. PICK row \in {ledger[d]} \cup (IF StoreFaults THEN {memRow[c][d]} ELSE {}) :
         row # "absent" /\ Goes(c, "label", [call |-> d, label |-> label, before |-> row])
  BY DEF ReadRow
<1>2. UNCHANGED <<ledger, memRow, stats, recorded, judged>> /\ pc[c] = "idle"
  BY DEF ReadRow, rows, At
<1>3. [call |-> d, label |-> label, before |-> row] \in Jobs /\ ~Nowhere(d)
  BY <1>1 DEF Jobs, Typed, Nowhere
<1>4. d \in recorded
  BY <1>3 DEF RowInv, OneRow
<1>5. /\ pc' \in [Containers -> Places] /\ job' \in [Containers -> Jobs] /\ pc'[c] = "label" /\ job'[c].call = d
      /\ \A b \in Containers : b # c => pc'[b] = pc[b] /\ job'[b] = job[b]
  BY <1>1, <1>3, GoesOneOnly DEF Places
<1>6. Typed'
  BY <1>2, <1>5 DEF Typed, Places
<1>7. ASSUME NEW e \in Calls PROVE OneRow(e)'
  <2>1. OneRow(e)
    BY DEF RowInv
  <2>2. \A b \in Containers : Puts(b, e)' => Puts(b, e)
    BY <1>5 DEF Puts
  <2>3. Nowhere(e)' <=> Nowhere(e)
    BY <1>2 DEF Nowhere
  <2> QED BY <1>2, <2>1, <2>2, <2>3 DEF OneRow
<1>8. ASSUME NEW b \in Containers PROVE InHand(b)'
  BY <1>2, <1>4, <1>5 DEF InHand, RowInv
<1> QED BY <1>6, <1>7, <1>8 DEF RowInv

(* A label that lands replaces the one the call was given last, which is   *)
(* the one that is counted off.                                            *)
LEMMA LabelLands ==
  ASSUME ConstantsFit, Typed, RowInv, NEW c \in Containers, LabelRow(c)
  PROVE  LET d == job[c].call  new == job[c].label IN
           /\ pc[c] = "label" /\ d \in Calls /\ d \in recorded /\ new \in Marks
           /\ UNCHANGED <<stats, recorded, reviews, lost>>
           /\ \/ Ends(c) /\ UNCHANGED <<ledger, memRow, judged>>
              \/ /\ judged' = [judged EXCEPT ![d] = new] /\ ~Nowhere(d)
                 /\ \/ ledger[d] # "absent" /\ ledger' = [ledger EXCEPT ![d] = new] /\ memRow' = memRow
                    \/ memRow[c][d] # "absent" /\ memRow' = [memRow EXCEPT ![c][d] = new] /\ ledger' = ledger
                 /\ \/ judged[d] = new /\ Ends(c)
                    \/ judged[d] # new /\ Goes(c, "count", [job[c] EXCEPT !.before = judged[d]])
<1> DEFINE d == job[c].call  new == job[c].label
<1>1. pc[c] = "label" /\ UNCHANGED <<stats, recorded, reviews, lost>>
  BY DEF LabelRow, At
<1>2. d \in Calls /\ d \in recorded /\ new \in Marks
  BY <1>1 DEF RowInv, InHand, Typed, Jobs
<1>3. ledger[d] \in {"absent", judged[d]} /\ memRow[c][d] \in {"absent", judged[d]}
  BY <1>2 DEF RowInv, OneRow
<1>4. CASE ledger[d] # "absent" /\ Labelled(c, ledger[d]) /\ ledger' = [ledger EXCEPT ![d] = new] /\ UNCHANGED memRow
  BY <1>1, <1>2, <1>3, <1>4 DEF Labelled, Nowhere
<1>5. CASE memRow[c][d] # "absent" /\ Labelled(c, memRow[c][d]) /\ memRow' = [memRow EXCEPT ![c][d] = new] /\ UNCHANGED ledger
  BY <1>1, <1>2, <1>3, <1>5 DEF Labelled, Nowhere
<1>6. CASE Ends(c) /\ UNCHANGED <<rows, judged>>
  BY <1>1, <1>2, <1>6 DEF rows
<1> QED BY <1>4, <1>5, <1>6 DEF LabelRow

LEMMA LabelKeeps ==
  ASSUME ConstantsFit, Typed, RowInv, NEW c \in Containers, LabelRow(c)
  PROVE  (RowInv /\ Typed)'
<1> USE Constants
<1> DEFINE d == job[c].call  new == job[c].label
<1>1. /\ pc[c] = "label" /\ d \in Calls /\ d \in recorded /\ new \in Marks
      /\ UNCHANGED <<stats, recorded>>
  BY LabelLands
<1>2. OneRow(d) /\ new # "absent" /\ new \in Row
  BY <1>1 DEF RowInv, Marks, Row, Labels
<1>3. \A label \in Places, what \in Jobs : Goes(c, label, what) => \A b \in Containers : b # c => pc'[b] = pc[b] /\ job'[b] = job[b]
  BY GoesOneOnly
<1>4. CASE Ends(c) /\ UNCHANGED <<ledger, memRow, judged>>
  <2>1. /\ pc' \in [Containers -> Places] /\ job' \in [Containers -> Jobs] /\ pc'[c] = "idle"
        /\ \A b \in Containers : b # c => pc'[b] = pc[b] /\ job'[b] = job[b]
    BY <1>4, GoesOneOnly DEF Places, Ends
  <2>2. Typed'
    BY <1>1, <1>4, <2>1 DEF Typed, Places
  <2>3. ASSUME NEW e \in Calls PROVE OneRow(e)'
    <3>1. OneRow(e) /\ \A b \in Containers : Puts(b, e)' => Puts(b, e)
      BY <2>1 DEF RowInv, Puts
    <3>2. Nowhere(e)' <=> Nowhere(e)
      BY <1>4 DEF Nowhere
    <3> QED BY <1>1, <1>4, <3>1, <3>2 DEF OneRow
  <2>4. ASSUME NEW b \in Containers PROVE InHand(b)'
    BY <1>1, <2>1 DEF InHand, RowInv
  <2> QED BY <2>2, <2>3, <2>4 DEF RowInv
<1>5. CASE /\ judged' = [judged EXCEPT ![d] = new] /\ ~Nowhere(d)
           /\ \/ ledger[d] # "absent" /\ ledger' = [ledger EXCEPT ![d] = new] /\ memRow' = memRow
              \/ memRow[c][d] # "absent" /\ memRow' = [memRow EXCEPT ![c][d] = new] /\ ledger' = ledger
           /\ \/ judged[d] = new /\ Ends(c)
              \/ judged[d] # new /\ Goes(c, "count", [job[c] EXCEPT !.before = judged[d]])
  <2> DEFINE what == [job[c] EXCEPT !.before = judged[d]]
  <2>1. what \in Jobs /\ what.call = d /\ what.label = new /\ what.before = judged[d]
    BY <1>1 DEF Typed, Jobs, Row, Marks, Labels
  <2>2. /\ pc' \in [Containers -> Places] /\ job' \in [Containers -> Jobs]
        /\ \/ pc'[c] = "idle"
           \/ pc'[c] = "count" /\ job'[c] = what /\ judged[d] # new
        /\ \A b \in Containers : b # c => pc'[b] = pc[b] /\ job'[b] = job[b]
    <3>1. CASE judged[d] = new /\ Ends(c)
      BY <3>1, GoesOneOnly DEF Places, Ends
    <3>2. CASE judged[d] # new /\ Goes(c, "count", what)
      BY <2>1, <3>2, GoesOneOnly DEF Places
    <3> QED BY <1>5, <3>1, <3>2
  <2> HIDE DEF what
  <2>3. /\ judged'[d] = new /\ \A e \in Calls : e # d => judged'[e] = judged[e]
        /\ \A e \in Calls : e # d => ledger'[e] = ledger[e] /\ \A b \in Containers : memRow'[b][e] = memRow[b][e]
    BY <1>1, <1>5 DEF Typed
  <2>4. /\ ledger'[d] \in {"absent", new}
        /\ \A b \in Containers : memRow'[b][d] \in {"absent", new}
        /\ \A b \in Containers : memRow'[b][d] # "absent" =>
             ledger'[d] = "absent" /\ \A a \in Containers : a # b => memRow'[a][d] = "absent"
    <3>1. CASE ledger[d] # "absent" /\ ledger' = [ledger EXCEPT ![d] = new] /\ memRow' = memRow
      BY <1>1, <1>2, <3>1 DEF Typed, OneRow
    <3>2. CASE memRow[c][d] # "absent" /\ memRow' = [memRow EXCEPT ![c][d] = new] /\ ledger' = ledger
      BY <1>1, <1>2, <3>2 DEF Typed, OneRow
    <3> QED BY <1>5, <3>1, <3>2
  <2>5. judged' \in [Calls -> Marks] /\ ledger' \in [Calls -> Row] /\ memRow' \in [Containers -> [Calls -> Row]]
    <3>1. [memRow EXCEPT ![c][d] = new] \in [Containers -> [Calls -> Row]] /\ [ledger EXCEPT ![d] = new] \in [Calls -> Row]
      BY <1>1, <1>2 DEF Typed
    <3>2. [judged EXCEPT ![d] = new] \in [Calls -> Marks]
      BY <1>1 DEF Typed
    <3> QED BY <1>5, <3>1, <3>2 DEF Typed
  <2>6. Typed'
    BY <1>1, <2>2, <2>5 DEF Typed, Places
  <2>7. ASSUME NEW e \in Calls PROVE OneRow(e)'
    <3>1. OneRow(e) /\ \A b \in Containers : Puts(b, e)' => Puts(b, e)
      BY <2>2 DEF RowInv, Puts
    <3>2. CASE e = d
      <4>1. \A b \in Containers : ~Puts(b, e)'
        BY <1>2, <1>5, <3>1, <3>2 DEF OneRow
      <4> QED BY <1>1, <2>3, <2>4, <3>2, <4>1 DEF OneRow
    <3>3. CASE e # d
      <4>1. Nowhere(e)' <=> Nowhere(e)
        BY <2>3, <3>3 DEF Nowhere
      <4> QED BY <1>1, <2>3, <3>1, <3>3, <4>1 DEF OneRow
    <3> QED BY <3>2, <3>3
  <2>8. ASSUME NEW b \in Containers PROVE InHand(b)'
    <3>1. InHand(b)
      BY DEF RowInv
    <3>2. CASE b = c
      BY <1>1, <2>1, <2>2, <3>2 DEF InHand, Typed
    <3>3. CASE b # c
      BY <1>1, <2>2, <3>1, <3>3 DEF InHand
    <3> QED BY <3>2, <3>3
  <2> QED BY <2>6, <2>7, <2>8 DEF RowInv
<1> QED BY <1>4, <1>5, LabelLands

LEMMA CountKeeps ==
  ASSUME ConstantsFit, Typed, RowInv, NEW c \in Containers, CountReview(c)
  PROVE  (RowInv /\ Typed)'
<1> USE Constants
<1> DEFINE delta == Deltas(job[c].call, job[c].before, job[c].label)
<1>1. Goes(c, "idle", NoJob) /\ UNCHANGED <<ledger, memRow, recorded, judged>>
  BY DEF CountReview, Ends, rows
<1>2. /\ pc' \in [Containers -> Places] /\ job' \in [Containers -> Jobs] /\ pc'[c] = "idle"
      /\ \A b \in Containers : b # c => pc'[b] = pc[b] /\ job'[b] = job[b]
  BY <1>1, GoesOneOnly DEF Places
<1>3. stats' \in [Counters -> [Rules -> Int]]
  <2>1. delta \in [Counters -> [Rules -> Int]]
    BY DEF Deltas, One
  <2>2. stats' = stats \/ stats' = Plus(stats, delta)
    BY DEF CountReview, Adjusts
  <2> HIDE DEF delta
  <2>3. Plus(stats, delta) \in [Counters -> [Rules -> Int]]
    BY <2>1 DEF Plus, Typed
  <2> QED BY <2>2, <2>3 DEF Typed
<1>4. Typed'
  BY <1>1, <1>2, <1>3 DEF Typed, Places
<1>5. ASSUME NEW e \in Calls PROVE OneRow(e)'
  <2>1. OneRow(e) /\ \A b \in Containers : Puts(b, e)' => Puts(b, e)
    BY <1>2 DEF RowInv, Puts
  <2>2. Nowhere(e)' <=> Nowhere(e)
    BY <1>1 DEF Nowhere
  <2> QED BY <1>1, <2>1, <2>2 DEF OneRow
<1>6. ASSUME NEW b \in Containers PROVE InHand(b)'
  BY <1>1, <1>2 DEF InHand, RowInv
<1> QED BY <1>4, <1>5, <1>6 DEF RowInv

LEMMA CrashKeeps ==
  ASSUME ConstantsFit, Typed, RowInv, NEW c \in Containers, Crash(c)
  PROVE  (RowInv /\ Typed)'
<1> USE Constants
<1>1. Goes(c, "idle", NoJob) /\ UNCHANGED <<ledger, stats, recorded, judged>>
  BY DEF Crash, Ends
<1>2. /\ pc' \in [Containers -> Places] /\ job' \in [Containers -> Jobs] /\ pc'[c] = "idle"
      /\ \A b \in Containers : b # c => pc'[b] = pc[b] /\ job'[b] = job[b]
  BY <1>1, GoesOneOnly DEF Places
<1>3. memRow' \in [Containers -> [Calls -> Row]]
  BY DEF Crash, Typed, Row
<1>4. \A b \in Containers, e \in Calls : memRow'[b][e] \in {memRow[b][e], "absent"}
  BY DEF Crash, Typed
<1>5. Typed'
  BY <1>1, <1>2, <1>3 DEF Typed, Places
<1>6. ASSUME NEW e \in Calls PROVE OneRow(e)'
  <2>1. OneRow(e) /\ \A b \in Containers : Puts(b, e)' => Puts(b, e)
    BY <1>2 DEF RowInv, Puts
  <2>2. Nowhere(e) => Nowhere(e)'
    BY <1>1, <1>4 DEF Nowhere
  <2> QED BY <1>1, <1>4, <2>1, <2>2 DEF OneRow
<1>7. ASSUME NEW b \in Containers PROVE InHand(b)'
  BY <1>1, <1>2 DEF InHand, RowInv
<1> QED BY <1>5, <1>6, <1>7 DEF RowInv

-----------------------------------------------------------------------------
(* The counts.  A step is about one container and one call.                *)
LEMMA OneMore ==
  ASSUME NEW S, NEW T, NEW x, IsFiniteSet(S), T \ {x} = S \ {x}
  PROVE  /\ IsFiniteSet(T) /\ Cardinality(S) \in Nat /\ Cardinality(T) \in Nat
         /\ Cardinality(T) = Cardinality(S) + One(x \in T) - One(x \in S)
<1>1. Cardinality(S) \in Nat
  BY FS_CardinalityType
<1>2. CASE x \in S /\ x \in T
  <2>1. T = S
    BY <1>2
  <2> QED BY <1>1, <1>2, <2>1 DEF One
<1>3. CASE x \notin S /\ x \notin T
  <2>1. T = S
    BY <1>3
  <2> QED BY <1>1, <1>3, <2>1 DEF One
<1>4. CASE x \notin S /\ x \in T
  <2>1. T = S \cup {x}
    BY <1>4
  <2>2. IsFiniteSet(T) /\ Cardinality(T) = Cardinality(S) + 1
    BY <1>4, <2>1, FS_AddElement
  <2> QED BY <1>1, <1>4, <2>2 DEF One
<1>5. CASE x \in S /\ x \notin T
  <2>1. T = S \ {x}
    BY <1>5
  <2>2. IsFiniteSet(T) /\ Cardinality(T) = Cardinality(S) - 1
    BY <1>5, <2>1, FS_RemoveElement
  <2>3. Cardinality(T) \in Nat
    BY <2>2, FS_CardinalityType
  <2> QED BY <1>1, <1>5, <2>2, <2>3 DEF One
<1> QED BY <1>2, <1>3, <1>4, <1>5

LEMMA Finite ==
  ASSUME ConstantsFit, Typed, NEW r, NEW label
  PROVE  /\ IsFiniteSet(Have(r, label)) /\ IsFiniteSet(Seen(r)) /\ IsFiniteSet(Done(r))
         /\ IsFiniteSet(Gives(r, label)) /\ IsFiniteSet(Takes(r, label))
         /\ IsFiniteSet(Settles(r)) /\ IsFiniteSet(Reopens(r))
<1>1. Have(r, label) \subseteq Calls /\ Seen(r) \subseteq Calls /\ Done(r) \subseteq Calls
  BY DEF Have, Seen, Done, Flagged, Typed
<1>2. /\ Gives(r, label) \subseteq Containers /\ Takes(r, label) \subseteq Containers
      /\ Settles(r) \subseteq Containers /\ Reopens(r) \subseteq Containers
  BY DEF Gives, Takes, Settles, Reopens, Counting, Pending
<1> QED BY <1>1, <1>2, Constants, FS_Subset

(* All that a step about container c and call d may leave as it was.       *)
Beside(c, d) ==
  /\ \A b \in Containers : b # c => pc'[b] = pc[b] /\ job'[b] = job[b]
  /\ \A e \in Calls : e # d => judged'[e] = judged[e] /\ (e \in recorded' <=> e \in recorded)

LEMMA OneStep ==
  ASSUME ConstantsFit, Typed, Typed', NEW c \in Containers, NEW d \in Calls, Beside(c, d),
         NEW r \in Rules, NEW label \in Labels
  PROVE  /\ Cardinality(Have(r, label)') = Cardinality(Have(r, label)) + One(d \in Have(r, label)') - One(d \in Have(r, label))
         /\ Cardinality(Seen(r)') = Cardinality(Seen(r)) + One(d \in Seen(r)') - One(d \in Seen(r))
         /\ Cardinality(Done(r)') = Cardinality(Done(r)) + One(d \in Done(r)') - One(d \in Done(r))
         /\ Cardinality(Gives(r, label)') = Cardinality(Gives(r, label)) + One(c \in Gives(r, label)') - One(c \in Gives(r, label))
         /\ Cardinality(Takes(r, label)') = Cardinality(Takes(r, label)) + One(c \in Takes(r, label)') - One(c \in Takes(r, label))
         /\ Cardinality(Settles(r)') = Cardinality(Settles(r)) + One(c \in Settles(r)') - One(c \in Settles(r))
         /\ Cardinality(Reopens(r)') = Cardinality(Reopens(r)) + One(c \in Reopens(r)') - One(c \in Reopens(r))
         /\ Cardinality(Have(r, label)) \in Nat /\ Cardinality(Seen(r)) \in Nat /\ Cardinality(Done(r)) \in Nat
         /\ Cardinality(Gives(r, label)) \in Nat /\ Cardinality(Takes(r, label)) \in Nat
         /\ Cardinality(Settles(r)) \in Nat /\ Cardinality(Reopens(r)) \in Nat
<1>1. Have(r, label)' \ {d} = Have(r, label) \ {d}
  BY DEF Have, Flagged, Beside, Typed
<1>2. Seen(r)' \ {d} = Seen(r) \ {d}
  BY DEF Seen, Flagged, Beside, Typed
<1>3. Done(r)' \ {d} = Done(r) \ {d}
  BY DEF Done, Seen, Flagged, Beside, Typed
<1>4. Gives(r, label)' \ {c} = Gives(r, label) \ {c}
  BY DEF Gives, Counting, Pending, At, Beside
<1>5. Takes(r, label)' \ {c} = Takes(r, label) \ {c}
  BY DEF Takes, Counting, Pending, At, Beside
<1>6. Settles(r)' \ {c} = Settles(r) \ {c}
  BY DEF Settles, Counting, Pending, At, Beside
<1>7. Reopens(r)' \ {c} = Reopens(r) \ {c}
  BY DEF Reopens, Counting, Pending, At, Beside
<1> HIDE DEF One
<1>8. /\ Cardinality(Have(r, label)') = Cardinality(Have(r, label)) + One(d \in Have(r, label)') - One(d \in Have(r, label))
      /\ Cardinality(Have(r, label)) \in Nat
  BY <1>1, Finite, OneMore
<1>9. /\ Cardinality(Seen(r)') = Cardinality(Seen(r)) + One(d \in Seen(r)') - One(d \in Seen(r))
      /\ Cardinality(Seen(r)) \in Nat
  BY <1>2, Finite, OneMore
<1>10. /\ Cardinality(Done(r)') = Cardinality(Done(r)) + One(d \in Done(r)') - One(d \in Done(r))
       /\ Cardinality(Done(r)) \in Nat
  BY <1>3, Finite, OneMore
<1>11. /\ Cardinality(Gives(r, label)') = Cardinality(Gives(r, label)) + One(c \in Gives(r, label)') - One(c \in Gives(r, label))
       /\ Cardinality(Gives(r, label)) \in Nat
  BY <1>4, Finite, OneMore
<1>12. /\ Cardinality(Takes(r, label)') = Cardinality(Takes(r, label)) + One(c \in Takes(r, label)') - One(c \in Takes(r, label))
       /\ Cardinality(Takes(r, label)) \in Nat
  BY <1>5, Finite, OneMore
<1>13. /\ Cardinality(Settles(r)') = Cardinality(Settles(r)) + One(c \in Settles(r)') - One(c \in Settles(r))
       /\ Cardinality(Settles(r)) \in Nat
  BY <1>6, Finite, OneMore
<1>14. /\ Cardinality(Reopens(r)') = Cardinality(Reopens(r)) + One(c \in Reopens(r)') - One(c \in Reopens(r))
       /\ Cardinality(Reopens(r)) \in Nat
  BY <1>7, Finite, OneMore
<1> QED BY <1>8, <1>9, <1>10, <1>11, <1>12, <1>13, <1>14

(* Where the call of a step and its container are counted.                 *)
Where(r, label, c, d) ==
  /\ d \in Have(r, label) <=> d \in recorded /\ r \in Flags[d] /\ judged[d] = label
  /\ d \in Seen(r) <=> d \in recorded /\ r \in Flags[d] /\ Observed(d)
  /\ d \in Done(r) <=> d \in recorded /\ r \in Flags[d] /\ Observed(d) /\ judged[d] \in Labels
  /\ c \in Gives(r, label) <=> pc[c] = "count" /\ r \in Flags[job[c].call] /\ job[c].label = label
  /\ c \in Takes(r, label) <=> pc[c] = "count" /\ r \in Flags[job[c].call] /\ job[c].before = label
  /\ c \in Settles(r) <=> pc[c] = "count" /\ r \in Flags[job[c].call] /\ Observed(job[c].call) /\ job[c].label \in Labels
  /\ c \in Reopens(r) <=> pc[c] = "count" /\ r \in Flags[job[c].call] /\ Observed(job[c].call) /\ job[c].before \in Labels

LEMMA CountedWhere ==
  ASSUME NEW r, NEW label, NEW c \in Containers, NEW d PROVE Where(r, label, c, d) /\ Where(r, label, c, d)'
  BY DEF Where, Have, Seen, Done, Gives, Takes, Settles, Reopens, Counting, Pending, Flagged, At

(* A step that leaves the rollup as it is, and the labels and what is to   *)
(* be counted too, leaves the counts right.                                *)
LEMMA CountsStay ==
  ASSUME ConstantsFit, Typed, Typed', CountInv, NEW c \in Containers, NEW d \in Calls, Beside(c, d),
         stats' = stats, lost' = lost, recorded' = recorded, judged' = judged, pc[c] # "count", pc'[c] # "count"
  PROVE  CountInv'
<1> SUFFICES ASSUME lost \subseteq {"first_label"}, NEW r \in Rules PROVE CountsOf(r)'
  BY DEF CountInv
<1>1. CountsOf(r)
  BY DEF CountInv
<1>2. ASSUME NEW label \in Labels
      PROVE  /\ Missing(r, label)' = Missing(r, label) /\ MissingReviews(r)' = MissingReviews(r)
             /\ Cardinality(Seen(r)') = Cardinality(Seen(r))
  <2>1. /\ Have(r, label)' = Have(r, label) /\ Seen(r)' = Seen(r) /\ Done(r)' = Done(r)
        /\ Gives(r, label)' = Gives(r, label) /\ Takes(r, label)' = Takes(r, label)
        /\ Settles(r)' = Settles(r) /\ Reopens(r)' = Reopens(r)
    BY DEF Have, Seen, Done, Gives, Takes, Settles, Reopens, Counting, Pending, Flagged, At, Beside
  <2> QED BY <2>1 DEF Missing, MissingReviews
<1>3. "correct" \in Labels /\ "false_alarm" \in Labels
  BY DEF Labels
<1> QED BY <1>1, <1>2, <1>3 DEF CountsOf

(* The two sums of a rule, as numbers.                                     *)
LEMMA SumsTyped ==
  ASSUME ConstantsFit, Typed, NEW r \in Rules, NEW label \in Labels
  PROVE  Missing(r, label) \in Int /\ MissingReviews(r) \in Int
<1>1. stats[label][r] \in Int /\ stats["reviewed"][r] \in Int
  BY DEF Typed, Counters
<1>2. /\ Cardinality(Have(r, label)) \in Nat /\ Cardinality(Gives(r, label)) \in Nat /\ Cardinality(Takes(r, label)) \in Nat
      /\ Cardinality(Done(r)) \in Nat /\ Cardinality(Settles(r)) \in Nat /\ Cardinality(Reopens(r)) \in Nat
  BY Finite, FS_CardinalityType
<1> QED BY <1>1, <1>2 DEF Missing, MissingReviews

LEMMA RecordCounts ==
  ASSUME ConstantsFit, Typed, Typed', RowInv, CountInv, NEW c \in Containers, NEW d \in Calls, Record(c, d)
  PROVE  CountInv'
<1> USE Constants
<1> SUFFICES ASSUME lost' \subseteq {"first_label"}, NEW r \in Rules PROVE CountsOf(r)'
  BY DEF CountInv
<1>1. stats' = Plus(stats, Counted(d)) /\ lost' = lost
  BY DEF Record, Adjusts
<1>2. /\ pc[c] = "idle" /\ d \notin recorded /\ recorded' = recorded \cup {d} /\ judged' = judged
      /\ Goes(c, "put", [NoJob EXCEPT !.call = d])
  BY DEF Record, At
<1>3. judged[d] = "unlabelled"
  BY <1>2 DEF RowInv, OneRow
<1>4. pc'[c] = "put" /\ Beside(c, d)
  BY <1>2, GoesOneOnly DEF Beside, Places
<1>5. CountsOf(r)
  BY <1>1 DEF CountInv
<1>6. /\ stats'["observed"][r] = stats["observed"][r] + One(Observed(d) /\ r \in Flags[d])
      /\ stats'["reviewed"][r] = stats["reviewed"][r]
      /\ \A label \in Labels : stats'[label][r] = stats[label][r]
  BY <1>1 DEF Plus, Counted, One, Counters, Labels, Typed
<1>7. ASSUME NEW label \in Labels
      PROVE  /\ Missing(r, label)' = Missing(r, label) /\ MissingReviews(r)' = MissingReviews(r)
             /\ Cardinality(Seen(r)') = Cardinality(Seen(r)) + One(Observed(d) /\ r \in Flags[d])
  <2>1. /\ One(d \in Have(r, label)') = 0 /\ One(d \in Have(r, label)) = 0
        /\ One(d \in Done(r)') = 0 /\ One(d \in Done(r)) = 0 /\ One(d \in Seen(r)) = 0
        /\ One(d \in Seen(r)') = One(Observed(d) /\ r \in Flags[d])
    <3>1. Where(r, label, c, d) /\ Where(r, label, c, d)'
      BY CountedWhere
    <3>2. /\ d \notin Have(r, label) /\ d \notin Seen(r) /\ d \notin Done(r)
      BY <1>2, <3>1 DEF Where
    <3>3. "unlabelled" \notin Labels
      BY DEF Labels
    <3>4. d \notin Have(r, label)' /\ d \notin Done(r)'
      BY <1>2, <1>3, <3>1, <3>3 DEF Where
    <3>5. d \in Seen(r)' <=> Observed(d) /\ r \in Flags[d]
      <4>1. Observed(d)' <=> Observed(d)
        BY DEF Observed
      <4> QED BY <1>2, <3>1, <4>1 DEF Where
    <3> QED BY <3>2, <3>4, <3>5 DEF One
  <2>2. /\ One(c \in Gives(r, label)') = 0 /\ One(c \in Gives(r, label)) = 0
        /\ One(c \in Takes(r, label)') = 0 /\ One(c \in Takes(r, label)) = 0
        /\ One(c \in Settles(r)') = 0 /\ One(c \in Settles(r)) = 0
        /\ One(c \in Reopens(r)') = 0 /\ One(c \in Reopens(r)) = 0
    BY <1>2, <1>4, CountedWhere DEF One, Where
  <2>3. One(Observed(d) /\ r \in Flags[d]) \in Int
    BY DEF One
  <2> HIDE DEF One
  <2> QED BY <1>4, <1>6, <2>1, <2>2, <2>3, OneStep DEF Missing, MissingReviews
<1>8. "correct" \in Labels /\ "false_alarm" \in Labels
  BY DEF Labels
<1> QED BY <1>1, <1>5, <1>6, <1>7, <1>8 DEF CountsOf

LEMMA LabelCounts ==
  ASSUME ConstantsFit, Typed, Typed', RowInv, CountInv, NEW c \in Containers, LabelRow(c)
  PROVE  CountInv'
<1> USE Constants
<1>1. PICK d \in Calls, new \in Marks : d = job[c].call /\ new = job[c].label
  BY LabelLands
<1>2. pc[c] = "label" /\ d \in recorded /\ UNCHANGED <<stats, recorded, lost>>
  BY <1>1, LabelLands
<1>3. CASE Ends(c) /\ judged' = judged
  <2>1. pc'[c] = "idle" /\ Beside(c, d)
    BY <1>2, <1>3, GoesOneOnly DEF Ends, Beside, Places
  <2> QED BY <1>2, <1>3, <2>1, CountsStay
<1>4. CASE judged' = [judged EXCEPT ![d] = new] /\ judged[d] = new /\ Ends(c)
  <2>1. judged' = judged
    BY <1>4 DEF Typed
  <2> QED BY <1>3, <1>4, <2>1
<1>5. CASE judged' = [judged EXCEPT ![d] = new] /\ judged[d] # new /\ Goes(c, "count", [job[c] EXCEPT !.before = judged[d]])
  <2> SUFFICES ASSUME lost \subseteq {"first_label"}, NEW r \in Rules PROVE CountsOf(r)'
    BY <1>2 DEF CountInv
  <2>1. CountsOf(r)
    BY DEF CountInv
  <2>2. [job[c] EXCEPT !.before = judged[d]] \in Jobs
    <3>1. job[c] \in Jobs /\ judged[d] \in Row
      BY DEF Typed, Row, Marks
    <3> QED BY <3>1 DEF Jobs
  <2>3. /\ pc'[c] = "count" /\ job'[c].call = d /\ job'[c].label = new /\ job'[c].before = judged[d] /\ judged'[d] = new
        /\ Beside(c, d)
    <3>1. pc'[c] = "count" /\ job'[c] = [job[c] EXCEPT !.before = judged[d]]
          /\ \A b \in Containers : b # c => pc'[b] = pc[b] /\ job'[b] = job[b]
      BY <1>5, <2>2, GoesOneOnly DEF Places
    <3>2. job'[c].call = d /\ job'[c].label = new /\ job'[c].before = judged[d]
      BY <1>1, <3>1 DEF Typed, Jobs
    <3> QED BY <1>2, <1>5, <3>1, <3>2 DEF Beside, Typed
  <2>4. ASSUME NEW label \in Labels
        PROVE  Missing(r, label)' = Missing(r, label) /\ MissingReviews(r)' = MissingReviews(r) /\ Cardinality(Seen(r)') = Cardinality(Seen(r))
    <3>1. /\ d \in Have(r, label)' <=> c \in Gives(r, label)'
          /\ d \in Have(r, label) <=> c \in Takes(r, label)'
          /\ d \in Done(r)' <=> c \in Settles(r)'
          /\ d \in Done(r) <=> c \in Reopens(r)'
          /\ d \in Seen(r)' <=> d \in Seen(r)
      <4>1. Where(r, label, c, d) /\ Where(r, label, c, d)'
        BY CountedWhere
      <4>2. Observed(d)' <=> Observed(d)
        BY DEF Observed
      <4>3. Observed(job[c].call)' <=> Observed(d)
        BY <2>3 DEF Observed
      <4>4. d \in Have(r, label)' <=> c \in Gives(r, label)'
        BY <1>2, <2>3, <4>1 DEF Where
      <4>5. d \in Have(r, label) <=> c \in Takes(r, label)'
        BY <1>2, <2>3, <4>1 DEF Where
      <4>6. d \in Done(r)' <=> c \in Settles(r)'
        BY <1>2, <2>3, <4>1, <4>2, <4>3 DEF Where
      <4>7. d \in Done(r) <=> c \in Reopens(r)'
        BY <1>2, <2>3, <4>1, <4>2, <4>3 DEF Where
      <4>8. d \in Seen(r)' <=> d \in Seen(r)
        BY <1>2, <4>1, <4>2 DEF Where
      <4> QED BY <4>4, <4>5, <4>6, <4>7, <4>8
    <3>2. c \notin Gives(r, label) /\ c \notin Takes(r, label) /\ c \notin Settles(r) /\ c \notin Reopens(r)
      BY <1>2, CountedWhere DEF Where
    <3>3. /\ One(d \in Have(r, label)') = One(c \in Gives(r, label)') /\ One(d \in Have(r, label)) = One(c \in Takes(r, label)')
          /\ One(d \in Done(r)') = One(c \in Settles(r)') /\ One(d \in Done(r)) = One(c \in Reopens(r)')
          /\ One(d \in Seen(r)') = One(d \in Seen(r))
          /\ One(c \in Gives(r, label)) = 0 /\ One(c \in Takes(r, label)) = 0
          /\ One(c \in Settles(r)) = 0 /\ One(c \in Reopens(r)) = 0
          /\ One(c \in Gives(r, label)') \in Int /\ One(c \in Takes(r, label)') \in Int
          /\ One(c \in Settles(r)') \in Int /\ One(c \in Reopens(r)') \in Int /\ One(d \in Seen(r)) \in Int
      BY <3>1, <3>2 DEF One
    <3>4. stats[label][r] \in Int /\ stats["reviewed"][r] \in Int
      BY DEF Typed, Counters
    <3> HIDE DEF One
    <3>5. /\ Cardinality(Have(r, label)') = Cardinality(Have(r, label)) + One(c \in Gives(r, label)') - One(c \in Takes(r, label)')
          /\ Cardinality(Gives(r, label)') = Cardinality(Gives(r, label)) + One(c \in Gives(r, label)')
          /\ Cardinality(Takes(r, label)') = Cardinality(Takes(r, label)) + One(c \in Takes(r, label)')
          /\ Cardinality(Have(r, label)) \in Nat /\ Cardinality(Gives(r, label)) \in Nat /\ Cardinality(Takes(r, label)) \in Nat
      BY <2>3, <3>3, OneStep
    <3>6. /\ Cardinality(Done(r)') = Cardinality(Done(r)) + One(c \in Settles(r)') - One(c \in Reopens(r)')
          /\ Cardinality(Settles(r)') = Cardinality(Settles(r)) + One(c \in Settles(r)')
          /\ Cardinality(Reopens(r)') = Cardinality(Reopens(r)) + One(c \in Reopens(r)')
          /\ Cardinality(Done(r)) \in Nat /\ Cardinality(Settles(r)) \in Nat /\ Cardinality(Reopens(r)) \in Nat
      BY <2>3, <3>3, OneStep
    <3>7. Cardinality(Seen(r)') = Cardinality(Seen(r))
      BY <2>3, <3>3, OneStep
    <3>8. Missing(r, label)' = Missing(r, label)
      BY <1>2, <3>3, <3>4, <3>5 DEF Missing
    <3>9. MissingReviews(r)' = MissingReviews(r)
      BY <1>2, <3>3, <3>4, <3>6 DEF MissingReviews
    <3> QED BY <3>7, <3>8, <3>9
  <2>5. "correct" \in Labels /\ "false_alarm" \in Labels
    BY DEF Labels
  <2> QED BY <1>2, <2>1, <2>4, <2>5 DEF CountsOf
<1> QED BY <1>1, <1>3, <1>4, <1>5, LabelLands

(* The container lets go of the count it has in hand.                      *)
LEMMA Settled ==
  ASSUME ConstantsFit, Typed, Typed', RowInv, NEW c \in Containers, pc[c] = "count", Goes(c, "idle", NoJob),
         recorded' = recorded, judged' = judged,
         NEW d \in Calls, NEW new \in Marks, NEW old \in Marks, d = job[c].call, new = job[c].label, old = job[c].before,
         NEW r \in Rules, NEW label \in Labels
  PROVE  /\ old # new
         /\ Cardinality(Seen(r)') = Cardinality(Seen(r))
         /\ Missing(r, label)' = Missing(r, label) - (stats'[label][r] - stats[label][r])
                                   + One(r \in Flags[d] /\ new = label) - One(r \in Flags[d] /\ old = label)
         /\ MissingReviews(r)' = MissingReviews(r) - (stats'["reviewed"][r] - stats["reviewed"][r])
                                   + One(r \in Flags[d] /\ Observed(d) /\ new \in Labels)
                                   - One(r \in Flags[d] /\ Observed(d) /\ old \in Labels)
<1>1. pc'[c] = "idle" /\ Beside(c, d)
  BY Constants, GoesOneOnly DEF Beside, Places
<1>2. old # new
  BY DEF RowInv, InHand
<1>3. Where(r, label, c, d) /\ Where(r, label, c, d)'
  BY CountedWhere
<1>4. Observed(d)' <=> Observed(d)
  BY DEF Observed
<1>5. /\ d \in Have(r, label)' <=> d \in Have(r, label)
      /\ d \in Seen(r)' <=> d \in Seen(r)
      /\ d \in Done(r)' <=> d \in Done(r)
  BY <1>3, <1>4 DEF Where
<1>6. /\ c \notin Gives(r, label)' /\ c \notin Takes(r, label)' /\ c \notin Settles(r)' /\ c \notin Reopens(r)'
  BY <1>1, <1>3 DEF Where
<1>7. /\ c \in Gives(r, label) <=> r \in Flags[d] /\ new = label
      /\ c \in Takes(r, label) <=> r \in Flags[d] /\ old = label
      /\ c \in Settles(r) <=> r \in Flags[d] /\ Observed(d) /\ new \in Labels
      /\ c \in Reopens(r) <=> r \in Flags[d] /\ Observed(d) /\ old \in Labels
  BY <1>3 DEF Where
<1> DEFINE g == One(r \in Flags[d] /\ new = label)
           k == One(r \in Flags[d] /\ old = label)
           m == One(r \in Flags[d] /\ Observed(d) /\ new \in Labels)
           n == One(r \in Flags[d] /\ Observed(d) /\ old \in Labels)
<1>8. /\ One(d \in Have(r, label)') = One(d \in Have(r, label)) /\ One(d \in Have(r, label)) \in Int
      /\ One(d \in Seen(r)') = One(d \in Seen(r)) /\ One(d \in Seen(r)) \in Int
      /\ One(d \in Done(r)') = One(d \in Done(r)) /\ One(d \in Done(r)) \in Int
  BY <1>5 DEF One
<1>9. /\ One(c \in Gives(r, label)') = 0 /\ One(c \in Takes(r, label)') = 0
      /\ One(c \in Settles(r)') = 0 /\ One(c \in Reopens(r)') = 0
  BY <1>6 DEF One
<1>10. /\ One(c \in Gives(r, label)) = g /\ One(c \in Takes(r, label)) = k
       /\ One(c \in Settles(r)) = m /\ One(c \in Reopens(r)) = n
       /\ g \in Int /\ k \in Int /\ m \in Int /\ n \in Int
  BY <1>7 DEF One
<1> HIDE DEF g, k, m, n, One
<1>11. /\ Cardinality(Have(r, label)') = Cardinality(Have(r, label)) /\ Cardinality(Seen(r)') = Cardinality(Seen(r))
       /\ Cardinality(Done(r)') = Cardinality(Done(r))
       /\ Cardinality(Have(r, label)) \in Nat /\ Cardinality(Done(r)) \in Nat
  BY <1>1, <1>8, OneStep
<1>12. /\ Cardinality(Gives(r, label)') = Cardinality(Gives(r, label)) - g
       /\ Cardinality(Takes(r, label)') = Cardinality(Takes(r, label)) - k
       /\ Cardinality(Settles(r)') = Cardinality(Settles(r)) - m
       /\ Cardinality(Reopens(r)') = Cardinality(Reopens(r)) - n
       /\ Cardinality(Gives(r, label)) \in Nat /\ Cardinality(Takes(r, label)) \in Nat
       /\ Cardinality(Settles(r)) \in Nat /\ Cardinality(Reopens(r)) \in Nat
  BY <1>1, <1>9, <1>10, OneStep
<1>13. /\ stats[label][r] \in Int /\ stats["reviewed"][r] \in Int
       /\ stats'[label][r] \in Int /\ stats'["reviewed"][r] \in Int
  BY DEF Typed, Counters
<1>14. Missing(r, label)' = Missing(r, label) - (stats'[label][r] - stats[label][r]) + g - k
  BY <1>10, <1>11, <1>12, <1>13 DEF Missing
<1>15. MissingReviews(r)' = MissingReviews(r) - (stats'["reviewed"][r] - stats["reviewed"][r]) + m - n
  BY <1>10, <1>11, <1>12, <1>13 DEF MissingReviews
<1> QED BY <1>2, <1>11, <1>14, <1>15 DEF g, k, m, n

(* A count that reaches the rollup is no longer missing.                   *)
LEMMA ReachedCounts ==
  ASSUME ConstantsFit, Typed, Typed', RowInv, CountInv, NEW c \in Containers, CountReview(c), lost' = lost,
         stats' = Plus(stats, Deltas(job[c].call, job[c].before, job[c].label))
  PROVE  CountInv'
<1> SUFFICES ASSUME lost \subseteq {"first_label"}, NEW r \in Rules PROVE CountsOf(r)'
  BY DEF CountInv
<1>1. pc[c] = "count" /\ Goes(c, "idle", NoJob) /\ recorded' = recorded /\ judged' = judged
  BY DEF CountReview, At, Ends
<1>2. PICK d \in Calls, new \in Marks, old \in Marks : d = job[c].call /\ new = job[c].label /\ old = job[c].before
  BY <1>1 DEF RowInv, InHand, Typed, Jobs
<1>3. CountsOf(r)
  BY DEF CountInv
<1> DEFINE delta == Deltas(d, old, new)
<1>4. ASSUME NEW n \in Counters PROVE stats'[n][r] = stats[n][r] + delta[n][r] /\ stats[n][r] \in Int
  BY <1>2, <1>4 DEF Plus, Typed
<1>5. /\ delta["observed"][r] = 0
      /\ delta["reviewed"][r] = One(r \in Flags[d] /\ Observed(d) /\ new \in Labels) - One(r \in Flags[d] /\ Observed(d) /\ old \in Labels)
      /\ \A label \in Labels : delta[label][r] = One(r \in Flags[d] /\ new = label) - One(r \in Flags[d] /\ old = label)
  <2>1. delta["observed"][r] = 0
    BY DEF Deltas, Counters
  <2>2. delta["reviewed"][r] = One(r \in Flags[d] /\ Observed(d) /\ new \in Labels) - One(r \in Flags[d] /\ Observed(d) /\ old \in Labels)
    BY DEF Deltas, Counters, One
  <2>3. ASSUME NEW label \in Labels
        PROVE  delta[label][r] = One(r \in Flags[d] /\ new = label) - One(r \in Flags[d] /\ old = label)
    <3>1. label \in Counters /\ label # "observed" /\ label # "reviewed"
      BY DEF Counters, Labels
    <3> QED BY <3>1 DEF Deltas, One
  <2> QED BY <2>1, <2>2, <2>3
<1> HIDE DEF delta
<1>6. "observed" \in Counters /\ "reviewed" \in Counters /\ Labels \subseteq Counters
  BY DEF Counters
<1>7. ASSUME NEW label \in Labels
      PROVE  /\ Missing(r, label)' = Missing(r, label) /\ MissingReviews(r)' = MissingReviews(r)
             /\ Cardinality(Seen(r)') = Cardinality(Seen(r)) /\ stats'["observed"][r] = stats["observed"][r]
  <2>1. stats'[label][r] - stats[label][r] = One(r \in Flags[d] /\ new = label) - One(r \in Flags[d] /\ old = label)
    BY <1>4, <1>5, <1>6 DEF One
  <2>2. stats'["reviewed"][r] - stats["reviewed"][r]
          = One(r \in Flags[d] /\ Observed(d) /\ new \in Labels) - One(r \in Flags[d] /\ Observed(d) /\ old \in Labels)
    BY <1>4, <1>5, <1>6 DEF One
  <2>3. stats'["observed"][r] = stats["observed"][r]
    BY <1>4, <1>5, <1>6
  <2>4. Missing(r, label) \in Int /\ MissingReviews(r) \in Int
    BY SumsTyped
  <2>5. /\ One(r \in Flags[d] /\ new = label) \in Int /\ One(r \in Flags[d] /\ old = label) \in Int
        /\ One(r \in Flags[d] /\ Observed(d) /\ new \in Labels) \in Int /\ One(r \in Flags[d] /\ Observed(d) /\ old \in Labels) \in Int
    BY DEF One
  <2> QED BY <1>1, <1>2, <2>1, <2>2, <2>3, <2>4, <2>5, Settled
<1>8. "correct" \in Labels /\ "false_alarm" \in Labels
  BY DEF Labels
<1> QED BY <1>3, <1>7, <1>8 DEF CountsOf

(* A first label whose count is lost is missing as a label and as a review.*)
LEMMA LostCounts ==
  ASSUME ConstantsFit, Typed, Typed', RowInv, CountInv, NEW c \in Containers, pc[c] = "count", Goes(c, "idle", NoJob),
         recorded' = recorded, judged' = judged, stats' = stats, lost' = lost \cup {Loss(job[c])}
  PROVE  CountInv'
<1> SUFFICES ASSUME lost' \subseteq {"first_label"}, NEW r \in Rules PROVE CountsOf(r)'
  BY DEF CountInv
<1>1. PICK d \in Calls, new \in Marks, old \in Marks : d = job[c].call /\ new = job[c].label /\ old = job[c].before
  BY DEF RowInv, InHand, Typed, Jobs
<1>2. CountsOf(r) /\ lost' # {}
  BY DEF CountInv
<1>3. old = "unlabelled" /\ Observed(d)
  BY <1>1 DEF Loss
<1>4. ASSUME NEW label \in Labels
      PROVE  /\ Missing(r, label)' = Missing(r, label) + One(r \in Flags[d] /\ new = label)
             /\ MissingReviews(r)' = MissingReviews(r) + One(r \in Flags[d])
             /\ Cardinality(Seen(r)') = Cardinality(Seen(r))
  <2>1. stats[label][r] \in Int /\ stats["reviewed"][r] \in Int /\ Missing(r, label) \in Int /\ MissingReviews(r) \in Int
    BY SumsTyped DEF Typed, Counters
  <2>2. old # new
    BY <1>1, Settled
  <2>3. new \in Labels /\ old \notin Labels
    BY <1>3, <2>2 DEF Marks, Labels
  <2>4. /\ One(r \in Flags[d] /\ old = label) = 0 /\ One(r \in Flags[d] /\ Observed(d) /\ old \in Labels) = 0
        /\ One(r \in Flags[d] /\ Observed(d) /\ new \in Labels) = One(r \in Flags[d])
        /\ One(r \in Flags[d]) \in Int /\ One(r \in Flags[d] /\ new = label) \in Int
    BY <1>3, <2>3 DEF One
  <2> HIDE DEF One
  <2> QED BY <1>1, <2>1, <2>4, Settled
<1>5. new \in Labels
  BY <1>1, <1>3, Settled DEF Marks, Labels
<1>6. /\ One(r \in Flags[d]) = One(r \in Flags[d] /\ new = "correct") + One(r \in Flags[d] /\ new = "false_alarm")
      /\ \A label \in Labels : One(r \in Flags[d] /\ new = label) \in Nat
  BY <1>5 DEF One, Labels
<1>7. "correct" \in Labels /\ "false_alarm" \in Labels
  BY DEF Labels
<1>8. \A label \in Labels : Missing(r, label) \in Int /\ MissingReviews(r) \in Int
  BY SumsTyped
<1> HIDE DEF One
<1>9. stats'["observed"][r] = Cardinality(Seen(r)')
  BY <1>2, <1>4, <1>7 DEF CountsOf
<1>10. ASSUME NEW label \in Labels PROVE Missing(r, label)' >= 0
  BY <1>2, <1>4, <1>6, <1>8 DEF CountsOf
<1>11. MissingReviews(r)' = Missing(r, "correct")' + Missing(r, "false_alarm")'
  BY <1>2, <1>4, <1>6, <1>7, <1>8 DEF CountsOf
<1> QED BY <1>2, <1>9, <1>10, <1>11 DEF CountsOf

LEMMA CrashCounts ==
  ASSUME ConstantsFit, Typed, Typed', RowInv, CountInv, NEW c \in Containers, Crash(c)
  PROVE  CountInv'
<1>1. Goes(c, "idle", NoJob) /\ stats' = stats /\ recorded' = recorded /\ judged' = judged
  BY DEF Crash, Ends
<1>2. CASE pc[c] = "count"
  BY <1>1, <1>2, LostCounts DEF Crash, At
<1>3. CASE pc[c] # "count"
  <2>1. lost' = lost
    BY <1>3 DEF Crash, At
  <2>2. pc'[c] = "idle" /\ \A d \in Calls : Beside(c, d)
    BY <1>1, Constants, GoesOneOnly DEF Beside, Places
  <2>3. CASE Calls # {}
    BY <1>1, <1>3, <2>1, <2>2, <2>3, CountsStay
  <2>4. CASE Calls = {}
    <3>1. \A r, label : /\ Have(r, label)' = Have(r, label) /\ Seen(r)' = Seen(r) /\ Done(r)' = Done(r)
                        /\ Gives(r, label)' = Gives(r, label) /\ Takes(r, label)' = Takes(r, label)
                        /\ Settles(r)' = Settles(r) /\ Reopens(r)' = Reopens(r)
      BY <1>1, <1>3, <2>4, Constants, GoesOneOnly
         DEF Have, Seen, Done, Gives, Takes, Settles, Reopens, Counting, Pending, Flagged, At, Places, Typed
    <3> QED BY <1>1, <2>1, <3>1 DEF CountInv, CountsOf, Missing, MissingReviews
  <2> QED BY <2>3, <2>4
<1> QED BY <1>2, <1>3

-----------------------------------------------------------------------------
LEMMA AtFirst == ASSUME ConstantsFit, Init PROVE IInv
<1> USE Constants
<1>1. Typed
  <2>1. ledger \in [Calls -> Row] /\ memRow \in [Containers -> [Calls -> Row]] /\ judged \in [Calls -> Marks]
    BY DEF Init, Row, Marks
  <2>2. stats \in [Counters -> [Rules -> Int]]
    BY DEF Init, Zero
  <2>3. pc \in [Containers -> {"idle", "put", "label", "count"}] /\ job \in [Containers -> Jobs] /\ recorded \subseteq Calls
    BY DEF Init
  <2> QED BY <2>1, <2>2, <2>3 DEF Typed
<1>2. RowInv
  BY DEF Init, RowInv, OneRow, InHand, Nowhere, Puts
<1>3. CountInv
  <2> SUFFICES ASSUME NEW r \in Rules PROVE CountsOf(r)
    BY DEF CountInv
  <2>1. ASSUME NEW label \in Labels
        PROVE  Have(r, label) = {} /\ Gives(r, label) = {} /\ Takes(r, label) = {} /\ stats[label][r] = 0
    BY DEF Init, Zero, Have, Gives, Takes, Counting, Pending, Flagged, At, Counters
  <2>2. /\ Seen(r) = {} /\ Done(r) = {} /\ Settles(r) = {} /\ Reopens(r) = {}
        /\ stats["observed"][r] = 0 /\ stats["reviewed"][r] = 0
    BY DEF Init, Zero, Seen, Done, Settles, Reopens, Counting, Pending, Flagged, At, Counters
  <2>3. ASSUME NEW label \in Labels PROVE Missing(r, label) = 0
    BY <2>1, FS_EmptySet DEF Missing
  <2>4. MissingReviews(r) = 0 /\ Cardinality(Seen(r)) = 0
    BY <2>2, FS_EmptySet DEF MissingReviews
  <2> QED BY <2>2, <2>3, <2>4 DEF CountsOf, Labels
<1> QED BY <1>1, <1>2, <1>3 DEF IInv

(* Every step keeps the rows in one place and the counts right.            *)
THEOREM ReviewsInvariant == ASSUME ConstantsFit PROVE Spec => []IInv
<1>1. Init => IInv
  BY AtFirst
<1>2. IInv /\ [Next]_vars => IInv'
  <2> SUFFICES ASSUME IInv, [Next]_vars PROVE IInv'
    OBVIOUS
  <2>1. Typed /\ RowInv /\ CountInv
    BY DEF IInv
  <2>2. ASSUME NEW c \in Containers, NEW d \in Calls, Record(c, d) PROVE IInv'
    BY <2>1, <2>2, RecordKeeps, RecordCounts DEF IInv
  <2>3. ASSUME NEW c \in Containers, NEW d \in Calls, NEW label \in Marks, ReadRow(c, d, label) PROVE IInv'
    <3>1. (RowInv /\ Typed)'
      BY <2>1, <2>3, ReadRowKeeps
    <3>2. PICK what \in Jobs : Goes(c, "label", what)
      BY <2>1, <2>3 DEF ReadRow, Jobs, Typed
    <3>3. /\ UNCHANGED <<stats, recorded, judged, lost>> /\ pc[c] # "count"
      BY <2>3 DEF ReadRow, At
    <3>4. pc'[c] # "count" /\ Beside(c, d)
      BY <2>1, <3>2, <3>3, GoesOneOnly DEF Places, Beside
    <3> QED BY <2>1, <3>1, <3>3, <3>4, CountsStay DEF IInv
  <2>4. ASSUME NEW c \in Containers, Put(c) PROVE IInv'
    <3>1. (RowInv /\ Typed)'
      BY <2>1, <2>4, PutKeeps
    <3>2. PICK d \in Calls : d = job[c].call
      BY <2>1, <2>4 DEF Put, At, RowInv, InHand, Typed
    <3>3. /\ UNCHANGED <<stats, recorded, judged, lost>> /\ pc[c] = "put" /\ Goes(c, "idle", NoJob)
      BY <2>4 DEF Put, At, Ends
    <3>4. pc'[c] # "count" /\ Beside(c, d)
      BY <2>1, <3>3, Constants, GoesOneOnly DEF Places, Beside
    <3> QED BY <2>1, <3>1, <3>3, <3>4, CountsStay DEF IInv
  <2>5. ASSUME NEW c \in Containers, LabelRow(c) PROVE IInv'
    BY <2>1, <2>5, LabelKeeps, LabelCounts DEF IInv
  <2>6. ASSUME NEW c \in Containers, CountReview(c) PROVE IInv'
    <3>1. (RowInv /\ Typed)'
      BY <2>1, <2>6, CountKeeps
    <3>2. pc[c] = "count" /\ Goes(c, "idle", NoJob) /\ recorded' = recorded /\ judged' = judged
      BY <2>6 DEF CountReview, At, Ends
    <3>3. CASE stats' = Plus(stats, Deltas(job[c].call, job[c].before, job[c].label)) /\ lost' = lost
      BY <2>1, <2>6, <3>1, <3>3, ReachedCounts DEF IInv
    <3>4. CASE stats' = stats /\ lost' = lost \cup {Loss(job[c])}
      BY <2>1, <3>1, <3>2, <3>4, LostCounts DEF IInv
    <3> QED BY <2>6, <3>3, <3>4 DEF CountReview, Adjusts
  <2>7. ASSUME NEW c \in Containers, Crash(c) PROVE IInv'
    BY <2>1, <2>7, CrashKeeps, CrashCounts DEF IInv
  <2>8. CASE vars' = vars
    <3>1. UNCHANGED <<ledger, memRow, stats, pc, job, recorded, judged, lost>>
      BY <2>8 DEF vars, rows
    <3>2. Typed'
      BY <2>1, <3>1 DEF Typed
    <3>3. RowInv'
      BY <2>1, <3>1 DEF RowInv, OneRow, InHand, Nowhere, Puts
    <3>4. \A r, label : /\ Have(r, label)' = Have(r, label) /\ Seen(r)' = Seen(r) /\ Done(r)' = Done(r)
                        /\ Gives(r, label)' = Gives(r, label) /\ Takes(r, label)' = Takes(r, label)
                        /\ Settles(r)' = Settles(r) /\ Reopens(r)' = Reopens(r)
      BY <3>1 DEF Have, Seen, Done, Gives, Takes, Settles, Reopens, Counting, Pending, Flagged, At
    <3>5. CountInv'
      BY <2>1, <3>1, <3>4 DEF CountInv, CountsOf, Missing, MissingReviews
    <3> QED BY <3>2, <3>3, <3>5 DEF IInv
  <2> QED BY <2>2, <2>3, <2>4, <2>5, <2>6, <2>7, <2>8 DEF Next, Serve, Marks
<1> QED BY <1>1, <1>2, PTL DEF Spec

(* While no count was lost, the rollup and the counts under way say what   *)
(* the labels say (review_deltas over the row label_decision returned).    *)
THEOREM RollupFollowsLabels == ASSUME ConstantsFit PROVE Spec => []CountsFollowLabels
<1>1. IInv => CountsFollowLabels
  <2> SUFFICES ASSUME IInv, lost = {}, NEW r \in Rules
               PROVE  /\ stats["observed"][r] = Cardinality(Seen(r))
                      /\ \A label \in Labels :
                           stats[label][r] + Cardinality(Gives(r, label)) - Cardinality(Takes(r, label)) = Cardinality(Have(r, label))
    <3>1. \A r \in Rules, label \in Labels : /\ Gives(r, label) = {c \in Pending : r \in Flags[job[c].call] /\ job[c].label = label}
                                             /\ Takes(r, label) = {c \in Pending : r \in Flags[job[c].call] /\ job[c].before = label}
      BY DEF Gives, Takes, Counting
    <3> QED BY <3>1 DEF CountsFollowLabels, Seen, Have
  <2>1. CountsOf(r) /\ Typed
    BY DEF IInv, CountInv
  <2>2. ASSUME NEW label \in Labels
        PROVE  stats[label][r] + Cardinality(Gives(r, label)) - Cardinality(Takes(r, label)) = Cardinality(Have(r, label))
    <3>1. Cardinality(Have(r, label)) \in Nat /\ Cardinality(Gives(r, label)) \in Nat /\ Cardinality(Takes(r, label)) \in Nat
      BY <2>1, Finite, FS_CardinalityType
    <3>2. stats[label][r] \in Int
      BY <2>1 DEF Typed, Counters
    <3>3. Missing(r, label) = 0
      BY <2>1 DEF CountsOf
    <3> QED BY <3>1, <3>2, <3>3 DEF Missing
  <2> QED BY <2>1, <2>2 DEF CountsOf
<1> QED BY <1>1, ReviewsInvariant, PTL

(* A rule reads ready only when its reviews say so (readiness): what a     *)
(* lost first label takes from the queue it takes from the labels too, so  *)
(* a queue that reads empty hides no label.                                *)
THEOREM ReadinessIsEarned == ASSUME ConstantsFit PROVE Spec => []ReadyIsEarned
<1>1. IInv => ReadyIsEarned
  <2> SUFFICES ASSUME IInv, lost \subseteq {"first_label"}, \A c \in Pending : Loss(job[c]) = "first_label",
                      NEW r \in Rules, Ready(r)
               PROVE  /\ \E d \in Flagged(r, recorded) : judged[d] = "correct"
                      /\ \A d \in Flagged(r, recorded) : judged[d] # "false_alarm"
                      /\ \A d \in Flagged(r, recorded) : Observed(d) => judged[d] = "correct"
    BY DEF ReadyIsEarned
  <2> USE DEF Labels
  <2>1. CountsOf(r) /\ Typed /\ RowInv
    BY DEF IInv, CountInv
  <2>2. \A c \in Pending : job[c].before = "unlabelled" /\ Observed(job[c].call) /\ job[c].label \in Labels
    <3>1. \A c \in Pending : job[c].before = "unlabelled" /\ Observed(job[c].call)
      BY DEF Loss
    <3>2. \A c \in Pending : job[c].label \in Marks /\ job[c].before # job[c].label
      BY <2>1 DEF Pending, At, RowInv, InHand, Typed, Jobs
    <3> QED BY <3>1, <3>2 DEF Marks
  <2>3. Reopens(r) = {} /\ \A label \in Labels : Takes(r, label) = {} /\ Gives(r, label) \subseteq Settles(r)
    BY <2>2 DEF Reopens, Takes, Gives, Settles, Counting
  <2>4. /\ Cardinality(Done(r)) \in Nat /\ Cardinality(Seen(r)) \in Nat /\ Cardinality(Settles(r)) \in Nat
        /\ \A label \in Labels : Cardinality(Have(r, label)) \in Nat
    BY <2>1, Finite, FS_CardinalityType
  <2>5. Done(r) \subseteq Seen(r) /\ Cardinality(Done(r)) <= Cardinality(Seen(r))
        /\ (Cardinality(Done(r)) = Cardinality(Seen(r)) => Done(r) = Seen(r))
    <3>1. Done(r) \subseteq Seen(r)
      BY DEF Done
    <3> QED BY <2>1, <3>1, Finite, FS_Subset
  <2>6. /\ \A label \in Labels : stats[label][r] \in Int
        /\ stats["reviewed"][r] \in Int /\ stats["observed"][r] \in Int
    BY <2>1 DEF Typed, Counters
  <2>7. /\ stats["observed"][r] = Cardinality(Seen(r)) /\ stats["observed"][r] <= stats["reviewed"][r]
        /\ stats["false_alarm"][r] = 0 /\ stats["correct"][r] > 0
    BY <2>1, <2>6 DEF CountsOf, Ready, Waiting
  <2>8. MissingReviews(r) = Cardinality(Done(r)) - stats["reviewed"][r] - Cardinality(Settles(r))
    BY <2>3, <2>4, <2>6, FS_EmptySet DEF MissingReviews
  <2>9. /\ Missing(r, "correct") \in Int /\ Missing(r, "false_alarm") \in Int
        /\ Missing(r, "correct") >= 0 /\ Missing(r, "false_alarm") >= 0
        /\ MissingReviews(r) = Missing(r, "correct") + Missing(r, "false_alarm")
    BY <2>1, SumsTyped DEF CountsOf
  <2>10. /\ Cardinality(Settles(r)) = 0 /\ Missing(r, "correct") = 0 /\ Missing(r, "false_alarm") = 0
         /\ Cardinality(Done(r)) = Cardinality(Seen(r))
    BY <2>4, <2>5, <2>6, <2>7, <2>8, <2>9
  <2>11. \A label \in Labels : Cardinality(Gives(r, label)) = 0 /\ Cardinality(Takes(r, label)) = 0
    BY <2>1, <2>3, <2>10, Finite, FS_EmptySet
  <2>12. Cardinality(Have(r, "false_alarm")) = 0 /\ Cardinality(Have(r, "correct")) > 0
    BY <2>4, <2>6, <2>7, <2>10, <2>11 DEF Missing
  <2>13. Have(r, "false_alarm") = {} /\ Have(r, "correct") # {}
    BY <2>1, <2>12, Finite, FS_EmptySet
  <2>14. Done(r) = Seen(r)
    BY <2>5, <2>10
  <2> QED BY <2>13, <2>14 DEF Have, Done, Seen
<1> QED BY <1>1, ReviewsInvariant, PTL

-----------------------------------------------------------------------------
(* THE BUDGET OF THE DRAFTS                                                *)

Stages  == {"idle", "check", "send", "answer"}
Besides == {<<>>} \cup {Usable(rules) : rules \in RuleSets}
InHands == [input : Inputs \cup {"blank"}, day : Days, from : Sources, beside : Besides, attempts : Nat]

DraftsTyped ==
  /\ day \in Days /\ force \in RuleSets
  /\ claimed \in [Days -> Nat] /\ inMemory \in [Servers -> [Days -> Nat]]
  /\ made \in [Servers -> Nat] /\ sent \in [Days -> [Sources -> Nat]]
  /\ step \in [Servers -> Stages] /\ draft \in [Servers -> InHands]

(* The calls claimed of a day's row, or in a container's memory.           *)
Claimed(d, s) == IF s = Table THEN claimed[d] ELSE inMemory[s][d]

(* The calls that drafts under way may still make of what they claimed.    *)
Owes(c, d, s) == step[c] # "idle" /\ draft[c].day = d /\ draft[c].from = s
Open(d, s)    == {p \in Servers \X (1..PerDraft) : Owes(p[1], d, s) /\ p[2] > draft[p[1]].attempts}

WithinClaims == \A d \in Days, s \in Sources : sent[d][s] + Cardinality(Open(d, s)) <= Claimed(d, s)
WithinCap    == \A d \in Days, s \in Sources : Claimed(d, s) <= Cap

(* A draft that is about to send has an attempt left; what it claimed in a *)
(* memory is in its own container's.                                       *)
HasAttempt(c) ==
  /\ draft[c].from \in {Table, c}
  /\ step[c] = "check" => draft[c].attempts = 0
  /\ step[c] = "send" => draft[c].attempts < MaxAttempts
  /\ made[c] <= PerContainer

BudgetInv == DraftsTyped /\ WithinClaims /\ WithinCap /\ \A c \in Servers : HasAttempt(c)

-----------------------------------------------------------------------------
LEMMA OpenIsFinite ==
  ASSUME DraftsFit, NEW d, NEW s
  PROVE  /\ IsFiniteSet(Open(d, s)) /\ Cardinality(Open(d, s)) \in Nat
         /\ IsFiniteSet(Open(d, s)') /\ Cardinality(Open(d, s)') \in Nat
<1> DEFINE all == Servers \X (1..PerDraft)
<1>1. IsFiniteSet(all)
  <2>1. IsFiniteSet(1..PerDraft) /\ IsFiniteSet(Servers)
    BY FS_Interval DEF DraftsFit
  <2> QED BY <2>1, FS_Product
<1>2. Open(d, s) \subseteq all /\ Open(d, s)' \subseteq all
  BY DEF Open
<1> QED BY <1>1, <1>2, FS_Subset, FS_CardinalityType

LEMMA FewerOpen ==
  ASSUME DraftsFit, NEW d, NEW s, Open(d, s)' \subseteq Open(d, s)
  PROVE  Cardinality(Open(d, s)') <= Cardinality(Open(d, s))
  BY OpenIsFinite, FS_Subset

LEMMA ClaimedOpen ==
  ASSUME DraftsFit, NEW d, NEW s, NEW c, Open(d, s)' \subseteq Open(d, s) \cup ({c} \X (1..PerDraft))
  PROVE  Cardinality(Open(d, s)') <= Cardinality(Open(d, s)) + PerDraft
<1> DEFINE new == {c} \X (1..PerDraft)
<1>1. IsFiniteSet(new) /\ Cardinality(new) = PerDraft
  <2>1. IsFiniteSet({c}) /\ Cardinality({c}) = 1
    BY FS_Singleton
  <2>2. IsFiniteSet(1..PerDraft) /\ Cardinality(1..PerDraft) = PerDraft
    BY FS_Interval DEF DraftsFit
  <2>3. Cardinality(new) = 1 * PerDraft
    BY <2>1, <2>2, FS_Product
  <2> QED BY <2>1, <2>2, <2>3, FS_Product DEF DraftsFit
<1> HIDE DEF new
<1>2. IsFiniteSet(Open(d, s) \cup new)
      /\ Cardinality(Open(d, s) \cup new) <= Cardinality(Open(d, s)) + PerDraft
  <2>1. Cardinality(Open(d, s) \cap new) \in Nat
    BY <1>1, FS_Intersection, FS_CardinalityType
  <2>2. IsFiniteSet(Open(d, s)) /\ Cardinality(Open(d, s)) \in Nat
    BY OpenIsFinite
  <2>3. /\ IsFiniteSet(Open(d, s) \cup new)
        /\ Cardinality(Open(d, s) \cup new)
             = Cardinality(Open(d, s)) + Cardinality(new) - Cardinality(Open(d, s) \cap new)
    BY <1>1, <2>2, FS_Union
  <2> QED BY <1>1, <2>1, <2>2, <2>3 DEF DraftsFit
<1>3. Cardinality(Open(d, s)') <= Cardinality(Open(d, s) \cup new)
  BY <1>2, FS_Subset DEF new
<1>4. Cardinality(Open(d, s) \cup new) \in Nat
  BY <1>2, FS_CardinalityType
<1> QED BY <1>2, <1>3, <1>4, OpenIsFinite DEF DraftsFit

LEMMA OneLessOpen ==
  ASSUME DraftsFit, NEW d, NEW s, NEW p \in Open(d, s), Open(d, s)' \subseteq Open(d, s) \ {p}
  PROVE  Cardinality(Open(d, s)') + 1 <= Cardinality(Open(d, s))
<1>1. IsFiniteSet(Open(d, s) \ {p}) /\ Cardinality(Open(d, s) \ {p}) = Cardinality(Open(d, s)) - 1
  BY OpenIsFinite, FS_RemoveElement
<1>2. Cardinality(Open(d, s)') <= Cardinality(Open(d, s) \ {p})
  BY <1>1, FS_Subset
<1> QED BY <1>1, <1>2, OpenIsFinite

-----------------------------------------------------------------------------
(* One container at a time                                                 *)

LEMMA MovesAlone ==
  ASSUME DraftsTyped, NEW c \in Servers, NEW label \in Stages, NEW d \in InHands, Moves(c, label, d)
  PROVE  /\ step'[c] = label /\ draft'[c] = d
         /\ step' \in [Servers -> Stages] /\ draft' \in [Servers -> InHands]
         /\ \A b \in Servers : b # c => step'[b] = step[b] /\ draft'[b] = draft[b]
<1>1. step' = [step EXCEPT ![c] = label] /\ draft' = [draft EXCEPT ![c] = d]
  BY DEF Moves
<1>2. step \in [Servers -> Stages] /\ draft \in [Servers -> InHands]
  BY DEF DraftsTyped
<1>3. step'[c] = label /\ draft'[c] = d
  BY <1>1, <1>2
<1> QED BY <1>1, <1>2, <1>3

LEMMA NothingInHand == ASSUME DraftsFit PROVE NoDraft \in InHands
<1>1. 1 \in Days /\ Table \in Sources /\ <<>> \in Besides
  BY DEF Days, Sources, Besides, DraftsFit
<1> QED BY <1>1 DEF NoDraft, NewDraft, InHands

LEMMA CountedTyped ==
  ASSUME DraftsTyped, NEW d \in Days, NEW s \in Sources
  PROVE  Claimed(d, s) \in Nat /\ sent[d][s] \in Nat
<1>1. sent[d][s] \in Nat
  BY DEF DraftsTyped
<1>2. CASE s = Table
  BY <1>1, <1>2 DEF Claimed, DraftsTyped
<1>3. CASE s # Table
  BY <1>1, <1>3 DEF Claimed, DraftsTyped, Sources
<1> QED BY <1>2, <1>3

(* A draft that goes on, or ends, claims nothing more.                     *)
GoesOn(c) ==
  \/ step'[c] = "idle"
  \/ /\ step[c] # "idle" /\ draft'[c].day = draft[c].day /\ draft'[c].from = draft[c].from
     /\ draft'[c].attempts = draft[c].attempts

LEMMA NoMoreOpen ==
  ASSUME NEW c \in Servers, NEW d, NEW s, GoesOn(c),
         \A b \in Servers : b # c => step'[b] = step[b] /\ draft'[b] = draft[b]
  PROVE  Open(d, s)' \subseteq Open(d, s)
<1> SUFFICES ASSUME NEW p \in Open(d, s)' PROVE p \in Open(d, s)
  OBVIOUS
<1>1. p \in Servers \X (1..PerDraft) /\ Owes(p[1], d, s)' /\ p[2] > draft'[p[1]].attempts /\ p[1] \in Servers
  BY DEF Open
<1>2. CASE p[1] = c
  BY <1>1, <1>2 DEF Open, Owes, GoesOn
<1>3. CASE p[1] # c
  BY <1>1, <1>3 DEF Open, Owes
<1> QED BY <1>2, <1>3

(* No claim is taken back, and none goes past the cap.                     *)
ClaimsGrow ==
  /\ claimed' \in [Days -> Nat] /\ inMemory' \in [Servers -> [Days -> Nat]]
  /\ \A d \in Days, s \in Sources : Claimed(d, s) <= Claimed(d, s)' /\ Claimed(d, s)' <= Cap

LEMMA ClaimsStay == ASSUME BudgetInv, UNCHANGED <<claimed, inMemory>> PROVE ClaimsGrow
<1>1. \A d \in Days, s \in Sources : Claimed(d, s) \in Nat /\ Claimed(d, s) <= Cap /\ Claimed(d, s)' = Claimed(d, s)
  BY CountedTyped DEF BudgetInv, WithinCap, Claimed
<1> QED BY <1>1 DEF ClaimsGrow, BudgetInv, DraftsTyped

LEMMA ClaimsHold ==
  ASSUME DraftsFit, BudgetInv, ClaimsGrow, DraftsTyped', NEW d \in Days, NEW s \in Sources,
         Open(d, s)' \subseteq Open(d, s), sent'[d][s] = sent[d][s]
  PROVE  sent'[d][s] + Cardinality(Open(d, s)') <= Claimed(d, s)'
<1>1. sent[d][s] + Cardinality(Open(d, s)) <= Claimed(d, s)
  BY DEF BudgetInv, WithinClaims
<1>2. Cardinality(Open(d, s)') <= Cardinality(Open(d, s))
  BY FewerOpen
<1>3. Claimed(d, s) <= Claimed(d, s)' /\ Claimed(d, s)' \in Nat
  BY DEF ClaimsGrow, Claimed, Sources
<1> QED BY <1>1, <1>2, <1>3, OpenIsFinite, CountedTyped DEF BudgetInv

(* A step that moves one draft on, and neither claims nor sends.           *)
LEMMA QuietKeeps ==
  ASSUME DraftsFit, BudgetInv, NEW c \in Servers, NEW label \in Stages, NEW d \in InHands, Moves(c, label, d),
         GoesOn(c), d.from \in {Table, c}, label = "send" => d.attempts < MaxAttempts, label # "check",
         ClaimsGrow, UNCHANGED <<day, made, force, sent>>
  PROVE  BudgetInv'
<1>1. /\ step'[c] = label /\ draft'[c] = d
      /\ step' \in [Servers -> Stages] /\ draft' \in [Servers -> InHands]
      /\ \A b \in Servers : b # c => step'[b] = step[b] /\ draft'[b] = draft[b]
  BY MovesAlone DEF BudgetInv
<1>2. DraftsTyped'
  BY <1>1 DEF BudgetInv, DraftsTyped, ClaimsGrow
<1>3. WithinClaims'
  <2> SUFFICES ASSUME NEW e \in Days, NEW s \in Sources
               PROVE  sent'[e][s] + Cardinality(Open(e, s)') <= Claimed(e, s)'
    BY DEF WithinClaims
  <2> QED BY <1>1, <1>2, NoMoreOpen, ClaimsHold
<1>4. WithinCap'
  BY DEF ClaimsGrow, WithinCap
<1>5. \A b \in Servers : HasAttempt(b)'
  BY <1>1 DEF BudgetInv, HasAttempt
<1> QED BY <1>2, <1>3, <1>4, <1>5 DEF BudgetInv

LEMMA ClosesKeeps ==
  ASSUME DraftsFit, BudgetInv, NEW c \in Servers, NEW status, NEW rule, Closes(c, status, rule),
         ClaimsGrow, UNCHANGED <<day, made, force, sent>>
  PROVE  BudgetInv'
<1>1. Moves(c, "idle", NoDraft) /\ NoDraft \in InHands /\ NoDraft.from = Table
  BY NothingInHand DEF Closes, NoDraft, NewDraft
<1>2. GoesOn(c)
  BY <1>1, MovesAlone DEF GoesOn, BudgetInv, Stages
<1> QED BY <1>1, <1>2, QuietKeeps DEF Stages

-----------------------------------------------------------------------------
(* A claim                                                                 *)

LEMMA BegunOpen ==
  ASSUME DraftsTyped, NEW c \in Servers, NEW from, NEW d, NEW s, step[c] = "idle",
         draft'[c].day = day, draft'[c].from = from,
         \A b \in Servers : b # c => step'[b] = step[b] /\ draft'[b] = draft[b]
  PROVE  /\ Open(d, s)' \subseteq Open(d, s) \cup ({c} \X (1..PerDraft))
         /\ <<d, s>> # <<day, from>> => Open(d, s)' \subseteq Open(d, s)
<1> SUFFICES ASSUME NEW p \in Open(d, s)'
             PROVE  p \in Open(d, s) \/ (p \in {c} \X (1..PerDraft) /\ <<d, s>> = <<day, from>>)
  OBVIOUS
<1>1. p \in Servers \X (1..PerDraft) /\ Owes(p[1], d, s)' /\ p[2] > draft'[p[1]].attempts /\ p[1] \in Servers
  BY DEF Open
<1>2. CASE p[1] = c
  BY <1>1, <1>2 DEF Owes
<1>3. CASE p[1] # c
  BY <1>1, <1>3 DEF Open, Owes
<1> QED BY <1>2, <1>3

(* What is claimed covers what the draft may send.                         *)
LEMMA BeginsKeeps ==
  ASSUME DraftsFit, BudgetInv, NEW c \in Servers, NEW input \in Inputs, NEW from \in {Table, c},
         Stands(c, "idle"), Begins(c, input, from), ClaimsGrow, UNCHANGED <<day, made, force, sent>>,
         Claimed(day, from)' = Claimed(day, from) + PerDraft
  PROVE  BudgetInv'
<1> DEFINE e == NewDraft(input, day, from)
<1>1. e = [input |-> input, day |-> day, from |-> from, beside |-> <<>>, attempts |-> 0]
  BY DEF NewDraft
<1>2. e \in InHands
  <2>1. input \in Inputs /\ day \in Days /\ from \in Sources /\ <<>> \in Besides
    BY DEF BudgetInv, DraftsTyped, Sources, Besides
  <2> QED BY <1>1, <2>1 DEF InHands
<1>3. Moves(c, "check", e)
  BY DEF Begins
<1> HIDE DEF e
<1>4. /\ step'[c] = "check" /\ draft'[c] = e
      /\ step' \in [Servers -> Stages] /\ draft' \in [Servers -> InHands]
      /\ \A b \in Servers : b # c => step'[b] = step[b] /\ draft'[b] = draft[b]
  BY <1>2, <1>3, MovesAlone DEF BudgetInv, Stages
<1>5. DraftsTyped'
  BY <1>4 DEF BudgetInv, DraftsTyped, ClaimsGrow
<1>6. WithinClaims'
  <2> SUFFICES ASSUME NEW d \in Days, NEW s \in Sources
               PROVE  sent'[d][s] + Cardinality(Open(d, s)') <= Claimed(d, s)'
    BY DEF WithinClaims
  <2>1. Claimed(d, s)' \in Nat /\ Claimed(d, s) \in Nat /\ sent[d][s] \in Nat
    BY CountedTyped DEF BudgetInv, Claimed, ClaimsGrow, Sources
  <2>2. step[c] = "idle" /\ draft'[c].day = day /\ draft'[c].from = from
    BY <1>1, <1>4 DEF Stands
  <2>3. CASE <<d, s>> # <<day, from>>
    <3>1. Open(d, s)' \subseteq Open(d, s)
      BY <1>4, <2>2, <2>3, BegunOpen DEF BudgetInv
    <3> QED BY <1>5, <3>1, ClaimsHold
  <2>4. CASE <<d, s>> = <<day, from>>
    <3>1. Open(d, s)' \subseteq Open(d, s) \cup ({c} \X (1..PerDraft))
      BY <1>4, <2>2, BegunOpen DEF BudgetInv
    <3>2. Cardinality(Open(d, s)') <= Cardinality(Open(d, s)) + PerDraft
      BY <3>1, ClaimedOpen
    <3>3. sent[d][s] + Cardinality(Open(d, s)) <= Claimed(d, s)
      BY DEF BudgetInv, WithinClaims
    <3>4. Claimed(d, s)' = Claimed(d, s) + PerDraft /\ sent'[d][s] = sent[d][s]
      BY <2>4
    <3> QED BY <2>1, <3>2, <3>3, <3>4, OpenIsFinite DEF DraftsFit
  <2> QED BY <2>3, <2>4
<1>7. \A b \in Servers : HasAttempt(b)'
  BY <1>1, <1>4 DEF BudgetInv, HasAttempt
<1>8. WithinCap'
  BY DEF ClaimsGrow, WithinCap
<1> QED BY <1>5, <1>6, <1>7, <1>8 DEF BudgetInv

LEMMA ClaimKeeps ==
  ASSUME DraftsFit, BudgetInv, NEW c \in Servers, NEW input \in Inputs, Claim(c, input)
  PROVE  BudgetInv'
<1>1. /\ claimed \in [Days -> Nat] /\ inMemory \in [Servers -> [Days -> Nat]] /\ day \in Days
      /\ PerDraft \in Nat /\ Cap \in Nat /\ Table \notin Servers
  BY DEF BudgetInv, DraftsTyped, DraftsFit
<1>2. UNCHANGED <<day, made, force, sent>> /\ Stands(c, "idle")
  BY DEF Claim
<1>3. \A d \in Days : claimed[d] \in Nat /\ claimed[d] <= Cap
  BY <1>1 DEF BudgetInv, WithinCap, Claimed, Sources
<1>4. \A b \in Servers, d \in Days : inMemory[b][d] \in Nat /\ inMemory[b][d] <= Cap
  BY <1>1 DEF BudgetInv, WithinCap, Claimed, Sources
<1> DEFINE more == [claimed EXCEPT ![day] = @ + PerDraft]
<1>5. ASSUME Fits(claimed[day])
      PROVE  /\ more \in [Days -> Nat] /\ more[day] = claimed[day] + PerDraft
             /\ \A d \in Days : claimed[d] <= more[d] /\ more[d] <= Cap
  <2>1. claimed[day] + PerDraft <= Cap
    BY <1>1, <1>3, <1>5 DEF Fits
  <2> QED BY <1>1, <1>3, <2>1
<1> HIDE DEF more
<1>6. CASE Fits(claimed[day]) /\ claimed' = more /\ Begins(c, input, Table) /\ UNCHANGED inMemory
  <2>1. ClaimsGrow
    BY <1>1, <1>4, <1>5, <1>6 DEF Claimed, Sources, ClaimsGrow
  <2>2. Claimed(day, Table)' = Claimed(day, Table) + PerDraft
    BY <1>2, <1>5, <1>6 DEF Claimed
  <2> QED BY <1>2, <1>6, <2>1, <2>2, BeginsKeeps
<1>7. CASE Closes(c, 429, NoRule) /\ UNCHANGED <<claimed, inMemory>>
  BY <1>2, <1>7, ClosesKeeps, ClaimsStay
<1>8. ASSUME claimed' = claimed \/ (Fits(claimed[day]) /\ claimed' = more)
      PROVE  claimed' \in [Days -> Nat] /\ \A d \in Days : claimed[d] <= claimed'[d] /\ claimed'[d] <= Cap
  BY <1>1, <1>3, <1>5, <1>8
<1>9. CASE /\ claimed' = claimed \/ (Fits(claimed[day]) /\ claimed' = more)
           /\ Fits(inMemory[c][day]) /\ inMemory' = [inMemory EXCEPT ![c][day] = @ + PerDraft] /\ Begins(c, input, c)
  <2>1. inMemory[c][day] + PerDraft <= Cap
    BY <1>1, <1>4, <1>9 DEF Fits
  <2>2. inMemory' \in [Servers -> [Days -> Nat]] /\ inMemory'[c][day] = inMemory[c][day] + PerDraft
    BY <1>1, <1>4, <1>9
  <2>3. \A b \in Servers, d \in Days : inMemory[b][d] <= inMemory'[b][d] /\ inMemory'[b][d] <= Cap
    BY <1>1, <1>4, <1>9, <2>1
  <2>4. ClaimsGrow
    BY <1>1, <1>8, <1>9, <2>2, <2>3 DEF Claimed, Sources, ClaimsGrow
  <2>5. Claimed(day, c)' = Claimed(day, c) + PerDraft
    BY <1>1, <1>2, <2>2 DEF Claimed
  <2> QED BY <1>2, <1>9, <2>4, <2>5, BeginsKeeps
<1>10. CASE /\ claimed' = claimed \/ (Fits(claimed[day]) /\ claimed' = more)
            /\ Closes(c, 429, NoRule) /\ UNCHANGED inMemory
  <2>1. ClaimsGrow
    BY <1>1, <1>4, <1>8, <1>10 DEF Claimed, Sources, ClaimsGrow
  <2> QED BY <1>2, <1>10, <2>1, ClosesKeeps
<1> QED BY <1>6, <1>7, <1>9, <1>10 DEF Claim, more

-----------------------------------------------------------------------------
(* The other steps                                                         *)

LEMMA BudgetStarts == ASSUME DraftsFit, DraftsInit PROVE BudgetInv
<1>1. 1 \in Days /\ NoDraft \in InHands /\ {Cap, PerContainer} \subseteq Nat
  BY NothingInHand DEF Days, DraftsFit
<1>2. DraftsTyped
  BY <1>1 DEF DraftsInit, DraftsTyped, Stages
<1>3. \A d \in Days, s \in Sources : sent[d][s] = 0 /\ Claimed(d, s) = 0
  BY DEF DraftsInit, Claimed, Sources
<1>4. \A d, s : Open(d, s) = {}
  BY DEF DraftsInit, Open, Owes
<1>5. Cardinality({}) = 0
  BY FS_EmptySet
<1>6. WithinClaims /\ WithinCap
  BY <1>1, <1>3, <1>4, <1>5 DEF WithinClaims, WithinCap
<1>7. \A c \in Servers : HasAttempt(c)
  BY <1>1 DEF DraftsInit, HasAttempt, NoDraft, NewDraft
<1> QED BY <1>2, <1>6, <1>7 DEF BudgetInv

LEMMA RefuseKeeps == ASSUME DraftsFit, BudgetInv, NEW c \in Servers, Refuse(c) PROVE BudgetInv'
<1>1. Closes(c, 400, NoRule) /\ UNCHANGED <<day, claimed, inMemory, made, force, sent>>
  BY DEF Refuse
<1> QED BY <1>1, ClaimsStay, ClosesKeeps

LEMMA CheckKeeps == ASSUME DraftsFit, BudgetInv, NEW c \in Servers, Check(c) PROVE BudgetInv'
<1>1. step[c] = "check" /\ UNCHANGED <<day, claimed, inMemory, made, force, sent>>
  BY DEF Check, Stands
<1>2. CASE Closes(c, 400, NoRule)
  BY <1>1, <1>2, ClaimsStay, ClosesKeeps
<1>3. CASE Moves(c, "send", [draft[c] EXCEPT !.beside = Usable(force)])
  <2> DEFINE e == [draft[c] EXCEPT !.beside = Usable(force)]
  <2>1. draft[c] \in InHands /\ Usable(force) \in Besides
    BY DEF BudgetInv, DraftsTyped, Besides
  <2>2. e \in InHands /\ e.day = draft[c].day /\ e.from = draft[c].from /\ e.attempts = draft[c].attempts
    BY <2>1 DEF InHands
  <2> HIDE DEF e
  <2>3. draft[c].attempts = 0 /\ draft[c].from \in {Table, c} /\ 0 < MaxAttempts
    BY <1>1 DEF BudgetInv, HasAttempt, DraftsFit
  <2>4. Moves(c, "send", e)
    BY <1>3 DEF e
  <2>5. draft'[c] = e
    BY <2>2, <2>4, MovesAlone DEF BudgetInv, Stages
  <2>6. GoesOn(c)
    BY <1>1, <2>2, <2>5 DEF GoesOn
  <2> QED BY <1>1, <2>2, <2>3, <2>4, <2>6, ClaimsStay, QuietKeeps DEF Stages
<1> QED BY <1>2, <1>3 DEF Check

LEMMA AnswerKeeps == ASSUME DraftsFit, BudgetInv, NEW c \in Servers, Answer(c) PROVE BudgetInv'
<1>1. step[c] = "answer" /\ UNCHANGED <<day, claimed, inMemory, made, force, sent>>
  BY DEF Answer, Stands
<1>2. \/ \E status, rule : Closes(c, status, rule)
      \/ draft[c].attempts < MaxAttempts /\ Moves(c, "send", draft[c])
  BY DEF Answer
<1>3. ASSUME NEW status, NEW rule, Closes(c, status, rule) PROVE BudgetInv'
  BY <1>1, <1>3, ClaimsStay, ClosesKeeps
<1>4. CASE draft[c].attempts < MaxAttempts /\ Moves(c, "send", draft[c])
  <2>1. draft[c] \in InHands /\ draft[c].from \in {Table, c}
    BY DEF BudgetInv, DraftsTyped, HasAttempt
  <2>2. draft'[c] = draft[c]
    BY <1>4, <2>1, MovesAlone DEF BudgetInv, Stages
  <2>3. GoesOn(c)
    BY <1>1, <2>2 DEF GoesOn
  <2> QED BY <1>1, <1>4, <2>1, <2>3, ClaimsStay, QuietKeeps DEF Stages
<1> QED BY <1>2, <1>3, <1>4

(* A call is sent out of what its draft claimed.                           *)
LEMMA SendKeeps == ASSUME DraftsFit, BudgetInv, NEW c \in Servers, Send(c) PROVE BudgetInv'
<1> DEFINE d == draft[c]
           e == [d EXCEPT !.attempts = @ + 1]
<1>1. /\ step[c] = "send" /\ UNCHANGED <<day, claimed, inMemory, force>>
      /\ \/ Closes(c, 503, NoRule) /\ UNCHANGED <<made, sent>>
         \/ /\ made[c] < PerContainer \/ ~(made[c] >= PerContainer)
            /\ made' = [made EXCEPT ![c] = @ + 1] /\ sent' = [sent EXCEPT ![d.day][d.from] = @ + 1]
            /\ Moves(c, "answer", e)
  BY DEF Send, Stands
<1>2. CASE Closes(c, 503, NoRule) /\ UNCHANGED <<made, sent>>
  BY <1>1, <1>2, ClaimsStay, ClosesKeeps
<1>3. CASE /\ ~(made[c] >= PerContainer)
           /\ made' = [made EXCEPT ![c] = @ + 1] /\ sent' = [sent EXCEPT ![d.day][d.from] = @ + 1]
           /\ Moves(c, "answer", e)
  <2>1. d \in InHands /\ d.from \in {Table, c} /\ d.attempts < MaxAttempts /\ made[c] \in Nat
    BY <1>1 DEF BudgetInv, DraftsTyped, HasAttempt
  <2>2. /\ e \in InHands /\ e.day = d.day /\ e.from = d.from /\ e.attempts = d.attempts + 1
        /\ d.day \in Days /\ d.from \in Sources /\ d.attempts \in Nat
    BY <2>1 DEF InHands
  <2> HIDE DEF e
  <2>3. /\ step'[c] = "answer" /\ draft'[c] = e
        /\ step' \in [Servers -> Stages] /\ draft' \in [Servers -> InHands]
        /\ \A b \in Servers : b # c => step'[b] = step[b] /\ draft'[b] = draft[b]
    BY <1>3, <2>2, MovesAlone DEF BudgetInv, Stages
  <2>4. made' \in [Servers -> Nat] /\ made'[c] <= PerContainer /\ \A b \in Servers : b # c => made'[b] = made[b]
    BY <1>3, <2>1 DEF BudgetInv, DraftsTyped, DraftsFit
  <2>5. /\ sent' \in [Days -> [Sources -> Nat]] /\ sent'[d.day][d.from] = sent[d.day][d.from] + 1
        /\ \A f \in Days, s \in Sources : <<f, s>> # <<d.day, d.from>> => sent'[f][s] = sent[f][s]
    BY <1>3, <2>2 DEF BudgetInv, DraftsTyped
  <2>6. DraftsTyped'
    BY <1>1, <2>3, <2>4, <2>5 DEF BudgetInv, DraftsTyped
  <2>7. WithinClaims'
    <3> SUFFICES ASSUME NEW f \in Days, NEW s \in Sources
                 PROVE  sent'[f][s] + Cardinality(Open(f, s)') <= Claimed(f, s)'
      BY DEF WithinClaims
    <3>1. Open(f, s)' \subseteq Open(f, s) \ {<<c, d.attempts + 1>>}
      <4> SUFFICES ASSUME NEW p \in Open(f, s)' PROVE p \in Open(f, s) /\ p # <<c, d.attempts + 1>>
        OBVIOUS
      <4>1. p \in Servers \X (1..PerDraft) /\ Owes(p[1], f, s)' /\ p[2] > draft'[p[1]].attempts /\ p[1] \in Servers /\ p[2] \in Nat
        BY DEF Open, DraftsFit
      <4>2. CASE p[1] = c
        <5>1. p[2] > d.attempts + 1 /\ d.day = f /\ d.from = s
          BY <2>2, <2>3, <4>1, <4>2 DEF Owes
        <5>2. Owes(p[1], f, s) /\ p[2] > d.attempts
          BY <1>1, <2>2, <4>1, <4>2, <5>1 DEF Owes
        <5> QED BY <2>2, <4>1, <4>2, <5>1, <5>2 DEF Open
      <4>3. CASE p[1] # c
        BY <2>3, <4>1, <4>3 DEF Open, Owes
      <4> QED BY <4>2, <4>3
    <3>2. CASE <<f, s>> # <<d.day, d.from>>
      BY <1>1, <2>5, <2>6, <3>1, <3>2, ClaimsStay, ClaimsHold
    <3>3. CASE <<f, s>> = <<d.day, d.from>>
      <4>1. <<c, d.attempts + 1>> \in Open(f, s)
        BY <1>1, <2>1, <2>2, <3>3 DEF Open, Owes, DraftsFit
      <4>2. Cardinality(Open(f, s)') + 1 <= Cardinality(Open(f, s))
        BY <3>1, <4>1, OneLessOpen
      <4>3. sent[f][s] + Cardinality(Open(f, s)) <= Claimed(f, s) /\ sent[f][s] \in Nat /\ Claimed(f, s) \in Nat
        BY CountedTyped DEF BudgetInv, WithinClaims
      <4>4. Claimed(f, s)' = Claimed(f, s) /\ sent'[f][s] = sent[f][s] + 1
        BY <1>1, <2>5, <3>3 DEF Claimed
      <4> QED BY <4>2, <4>3, <4>4, OpenIsFinite
    <3> QED BY <3>2, <3>3
  <2>8. WithinCap'
    BY <1>1, ClaimsStay DEF WithinCap, ClaimsGrow
  <2>9. \A b \in Servers : HasAttempt(b)'
    BY <2>1, <2>2, <2>3, <2>4 DEF BudgetInv, HasAttempt
  <2> QED BY <2>6, <2>7, <2>8, <2>9 DEF BudgetInv
<1> QED BY <1>1, <1>2, <1>3 DEF Send

(* What a container claimed in its memory goes with its memory.            *)
LEMMA RecycledKeeps == ASSUME DraftsFit, BudgetInv, NEW c \in Servers, Recycled(c) PROVE BudgetInv'
<1>1. /\ Moves(c, "idle", NoDraft) /\ UNCHANGED <<day, claimed, force>>
      /\ made' = [made EXCEPT ![c] = 0] /\ inMemory' = [inMemory EXCEPT ![c] = [d \in Days |-> 0]]
      /\ sent' = [d \in Days |-> [sent[d] EXCEPT ![c] = 0]]
  BY DEF Recycled
<1>2. NoDraft \in InHands /\ Table \notin Servers /\ {Cap, PerContainer} \subseteq Nat
  BY NothingInHand DEF DraftsFit
<1>3. /\ step'[c] = "idle" /\ draft'[c] = NoDraft
      /\ step' \in [Servers -> Stages] /\ draft' \in [Servers -> InHands]
      /\ \A b \in Servers : b # c => step'[b] = step[b] /\ draft'[b] = draft[b]
  BY <1>1, <1>2, MovesAlone DEF BudgetInv, Stages
<1>4. made' \in [Servers -> Nat] /\ made'[c] = 0 /\ \A b \in Servers : b # c => made'[b] = made[b]
  BY <1>1 DEF BudgetInv, DraftsTyped
<1>5. /\ inMemory' \in [Servers -> [Days -> Nat]] /\ \A d \in Days : inMemory'[c][d] = 0
      /\ \A b \in Servers : b # c => inMemory'[b] = inMemory[b]
  <2>1. [d \in Days |-> 0] \in [Days -> Nat]
    OBVIOUS
  <2> QED BY <1>1, <2>1 DEF BudgetInv, DraftsTyped
<1>6. /\ sent' \in [Days -> [Sources -> Nat]] /\ \A d \in Days : sent'[d][c] = 0
      /\ \A d \in Days, s \in Sources : s # c => sent'[d][s] = sent[d][s]
  <2>1. c \in Sources /\ sent \in [Days -> [Sources -> Nat]]
    BY DEF Sources, BudgetInv, DraftsTyped
  <2>2. \A d \in Days : [sent[d] EXCEPT ![c] = 0] \in [Sources -> Nat]
    BY <2>1
  <2> QED BY <1>1, <2>1, <2>2
<1>7. DraftsTyped'
  BY <1>1, <1>3, <1>4, <1>5, <1>6 DEF BudgetInv, DraftsTyped
<1>8. GoesOn(c)
  BY <1>3 DEF GoesOn
<1>9. WithinClaims'
  <2> SUFFICES ASSUME NEW d \in Days, NEW s \in Sources
               PROVE  sent'[d][s] + Cardinality(Open(d, s)') <= Claimed(d, s)'
    BY DEF WithinClaims
  <2>1. CASE s = c
    <3>1. Claimed(d, s)' = 0 /\ sent'[d][s] = 0
      BY <1>2, <1>5, <1>6, <2>1 DEF Claimed
    <3>2. \A b \in Servers : ~Owes(b, d, s)'
      BY <1>2, <1>3, <2>1 DEF Owes, BudgetInv, HasAttempt
    <3>3. Open(d, s)' = {}
      BY <3>2 DEF Open
    <3> QED BY <3>1, <3>3, FS_EmptySet
  <2>2. CASE s # c
    <3>1. Open(d, s)' \subseteq Open(d, s)
      BY <1>3, <1>8, NoMoreOpen
    <3>2. Cardinality(Open(d, s)') <= Cardinality(Open(d, s))
      BY <3>1, FewerOpen
    <3>3. Claimed(d, s)' = Claimed(d, s) /\ sent'[d][s] = sent[d][s]
      BY <1>1, <1>5, <1>6, <2>2 DEF Claimed, Sources
    <3>4. sent[d][s] + Cardinality(Open(d, s)) <= Claimed(d, s)
      BY DEF BudgetInv, WithinClaims
    <3> QED BY <3>2, <3>3, <3>4, OpenIsFinite, CountedTyped DEF BudgetInv
  <2> QED BY <2>1, <2>2
<1>10. WithinCap'
  <2> SUFFICES ASSUME NEW d \in Days, NEW s \in Sources PROVE Claimed(d, s)' <= Cap
    BY DEF WithinCap
  <2>1. CASE s = c
    BY <1>2, <1>5, <2>1 DEF Claimed
  <2>2. CASE s # c
    <3>1. Claimed(d, s)' = Claimed(d, s)
      BY <1>1, <1>5, <2>2 DEF Claimed, Sources
    <3> QED BY <3>1 DEF BudgetInv, WithinCap
  <2> QED BY <2>1, <2>2
<1>11. \A b \in Servers : HasAttempt(b)'
  BY <1>2, <1>3, <1>4 DEF BudgetInv, HasAttempt, NoDraft, NewDraft
<1> QED BY <1>7, <1>9, <1>10, <1>11 DEF BudgetInv

(* Nothing a budget is made of changes.                                    *)
LEMMA UntouchedKeeps ==
  ASSUME BudgetInv, day' \in Days, force' \in RuleSets,
         UNCHANGED <<claimed, inMemory, made, step, draft, sent>>
  PROVE  BudgetInv'
<1>1. DraftsTyped'
  BY DEF BudgetInv, DraftsTyped
<1>2. \A d, s : Open(d, s)' = Open(d, s) /\ Claimed(d, s)' = Claimed(d, s)
  BY DEF Open, Owes, Claimed
<1>3. WithinClaims' /\ WithinCap'
  BY <1>2 DEF BudgetInv, WithinClaims, WithinCap
<1>4. \A c \in Servers : HasAttempt(c)'
  BY DEF BudgetInv, HasAttempt
<1> QED BY <1>1, <1>3, <1>4 DEF BudgetInv

LEMMA BudgetSteps == ASSUME DraftsFit, BudgetInv, [DraftsNext]_draftVars PROVE BudgetInv'
<1>1. day \in Days /\ force \in RuleSets
  BY DEF BudgetInv, DraftsTyped
<1>2. CASE Midnight
  BY <1>1, <1>2, UntouchedKeeps DEF Midnight, Days, DraftsFit
<1>3. CASE Save
  BY <1>1, <1>3, UntouchedKeeps DEF Save
<1>4. ASSUME NEW c \in Servers, Drafting(c) PROVE BudgetInv'
  BY <1>4, RefuseKeeps, ClaimKeeps, CheckKeeps, SendKeeps, AnswerKeeps, RecycledKeeps DEF Drafting
<1>5. CASE UNCHANGED draftVars
  BY <1>1, <1>5, UntouchedKeeps DEF draftVars
<1> QED BY <1>2, <1>3, <1>4, <1>5 DEF DraftsNext

LEMMA BudgetsHold == ASSUME DraftsFit, BudgetInv PROVE BudgetHolds
<1>1. ASSUME NEW d \in Days, NEW s \in Sources PROVE sent[d][s] <= Cap
  BY OpenIsFinite, CountedTyped DEF BudgetInv, WithinClaims, WithinCap, DraftsFit
<1> QED BY <1>1 DEF BudgetHolds, BudgetInv, HasAttempt

(* However many containers, days and drafts there are, whatever fails and  *)
(* whatever the model answers: what is sent of a claim, from the day's row *)
(* or from a container's memory, stays within the day's budget, and no     *)
(* container sends more than it may in its life.                           *)
THEOREM BudgetIsKept == ASSUME DraftsFit PROVE DraftsSpec => []BudgetHolds
<1>1. DraftsInit => BudgetInv
  BY BudgetStarts
<1>2. BudgetInv /\ [DraftsNext]_draftVars => BudgetInv'
  BY BudgetSteps
<1>3. BudgetInv => BudgetHolds
  BY BudgetsHold
<1> QED BY <1>1, <1>2, <1>3, PTL DEF DraftsSpec

-----------------------------------------------------------------------------
(* WHAT IS DRAFTED.  The rules in force are read back one at a time; the   *)
(* lemmas say what is known of them as far as they have been read.         *)

(* A set that holds 0 and the successor of each of its numbers holds them  *)
(* all: its complement would have a least element.                         *)
LEMMA CountingOn ==
  ASSUME NEW S, 0 \in S, \A n \in Nat : n \in S => n + 1 \in S
  PROVE  Nat \subseteq S
<1> DEFINE T == {n \in Nat : n \notin S}
<1>1. SUFFICES ASSUME T # {} PROVE FALSE
  OBVIOUS
<1>2. PICK x \in T : \A y \in T : ~(<<y, x>> \in OpToRel(<, Nat))
  BY <1>1, WFMin, NatLessThanWellFounded, Zenon
<1>3. x \in Nat /\ x \notin S /\ x # 0
  OBVIOUS
<1>4. x - 1 \in Nat /\ x - 1 < x /\ (x - 1) + 1 = x
  BY <1>3
<1>5. x - 1 \notin S
  BY <1>3, <1>4
<1>6. <<x - 1, x>> \in OpToRel(<, Nat)
  BY <1>3, <1>4, Zenon DEF OpToRel
<1> QED BY <1>2, <1>4, <1>5, <1>6

(* What the definition of Usable asks of its recursive function, up to k.  *)
Validates(f, s, k) ==
  f = [n \in 0 .. k |->
         IF n = 0 THEN <<>>
         ELSE IF Joins(s[n], n, f[n - 1]) THEN Append(f[n - 1], Moded(s[n])) ELSE f[n - 1]]

LEMMA ValidatesExists ==
  ASSUME NEW s PROVE \A k \in Nat : \E f : Validates(f, s, k)
<1> DEFINE S == {k \in Nat : \E f : Validates(f, s, k)}
<1>1. 0 \in S
  <2> DEFINE f == [n \in 0 .. 0 |-> <<>>]
  <2>1. Validates(f, s, 0)
    BY DEF Validates
  <2> QED BY <2>1
<1>2. ASSUME NEW k \in Nat, k \in S PROVE k + 1 \in S
  <2>1. PICK f : Validates(f, s, k)
    BY <1>2
  <2> DEFINE next == IF Joins(s[k + 1], k + 1, f[k]) THEN Append(f[k], Moded(s[k + 1])) ELSE f[k]
             g == [n \in 0 .. k + 1 |-> IF n = k + 1 THEN next ELSE f[n]]
  <2>2. ASSUME NEW n \in 0 .. k + 1
        PROVE  g[n] = IF n = 0 THEN <<>>
                      ELSE IF Joins(s[n], n, g[n - 1]) THEN Append(g[n - 1], Moded(s[n])) ELSE g[n - 1]
    <3>1. CASE n = 0
      BY <3>1, <2>1 DEF Validates
    <3>2. CASE n = k + 1
      <4>1. g[n] = next /\ g[n - 1] = f[k] /\ n # 0
        BY <3>2
      <4> HIDE DEF g
      <4> QED BY <4>1, <3>2
    <3>3. CASE n \in 1 .. k
      <4>1. g[n] = f[n] /\ g[n - 1] = f[n - 1] /\ n # 0 /\ n \in 0 .. k
        BY <3>3
      <4>2. f[n] = IF n = 0 THEN <<>>
                   ELSE IF Joins(s[n], n, f[n - 1]) THEN Append(f[n - 1], Moded(s[n])) ELSE f[n - 1]
        BY <4>1, <2>1 DEF Validates
      <4> HIDE DEF g
      <4> QED BY <4>1, <4>2
    <3> QED BY <3>1, <3>2, <3>3
  <2>3. g = [n \in 0 .. k + 1 |->
               IF n = 0 THEN <<>>
               ELSE IF Joins(s[n], n, g[n - 1]) THEN Append(g[n - 1], Moded(s[n])) ELSE g[n - 1]]
    <3>1. g = [n \in 0 .. k + 1 |-> g[n]]
      OBVIOUS
    <3> HIDE DEF g
    <3> QED BY <3>1, <2>2, Zenon
  <2>4. Validates(g, s, k + 1)
    BY <2>3, Zenon DEF Validates
  <2> QED BY <2>4
<1>3. Nat \subseteq S
  <2> HIDE DEF S
  <2> QED BY <1>1, <1>2, CountingOn
<1> QED BY <1>3

LEMMA UsableIsValidated ==
  ASSUME NEW s, NEW k \in Nat, k = Len(s)
  PROVE  \E f : Validates(f, s, k) /\ Usable(s) = f[k]
<1> DEFINE f == CHOOSE g : Validates(g, s, k)
<1>1. Validates(f, s, k)
  BY ValidatesExists
<1>2. Usable(s) = f[k]
  BY Zenon DEF Usable, Validates
<1> QED BY <1>1, <1>2

LEMMA OneRuleMore ==
  ASSUME NEW f, NEW s, NEW k \in Nat, Validates(f, s, k), NEW n \in Nat, n + 1 <= k
  PROVE  f[n + 1] = IF Joins(s[n + 1], n + 1, f[n]) THEN Append(f[n], Moded(s[n + 1])) ELSE f[n]
<1>1. n + 1 \in 0 .. k /\ n + 1 # 0 /\ (n + 1) - 1 = n
  OBVIOUS
<1> QED BY <1>1 DEF Validates

(* So far as they are read, no rule is added to those there are; and while *)
(* none has been left out, they are those there are, in their order.       *)
ReadFirst(s, k) == {Moded(s[i]) : i \in 1 .. k}

SoFar(u, s, n, X) ==
  /\ u \in Seq(X) /\ Len(u) \in Nat /\ Len(u) <= n
  /\ Len(u) = n => \A i \in 1 .. n : u[i].id = s[i].id

LEMMA ModedKeepsId == ASSUME NEW x PROVE Moded(x).id = x.id
  BY DEF Moded, Rule

LEMMA ReadSoFar ==
  ASSUME NEW s, NEW k \in Nat, NEW f, Validates(f, s, k), NEW m \in 0 .. k
  PROVE  SoFar(f[m], s, m, ReadFirst(s, k))
<1> DEFINE S == {n \in Nat : n <= k => SoFar(f[n], s, n, ReadFirst(s, k))}
<1>1. 0 \in S
  <2>1. f[0] = <<>>
    BY DEF Validates
  <2>2. <<>> \in Seq(ReadFirst(s, k)) /\ Len(<<>>) = 0
    BY EmptySeq
  <2>3. PICK u : u = f[0]
    OBVIOUS
  <2>4. u \in Seq(ReadFirst(s, k)) /\ Len(u) = 0
    BY <2>1, <2>2, <2>3
  <2>5. SoFar(u, s, 0, ReadFirst(s, k))
    BY <2>4 DEF SoFar
  <2> QED BY <2>3, <2>5
<1>2. ASSUME NEW n \in Nat, n \in S PROVE n + 1 \in S
  <2>1. SUFFICES ASSUME n + 1 <= k PROVE SoFar(f[n + 1], s, n + 1, ReadFirst(s, k))
    OBVIOUS
  <2>2. SoFar(f[n], s, n, ReadFirst(s, k)) /\ Moded(s[n + 1]) \in ReadFirst(s, k)
    BY <1>2, <2>1 DEF ReadFirst
  <2>3. f[n + 1] = IF Joins(s[n + 1], n + 1, f[n]) THEN Append(f[n], Moded(s[n + 1])) ELSE f[n]
    BY <2>1, OneRuleMore
  <2>4. CASE f[n + 1] = f[n]
    BY <2>2, <2>4 DEF SoFar
  <2>5. CASE f[n + 1] = Append(f[n], Moded(s[n + 1]))
    <3>1. PICK X : X = ReadFirst(s, k)
      OBVIOUS
    <3>2. PICK u : u = f[n]
      OBVIOUS
    <3>3. u \in Seq(X) /\ Len(u) \in Nat /\ Len(u) <= n /\ (Len(u) = n => \A i \in 1 .. n : u[i].id = s[i].id)
      BY <2>2, <3>1, <3>2 DEF SoFar
    <3>4. PICK x \in X : x = Moded(s[n + 1]) /\ x.id = s[n + 1].id
      BY <2>2, <3>1, ModedKeepsId
    <3>5. PICK v : v = Append(u, x)
      OBVIOUS
    <3>6. v \in Seq(X) /\ Len(v) = Len(u) + 1 /\ v[Len(u) + 1] = x /\ \A i \in 1 .. Len(u) : v[i] = u[i]
      BY <3>3, <3>5, AppendProperties
    <3>7. ASSUME Len(v) = n + 1, NEW i \in 1 .. n + 1 PROVE v[i].id = s[i].id
      <4>1. Len(u) = n
        BY <3>3, <3>6, <3>7
      <4>2. CASE i \in 1 .. n
        BY <3>3, <3>6, <4>1, <4>2
      <4>3. CASE i = n + 1
        BY <3>4, <3>6, <4>1, <4>3
      <4> QED BY <4>2, <4>3
    <3>8. f[n + 1] = v
      BY <2>5, <3>2, <3>4, <3>5
    <3> QED BY <3>1, <3>3, <3>6, <3>7, <3>8 DEF SoFar
  <2> QED BY <2>3, <2>4, <2>5
<1>3. Nat \subseteq S
  <2> HIDE DEF S
  <2> QED BY <1>1, <1>2, CountingOn
<1> QED BY <1>3

LEMMA UsableTyped ==
  ASSUME NEW s, NEW k \in Nat, k = Len(s) PROVE Usable(s) \in Seq(ReadFirst(s, k))
<1>1. PICK f : Validates(f, s, k) /\ Usable(s) = f[k]
  BY UsableIsValidated
<1>2. SoFar(f[k], s, k, ReadFirst(s, k))
  BY <1>1, ReadSoFar
<1> QED BY <1>1, <1>2 DEF SoFar

(* A rule read after others that is not left out has an id of its own, and *)
(* none that is reserved.                                                  *)
LEMMA TheLastOne ==
  ASSUME NEW X, NEW b \in Seq(X), NEW x, NEW all, all = Usable(Append(b, x)), Len(all) > Len(b)
  PROVE  /\ all[Len(all)] = Moded(x) /\ x.id \notin Reserved
         /\ \A i \in DOMAIN b : b[i].id # x.id
<1>1. PICK m \in Nat : m = Len(b)
  OBVIOUS
<1>2. PICK s : s = Append(b, x)
  OBVIOUS
<1>3. Len(s) = m + 1 /\ s[m + 1] = x /\ \A i \in 1 .. m : s[i] = b[i]
  <2>1. b \in Seq(X \cup {x}) /\ x \in X \cup {x}
    OBVIOUS
  <2> QED BY <1>1, <1>2, <2>1, AppendProperties
<1>4. PICK f : Validates(f, s, m + 1) /\ all = f[m + 1]
  <2>1. all = Usable(s) /\ m + 1 \in Nat
    BY <1>2
  <2> QED BY <1>3, <2>1, UsableIsValidated
<1>5. PICK R : R = ReadFirst(s, m + 1)
  OBVIOUS
<1>6. SoFar(f[m], s, m, R)
  BY <1>4, <1>5, ReadSoFar
<1>7. f[m + 1] = IF Joins(x, m + 1, f[m]) THEN Append(f[m], Moded(x)) ELSE f[m]
  BY <1>3, <1>4, OneRuleMore
<1>8. PICK u \in Seq(R) : u = f[m]
  BY <1>6 DEF SoFar
<1>9. Len(u) \in Nat /\ Len(u) <= m /\ (Len(u) = m => \A i \in 1 .. m : u[i].id = s[i].id)
  BY <1>6, <1>8 DEF SoFar
<1>10. Joins(x, m + 1, u) /\ all = Append(u, Moded(x))
  BY <1>1, <1>4, <1>7, <1>8, <1>9
<1>11. Len(all) = Len(u) + 1 /\ all[Len(u) + 1] = Moded(x)
  <2>1. u \in Seq(R \cup {Moded(x)}) /\ Moded(x) \in R \cup {Moded(x)}
    BY <1>8
  <2> QED BY <1>10, <2>1, AppendProperties
<1>12. Len(u) = m
  BY <1>1, <1>9, <1>11
<1>13. x.id \notin Reserved /\ \A i \in DOMAIN u : u[i].id # x.id
  BY <1>10 DEF Joins
<1>14. DOMAIN u = 1 .. m /\ DOMAIN b = 1 .. m
  BY <1>1, <1>8, <1>12, LenProperties
<1>15. \A i \in 1 .. m : u[i].id = b[i].id
  BY <1>3, <1>9, <1>12
<1> QED BY <1>11, <1>13, <1>14, <1>15

(* What a draft is tried beside leaves room for it.                        *)
HasRoom(c) == step[c] \in {"send", "answer"} => Len(draft[c].beside) < MaxRules

WatchInv == DraftsOnlyWatch /\ \A c \in Servers : HasRoom(c)

LEMMA BesidesAreLists ==
  ASSUME DraftsFit, NEW b \in Besides PROVE \E X : b \in Seq(X)
<1>1. CASE b = <<>>
  <2>1. b \in Seq({})
    BY <1>1, EmptySeq
  <2> QED BY <2>1
<1>2. CASE b # <<>>
  <2>1. PICK rules \in RuleSets : b = Usable(rules)
    BY <1>2 DEF Besides
  <2>2. rules \in Seq(ToSet(rules))
    BY DEF DraftsFit
  <2>3. PICK k \in Nat : k = Len(rules)
    BY <2>2
  <2>4. b \in Seq(ReadFirst(rules, k))
    BY <2>1, <2>3, UsableTyped
  <2> QED BY <2>4
<1> QED BY <1>1, <1>2

LEMMA DraftedWatches ==
  ASSUME DraftsFit, NEW d, d.beside \in Besides, NEW answer, NEW rule \in Drafted(d, answer)
  PROVE  /\ rule.mode = "observe" /\ rule.id \notin Reserved
         /\ \A i \in DOMAIN d.beside : d.beside[i].id # rule.id
<1>1. PICK b, X : b = d.beside /\ b \in Seq(X)
  BY BesidesAreLists
<1>2. PICK x : x = Shaped(answer)
  OBVIOUS
<1>3. PICK all : all = Usable(Append(b, x))
  OBVIOUS
<1>4. Len(all) > Len(b) /\ rule = all[Len(all)]
  BY <1>1, <1>2, <1>3 DEF Drafted
<1>5. rule = Moded(x) /\ x.id \notin Reserved /\ \A i \in DOMAIN b : b[i].id # x.id
  BY <1>1, <1>3, <1>4, TheLastOne
<1>6. x.mode = "observe"
  BY <1>2 DEF Shaped, Rule
<1>7. rule.mode = "observe" /\ rule.id = x.id
  BY <1>5, <1>6 DEF Moded, Rule
<1> QED BY <1>1, <1>5, <1>7

LEMMA ClosesWatches ==
  ASSUME DraftsFit, DraftsTyped, WatchInv, NEW c \in Servers, NEW status, NEW rule, Closes(c, status, rule),
         status = 200 => /\ step[c] = "answer" /\ rule.mode = "observe" /\ rule.id \notin Reserved
                         /\ \A i \in DOMAIN draft[c].beside : draft[c].beside[i].id # rule.id
  PROVE  WatchInv'
<1>1. Moves(c, "idle", NoDraft)
      /\ answered' = [status |-> status, rule |-> rule, beside |-> IF status = 200 THEN draft[c].beside ELSE <<>>]
  BY DEF Closes
<1>2. step'[c] = "idle" /\ \A b \in Servers : b # c => step'[b] = step[b] /\ draft'[b] = draft[b]
  BY <1>1, NothingInHand, MovesAlone DEF Stages
<1>3. \A b \in Servers : HasRoom(b)'
  BY <1>2 DEF WatchInv, HasRoom
<1>4. CASE status = 200
  <2>1. Len(draft[c].beside) < MaxRules
    BY <1>4 DEF WatchInv, HasRoom
  <2>2. answered'.rule = rule /\ answered'.beside = draft[c].beside
    BY <1>1, <1>4
  <2>3. DraftsOnlyWatch'
    BY <1>4, <2>1, <2>2 DEF DraftsOnlyWatch
  <2> QED BY <1>3, <2>3 DEF WatchInv
<1>5. CASE status # 200
  <2>1. answered'.status # 200
    BY <1>1, <1>5
  <2> QED BY <1>3, <2>1 DEF WatchInv, DraftsOnlyWatch
<1> QED BY <1>4, <1>5

(* A draft that moves on with nothing answered.                            *)
LEMMA MovesWatches ==
  ASSUME DraftsTyped, WatchInv, NEW c \in Servers, NEW label \in Stages, NEW d \in InHands, Moves(c, label, d),
         UNCHANGED answered, label \in {"send", "answer"} => Len(d.beside) < MaxRules
  PROVE  WatchInv'
<1>1. step'[c] = label /\ draft'[c] = d /\ \A b \in Servers : b # c => step'[b] = step[b] /\ draft'[b] = draft[b]
  BY MovesAlone
<1>2. \A b \in Servers : HasRoom(b)'
  BY <1>1 DEF WatchInv, HasRoom
<1>3. DraftsOnlyWatch'
  BY DEF WatchInv, DraftsOnlyWatch
<1> QED BY <1>2, <1>3 DEF WatchInv

LEMMA ClaimWatches ==
  ASSUME DraftsFit, DraftsTyped, WatchInv, NEW c \in Servers, NEW input \in Inputs, Claim(c, input)
  PROVE  WatchInv'
<1>1. CASE Closes(c, 429, NoRule)
  BY <1>1, ClosesWatches
<1>2. ASSUME NEW from \in {Table, c}, Begins(c, input, from), UNCHANGED answered PROVE WatchInv'
  <2>1. PICK e : e = NewDraft(input, day, from)
    OBVIOUS
  <2>2. e = [input |-> input, day |-> day, from |-> from, beside |-> <<>>, attempts |-> 0]
    BY <2>1 DEF NewDraft
  <2>3. input \in Inputs /\ day \in Days /\ from \in Sources /\ <<>> \in Besides
    BY DEF DraftsTyped, Sources, Besides
  <2>4. e \in InHands
    BY <2>2, <2>3 DEF InHands
  <2>5. Moves(c, "check", e)
    BY <1>2, <2>1 DEF Begins
  <2> QED BY <1>2, <2>4, <2>5, MovesWatches DEF Stages
<1> QED BY <1>1, <1>2 DEF Claim

LEMMA CheckWatches ==
  ASSUME DraftsFit, DraftsTyped, WatchInv, NEW c \in Servers, Check(c) PROVE WatchInv'
<1> DEFINE b == Usable(force)
<1>1. CASE Closes(c, 400, NoRule)
  BY <1>1, ClosesWatches
<1>2. CASE ~(Len(b) >= MaxRules) /\ Moves(c, "send", [draft[c] EXCEPT !.beside = b]) /\ UNCHANGED answered
  <2>1. draft[c] \in InHands /\ b \in Besides
    BY DEF DraftsTyped, Besides
  <2>2. PICK X : b \in Seq(X)
    BY <2>1, BesidesAreLists
  <2>3. Len(b) \in Nat /\ MaxRules \in Nat
    BY <2>2 DEF DraftsFit
  <2> HIDE DEF b
  <2>4. PICK e : e = [draft[c] EXCEPT !.beside = b]
    OBVIOUS
  <2>5. e \in InHands /\ e.beside = b
    BY <2>1, <2>4 DEF InHands
  <2>6. Moves(c, "send", e) /\ UNCHANGED answered
    BY <1>2, <2>4
  <2>7. Len(e.beside) < MaxRules
    BY <1>2, <2>3, <2>5
  <2> QED BY <2>5, <2>6, <2>7, MovesWatches DEF Stages
<1> QED BY <1>1, <1>2 DEF Check

LEMMA SendWatches ==
  ASSUME DraftsFit, DraftsTyped, WatchInv, NEW c \in Servers, Send(c) PROVE WatchInv'
<1>1. CASE Closes(c, 503, NoRule)
  BY <1>1, ClosesWatches
<1>2. CASE Moves(c, "answer", [draft[c] EXCEPT !.attempts = @ + 1]) /\ UNCHANGED answered
  <2>1. draft[c] \in InHands /\ draft[c].attempts + 1 \in Nat
    BY DEF DraftsTyped, InHands
  <2>2. PICK e : e = [draft[c] EXCEPT !.attempts = @ + 1]
    OBVIOUS
  <2>3. e \in InHands /\ e.beside = draft[c].beside
    BY <2>1, <2>2 DEF InHands
  <2>4. Len(draft[c].beside) < MaxRules
    BY DEF Send, Stands, WatchInv, HasRoom
  <2> QED BY <1>2, <2>2, <2>3, <2>4, MovesWatches DEF Stages
<1> QED BY <1>1, <1>2 DEF Send

LEMMA AnswerWatches ==
  ASSUME DraftsFit, DraftsTyped, WatchInv, NEW c \in Servers, Answer(c) PROVE WatchInv'
<1>1. step[c] = "answer" /\ draft[c] \in InHands
  BY DEF Answer, Stands, DraftsTyped
<1>2. \/ Closes(c, 503, NoRule) \/ Closes(c, 422, NoRule) \/ Closes(c, 502, NoRule)
      \/ \E answer \in Answers : \E rule \in Drafted(draft[c], answer) : Closes(c, 200, [id |-> rule.id, mode |-> rule.mode])
      \/ Moves(c, "send", draft[c]) /\ UNCHANGED answered
  BY Zenon DEF Answer
<1>3. CASE Closes(c, 503, NoRule) \/ Closes(c, 422, NoRule) \/ Closes(c, 502, NoRule)
  BY <1>3, ClosesWatches
<1>4. ASSUME NEW answer \in Answers, NEW rule \in Drafted(draft[c], answer), Closes(c, 200, [id |-> rule.id, mode |-> rule.mode])
      PROVE  WatchInv'
  <2>1. draft[c].beside \in Besides
    BY <1>1 DEF InHands
  <2>2. /\ rule.mode = "observe" /\ rule.id \notin Reserved
        /\ \A i \in DOMAIN draft[c].beside : draft[c].beside[i].id # rule.id
    BY <2>1, DraftedWatches
  <2>3. PICK told : told = [id |-> rule.id, mode |-> rule.mode]
    OBVIOUS
  <2>4. told.id = rule.id /\ told.mode = rule.mode /\ Closes(c, 200, told)
    BY <1>4, <2>3
  <2> QED BY <1>1, <2>2, <2>4, ClosesWatches
<1>5. CASE Moves(c, "send", draft[c]) /\ UNCHANGED answered
  BY <1>1, <1>5, MovesWatches DEF Stages, WatchInv, HasRoom
<1> QED BY <1>2, <1>3, <1>4, <1>5

LEMMA WatchSteps ==
  ASSUME DraftsFit, BudgetInv, WatchInv, [DraftsNext]_draftVars PROVE WatchInv'
<1>1. DraftsTyped
  BY DEF BudgetInv
<1>2. ASSUME UNCHANGED <<step, draft, answered>> PROVE WatchInv'
  BY <1>2 DEF WatchInv, HasRoom, DraftsOnlyWatch
<1>3. ASSUME NEW c \in Servers, Refuse(c) PROVE WatchInv'
  BY <1>1, <1>3, ClosesWatches DEF Refuse
<1>4. ASSUME NEW c \in Servers, Recycled(c) PROVE WatchInv'
  BY <1>1, <1>4, NothingInHand, MovesWatches DEF Recycled, Stages
<1>5. ASSUME NEW c \in Servers, Drafting(c) PROVE WatchInv'
  BY <1>1, <1>3, <1>4, <1>5, ClaimWatches, CheckWatches, SendWatches, AnswerWatches DEF Drafting
<1> QED BY <1>2, <1>5 DEF DraftsNext, Midnight, Save, draftVars

(* Whatever the model answers and whatever rules are in force, saved in    *)
(* between or unusable: a rule that is drafted watches, has an id no rule  *)
(* beside it has and none that is reserved, and there is room for it.      *)
THEOREM DraftsWatch == ASSUME DraftsFit PROVE DraftsSpec => []DraftsOnlyWatch
<1>1. DraftsInit => BudgetInv
  BY BudgetStarts
<1>2. BudgetInv /\ [DraftsNext]_draftVars => BudgetInv'
  BY BudgetSteps
<1>3. DraftsInit => WatchInv
  BY DEF DraftsInit, WatchInv, HasRoom, DraftsOnlyWatch
<1>4. BudgetInv /\ WatchInv /\ [DraftsNext]_draftVars => WatchInv'
  BY WatchSteps
<1>5. WatchInv => DraftsOnlyWatch
  BY DEF WatchInv
<1> QED BY <1>1, <1>2, <1>3, <1>4, <1>5, PTL DEF DraftsSpec

-----------------------------------------------------------------------------
(* THE BOOK OF RULES                                                       *)

SetsSaved   == [no : Int, put : Nat]
Copies == [set : SetsSaved, age : 0 .. Refresh, kept : BOOLEAN, late : Nat]
Servings   == [at : {"idle", "read", "judge", "check", "put"}, wait : 0 .. RequestTime]

BookTyped ==
  /\ stored \in SetsSaved /\ sets \in Nat
  /\ memory \in [Holders -> SetsSaved]
  /\ held \in [Holders -> Copies]
  /\ serving \in [Holders -> Servings]
  /\ judgedBy \in [Holders -> Nat]

(* A copy that outlived no failure is replaced no longer than it is old,   *)
(* while it may be used; and what a request judges by has been so for its  *)
(* own time more.                                                          *)
InTime(c) ==
  held[c].kept \/ /\ held[c].age < Refresh => held[c].late <= held[c].age
                  /\ serving[c].at = "judge" => held[c].late < Refresh + serving[c].wait

(* A container has judged by no put after the last and holds none after    *)
(* it, nor one before those it has judged by.                              *)
Forward(c) ==
  /\ judgedBy[c] <= stored.put /\ held[c].set.put <= stored.put
  /\ NeverStored(held[c].set) \/ held[c].set.put >= judgedBy[c]

TimeInv    == \A c \in Holders : InTime(c)

ForwardInv ==
  /\ ~UsableSet(stored) => stored.put = 0
  /\ \A c \in Holders : serving[c].at = "put" => UsableSet(held[c].set)
  /\ book # "policy" => \A c \in Holders : Forward(c)

LEMMA BookConstants == ASSUME BookFits PROVE
  /\ Refresh \in Nat /\ RequestTime \in Nat /\ Refresh > 0
  /\ Nothing \in SetsSaved /\ Unusable \in SetsSaved /\ Found \subseteq {Nothing, Unusable}
  /\ ~UsableSet(Nothing) /\ ~UsableSet(Unusable) /\ Nothing # Unusable
  /\ NotHeld \in Copies /\ NotServing \in Servings
  BY DEF BookFits, Nothing, Unusable, SetsSaved, UsableSet, NotHeld, NotServing, Copies, Servings

LEMMA AnsweredTyped ==
  ASSUME BookFits, BookTyped, NEW c \in Holders
  PROVE  Answered(c) \in SetsSaved /\ AfterFailure(c) \in SetsSaved
  BY BookConstants DEF BookTyped, Answered, AfterFailure, Remembered, Copies

(* Every reachable state is typed.                                         *)
THEOREM BookTypeCorrect == ASSUME BookFits PROVE BookSpec => []BookTyped
<1>1. BookInit => BookTyped
  <2> SUFFICES ASSUME BookInit PROVE BookTyped  OBVIOUS
  <2>1. stored \in SetsSaved /\ sets \in Nat  BY BookConstants DEF BookInit
  <2>2. memory \in [Holders -> SetsSaved] /\ held \in [Holders -> Copies] /\ serving \in [Holders -> Servings]
    BY BookConstants DEF BookInit
  <2>3. judgedBy \in [Holders -> Nat]  BY DEF BookInit
  <2> QED  BY <2>1, <2>2, <2>3 DEF BookTyped
<1>2. BookTyped /\ [BookNext]_bookVars => BookTyped'
  <2> SUFFICES ASSUME BookTyped, [BookNext]_bookVars PROVE BookTyped'  OBVIOUS
  <2> USE BookConstants DEF BookTyped
  <2>1. ASSUME NEW c \in Holders, Arrive(c) PROVE BookTyped'
    <3>1. serving' \in [Holders -> Servings]  BY <2>1 DEF Arrive, Turns, Servings
    <3> QED  BY <2>1, <3>1 DEF Arrive
  <2>2. ASSUME NEW c \in Holders, Read(c) PROVE BookTyped'
    <3>1. serving' \in [Holders -> Servings]  BY <2>2 DEF Read, Turns, Servings
    <3>2. ASSUME NEW set \in SetsSaved, NEW k \in BOOLEAN, Holds(c, set, k) PROVE held' \in [Holders -> Copies]
      BY <3>2 DEF Holds, Copies
    <3>3. (Answered(c) # stored) \in BOOLEAN  OBVIOUS
    <3>4. held' \in [Holders -> Copies]  BY <2>2, <3>2, <3>3, AnsweredTyped, Zenon DEF Read
    <3> QED  BY <2>2, <3>1, <3>4 DEF Read
  <2>3. ASSUME NEW c \in Holders, Judge(c) PROVE BookTyped'
    <3>1. serving' \in [Holders -> Servings]  BY <2>3 DEF Judge
    <3>2. judgedBy' \in [Holders -> Nat]  BY <2>3 DEF Judge, Copies, SetsSaved
    <3> QED  BY <2>3, <3>1, <3>2 DEF Judge
  <2>4. ASSUME NEW c \in Holders, SaveSet(c) PROVE BookTyped'
    <3>1. serving' \in [Holders -> Servings]  BY <2>4 DEF SaveSet, Turns, Servings
    <3>2. held' \in [Holders -> Copies]  BY <2>4 DEF SaveSet, Holds, Copies, SetsSaved
    <3> QED  BY <2>4, <3>1, <3>2 DEF SaveSet
  <2>4a. ASSUME NEW c \in Holders, Submit(c) \/ RefuseSet(c) PROVE BookTyped'
    <3>1. serving' \in [Holders -> Servings]
      <4>1. CASE Submit(c)  BY <4>1 DEF Submit, Turns, Servings
      <4>2. CASE RefuseSet(c)  BY <4>2 DEF RefuseSet
      <4> QED  BY <2>4a, <4>1, <4>2
    <3> QED  BY <2>4a, <3>1 DEF Submit, RefuseSet
  <2>5. ASSUME NEW c \in Holders, PutSet(c) PROVE BookTyped'
    <3>1. serving' \in [Holders -> Servings]  BY <2>5 DEF PutSet
    <3>2. held[c].set \in SetsSaved /\ stored.put + 1 \in Nat  BY DEF Copies, SetsSaved
    <3>3. stored' \in SetsSaved  BY <2>5, <3>2 DEF PutSet, SetsSaved
    <3>4. held' \in [Holders -> Copies]
      <4>1. CASE held' = [held EXCEPT ![c].set = stored']  BY <4>1, <3>3 DEF Copies
      <4>2. CASE held' = [held EXCEPT ![c].kept = TRUE]  BY <4>2 DEF Copies
      <4> QED  BY <2>5, <4>1, <4>2 DEF PutSet
    <3>5. memory' \in [Holders -> SetsSaved]
      <4>1. held'[c].set \in SetsSaved  BY <3>4 DEF Copies
      <4>2. Remembers(c, held'[c].set)  BY <2>5 DEF PutSet
      <4> QED  BY <4>1, <4>2 DEF Remembers
    <3> QED  BY <2>5, <3>1, <3>3, <3>4, <3>5 DEF PutSet
  <2>6. ASSUME NEW c \in Holders, Forget(c) \/ Recycle(c) PROVE BookTyped'
    <3>1. serving' \in [Holders -> Servings] /\ held' \in [Holders -> Copies] /\ memory' \in [Holders -> SetsSaved]
      BY <2>6 DEF Forget, Recycle
    <3>2. judgedBy' \in [Holders -> Nat]  BY <2>6 DEF Forget, Recycle
    <3> QED  BY <2>6, <3>1, <3>2 DEF Forget, Recycle
  <2>7. CASE Tick
    <3>1. ASSUME NEW copy \in Copies PROVE Older(copy) \in Copies
      <4>1. Lesser(copy.age + 1, Refresh) \in 0 .. Refresh /\ Lesser(copy.late + 1, TooLate) \in Nat
        BY DEF Lesser, Copies, TooLate
      <4> QED  BY <4>1 DEF Older, Copies
    <3>2. \A c \in Holders : Served(serving[c]) \in Servings  BY <2>7 DEF Tick, Served, Servings
    <3> QED  BY <2>7, <3>1, <3>2 DEF Tick
  <2>8. CASE UNCHANGED bookVars  BY <2>8 DEF bookVars
  <2> QED  BY <2>1, <2>2, <2>3, <2>4, <2>4a, <2>5, <2>6, <2>7, <2>8 DEF BookNext, BookStep
<1> QED  BY <1>1, <1>2, PTL DEF BookSpec

-----------------------------------------------------------------------------
LEMMA TimeStep == ASSUME BookFits, BookTyped, TimeInv, [BookNext]_bookVars PROVE TimeInv'
<1> SUFFICES ASSUME NEW d \in Holders PROVE InTime(d)'  BY DEF TimeInv
<1>0. InTime(d) /\ held[d] \in Copies /\ serving[d] \in Servings  BY DEF TimeInv, BookTyped
<1> USE BookConstants
<1>1. ASSUME held'[d] = held[d], serving'[d] = serving[d] PROVE InTime(d)'  BY <1>0, <1>1 DEF InTime
<1>2. ASSUME NEW c \in Holders, BookStep(c), c # d
      PROVE InTime(d)'
  <2>1. held'[d] = held[d] /\ serving'[d] = serving[d]
    BY <1>2 DEF BookStep, BookTyped, Arrive, Read, Judge, Submit, RefuseSet, SaveSet, PutSet, Forget, Recycle, Turns, Holds
  <2> QED  BY <2>1, <1>1
<1>3. CASE Arrive(d)
  <2>1. held'[d] = held[d] /\ serving'[d].wait = serving[d].wait /\ (serving'[d].at = "judge" => held[d].age < Refresh)
    BY <1>0, <1>3 DEF Arrive, Turns, BookTyped, Due, Copies
  <2> QED  BY <1>0, <2>1 DEF InTime, Copies, Servings
<1>4. CASE Read(d)
  <2>1. held'[d].age = 0 /\ held'[d].late = 0 /\ serving'[d].wait = serving[d].wait  BY <1>4 DEF Read, Holds, Turns, BookTyped
  <2> QED  BY <1>0, <2>1 DEF InTime, Servings
<1>5. CASE Judge(d)
  <2>1. held'[d] = held[d] /\ serving'[d].at = "idle"  BY <1>5 DEF Judge, BookTyped, NotServing
  <2> QED  BY <1>0, <2>1 DEF InTime
<1>5a. CASE Submit(d) \/ RefuseSet(d)
  <2>1. held'[d] = held[d] /\ serving'[d].at # "judge"
    BY <1>0, <1>5a DEF Submit, RefuseSet, Turns, BookTyped, Servings, NotServing
  <2> QED  BY <1>0, <2>1 DEF InTime
<1>6. CASE SaveSet(d)
  <2>1. held'[d].age = 0 /\ held'[d].late = 0 /\ serving'[d].at = "put"  BY <1>6 DEF SaveSet, Holds, Turns, BookTyped
  <2> QED  BY <2>1 DEF InTime
<1>7. CASE PutSet(d)
  <2>1. serving'[d].at = "idle" /\ held'[d].age = held[d].age /\ held'[d].late = held[d].late
    BY <1>7 DEF PutSet, BookTyped, NotServing, Copies
  <2>2. held'[d].kept \/ held'[d].kept = held[d].kept  BY <1>7 DEF PutSet, BookTyped, Copies
  <2> QED  BY <1>0, <2>1, <2>2 DEF InTime
<1>8. CASE Forget(d) \/ Recycle(d)
  <2>1. held'[d] = NotHeld /\ serving'[d].at = "idle"  BY <1>8 DEF Forget, Recycle, BookTyped, NotServing
  <2> QED  BY <2>1 DEF InTime, NotHeld
<1>9. CASE Tick
  <2>1. held'[d] = Older(held[d]) /\ serving'[d] = Served(serving[d])  BY <1>9 DEF Tick
  <2>2. /\ held'[d].kept = held[d].kept
        /\ held'[d].age = Lesser(held[d].age + 1, Refresh)
        /\ held'[d].late <= held[d].late + 1 /\ held'[d].late \in Nat
    BY <1>0, <2>1 DEF Older, Lesser, TooLate, Copies
  <2>3. serving'[d].at = serving[d].at /\ (serving[d].at = "judge" => serving'[d].wait = serving[d].wait + 1)
    BY <1>0, <2>1 DEF Served, Servings
  <2> QED  BY <1>0, <2>2, <2>3 DEF InTime, Lesser, Copies, Servings
<1>10. CASE UNCHANGED bookVars  BY <1>10, <1>1 DEF bookVars
<1> QED  BY <1>2, <1>3, <1>4, <1>5, <1>5a, <1>6, <1>7, <1>8, <1>9, <1>10 DEF BookNext, BookStep

(* No call is judged by what was replaced longer ago than a copy is held   *)
(* and a request may run, unless its container met a failure.              *)
THEOREM CallsJudgedByRecent == ASSUME BookFits PROVE BookSpec => JudgedByRecent
<1>1. BookInit => TimeInv
  <2> SUFFICES ASSUME BookInit, NEW c \in Holders PROVE InTime(c)  BY DEF TimeInv
  <2>1. held[c].age = Refresh /\ serving[c].at = "idle"  BY DEF BookInit, NotHeld, NotServing
  <2> QED  BY <2>1, BookConstants DEF InTime
<1>2. BookTyped /\ TimeInv /\ [BookNext]_bookVars => TimeInv'  BY TimeStep
<1>3. BookTyped /\ TimeInv => JudgesRecent
  <2> SUFFICES ASSUME BookTyped, TimeInv, NEW c \in Holders, Judge(c) PROVE held[c].kept \/ held[c].late < TooLate
    BY DEF JudgesRecent
  <2>1. InTime(c) /\ serving[c] \in Servings /\ held[c] \in Copies /\ serving[c].at = "judge"  BY DEF TimeInv, BookTyped, Judge
  <2> QED  BY <2>1, BookConstants DEF InTime, TooLate, Servings, Copies
<1> QED  BY <1>1, <1>2, <1>3, BookTypeCorrect, PTL DEF BookSpec, JudgedByRecent

-----------------------------------------------------------------------------
LEMMA ForwardStep == ASSUME BookFits, BookTyped, ForwardInv, [BookNext]_bookVars PROVE ForwardInv'
<1> USE BookConstants
<1>1. (~UsableSet(stored) => stored.put = 0) /\ \A c \in Holders : serving[c].at = "put" => UsableSet(held[c].set)
  BY DEF ForwardInv
<1>2. (~UsableSet(stored) => stored.put = 0)'
  <2>1. ASSUME NEW c \in Holders, PutSet(c) PROVE (~UsableSet(stored) => stored.put = 0)'
    <3>1. CASE stored' = stored  BY <1>1, <3>1 DEF UsableSet
    <3>2. CASE stored' = [held[c].set EXCEPT !.put = stored.put + 1]
      <4>1. UsableSet(held[c].set) /\ held[c].set \in SetsSaved  BY <1>1, <2>1 DEF PutSet, BookTyped, Copies
      <4> QED  BY <3>2, <4>1 DEF UsableSet, SetsSaved
    <3> QED  BY <2>1, <3>1, <3>2 DEF PutSet
  <2>2. CASE stored' = stored  BY <1>1, <2>2 DEF UsableSet
  <2> QED  BY <2>1, <2>2 DEF BookNext, BookStep, Tick, Arrive, Read, Judge, Submit, RefuseSet, SaveSet, Forget, Recycle, bookVars
<1>3. ASSUME NEW d \in Holders PROVE (serving[d].at = "put" => UsableSet(held[d].set))'
  <2>0. serving[d].at = "put" => UsableSet(held[d].set)  BY <1>1
  <2>1. ASSUME held'[d] = held[d], serving'[d].at = serving[d].at PROVE (serving[d].at = "put" => UsableSet(held[d].set))'
    BY <2>0, <2>1 DEF UsableSet
  <2>2. ASSUME NEW c \in Holders, SaveSet(c) PROVE (serving[d].at = "put" => UsableSet(held[d].set))'
    <3>1. CASE c = d
      <4>1. held'[d].set.no = sets + 1  BY <2>2, <3>1 DEF SaveSet, Holds, BookTyped
      <4> QED  BY <4>1 DEF UsableSet, BookTyped
    <3>2. CASE c # d  BY <2>2, <3>2, <2>1 DEF SaveSet, Holds, Turns, BookTyped
    <3> QED  BY <3>1, <3>2
  <2>3. ASSUME NEW c \in Holders,
               Arrive(c) \/ Read(c) \/ Judge(c) \/ Submit(c) \/ RefuseSet(c) \/ PutSet(c) \/ Forget(c) \/ Recycle(c)
        PROVE (serving[d].at = "put" => UsableSet(held[d].set))'
    <3>1. CASE c = d
      <4>1. serving'[d].at # "put"
        <5>1. CASE Arrive(d) \/ Read(d) \/ Submit(d)  BY <5>1 DEF Arrive, Read, Submit, Turns, BookTyped, Servings
        <5>2. CASE Judge(d) \/ RefuseSet(d) \/ PutSet(d) \/ Forget(d) \/ Recycle(d)
          <6>1. serving'[d] = NotServing \/ (Forget(d) /\ serving' = serving)  BY <5>2 DEF Judge, RefuseSet, PutSet, Forget, Recycle, BookTyped
          <6> QED  BY <6>1 DEF NotServing, Forget
        <5> QED  BY <2>3, <3>1, <5>1, <5>2
      <4> QED  BY <4>1
    <3>2. CASE c # d
      BY <2>1, <2>3, <3>2 DEF Arrive, Read, Judge, Submit, RefuseSet, PutSet, Forget, Recycle, Turns, Holds, BookTyped
    <3> QED  BY <3>1, <3>2
  <2>4. CASE Tick
    <3>1. held'[d].set = held[d].set  BY <2>4 DEF Tick, Older, BookTyped, Copies
    <3>2. serving'[d].at = serving[d].at  BY <2>4 DEF Tick, Served, BookTyped, Servings
    <3> QED  BY <2>0, <3>1, <3>2 DEF UsableSet
  <2>5. CASE UNCHANGED bookVars  BY <2>1, <2>5 DEF bookVars
  <2> QED  BY <2>2, <2>3, <2>4, <2>5 DEF BookNext, BookStep
<1>4. ASSUME book # "policy", NEW d \in Holders PROVE Forward(d)'
  <2>0. /\ judgedBy[d] <= stored.put /\ held[d].set.put <= stored.put
        /\ (NeverStored(held[d].set) \/ held[d].set.put >= judgedBy[d])
        /\ judgedBy[d] \in Nat /\ stored \in SetsSaved /\ held[d] \in Copies
    BY <1>4 DEF ForwardInv, Forward, BookTyped
  <2>1. ASSUME held'[d].set = held[d].set, judgedBy'[d] = judgedBy[d], stored'.put >= stored.put, stored'.put \in Nat
        PROVE  Forward(d)'
    BY <2>0, <2>1 DEF Forward, NeverStored, UsableSet, SetsSaved, Copies
  <2>2. ASSUME NEW c \in Holders, c # d, BookStep(c)
        PROVE  Forward(d)'
    <3>1. held'[d] = held[d] /\ judgedBy'[d] = judgedBy[d]
      BY <2>2 DEF BookStep, BookTyped, Arrive, Read, Judge, Submit, RefuseSet, SaveSet, PutSet, Forget, Recycle, Turns, Holds
    <3>2. stored' = stored \/ stored'.put = stored.put + 1
      BY <2>2 DEF BookStep, BookTyped, Copies, SetsSaved, Arrive, Read, Judge, Submit, RefuseSet, SaveSet, PutSet, Forget, Recycle
    <3> QED  BY <2>0, <2>1, <3>1, <3>2 DEF SetsSaved
  <2>3. CASE Arrive(d)  BY <2>0, <2>1, <2>3 DEF Arrive, SetsSaved
  <2>4. CASE Read(d)
    <3>1. stored' = stored /\ judgedBy' = judgedBy  BY <2>4 DEF Read
    <3>2. AfterFailure(d) = held[d].set  BY <1>4 DEF AfterFailure
    <3>3. Answered(d) = stored \/ Answered(d) = held[d].set \/ (Answered(d) = Nothing /\ stored.put = 0)
      BY <1>1, <1>4 DEF Answered
    <3>4. held'[d].set = Answered(d) \/ held'[d].set = AfterFailure(d)  BY <2>4 DEF Read, Holds, BookTyped
    <3>5. CASE held'[d].set = stored  BY <2>0, <3>1, <3>5 DEF Forward, NeverStored, UsableSet, SetsSaved
    <3>6. CASE held'[d].set = held[d].set  BY <2>0, <2>1, <3>1, <3>6 DEF SetsSaved
    <3>7. CASE held'[d].set = Nothing /\ stored.put = 0
      BY <2>0, <3>1, <3>7 DEF Forward, NeverStored, UsableSet, SetsSaved, Nothing
    <3> QED  BY <3>2, <3>3, <3>4, <3>5, <3>6, <3>7
  <2>5. CASE Judge(d)
    <3>1. stored' = stored /\ held' = held  BY <2>5 DEF Judge
    <3>2. judgedBy'[d] = IF held[d].set.put > judgedBy[d] THEN held[d].set.put ELSE judgedBy[d]  BY <2>5 DEF Judge, BookTyped
    <3> QED  BY <2>0, <3>1, <3>2 DEF Forward, NeverStored, UsableSet, SetsSaved, Copies
  <2>5a. CASE Submit(d) \/ RefuseSet(d)  BY <2>0, <2>1, <2>5a DEF Submit, RefuseSet, SetsSaved
  <2>6. CASE SaveSet(d)
    <3>1. stored' = stored /\ judgedBy' = judgedBy /\ held'[d].set.no = sets + 1 /\ held'[d].set.put = 0
      BY <2>6 DEF SaveSet, Holds, BookTyped
    <3> QED  BY <2>0, <3>1 DEF Forward, NeverStored, UsableSet, BookTyped, SetsSaved
  <2>7. CASE PutSet(d)
    <3>1. judgedBy' = judgedBy  BY <2>7 DEF PutSet
    <3>2. CASE stored' = stored /\ held'[d].set = held[d].set  BY <2>0, <2>1, <3>1, <3>2 DEF SetsSaved
    <3>3. CASE stored'.put = stored.put + 1 /\ held'[d].set = stored'
      BY <2>0, <3>1, <3>3 DEF Forward, NeverStored, UsableSet, SetsSaved
    <3>4. \/ stored' = stored /\ held'[d].set = held[d].set
          \/ stored'.put = stored.put + 1 /\ held'[d].set = stored'
      BY <2>7 DEF PutSet, BookTyped, Copies, SetsSaved
    <3> QED  BY <3>2, <3>3, <3>4
  <2>8. CASE Forget(d) \/ Recycle(d)
    <3>1. stored' = stored /\ judgedBy'[d] = 0 /\ held'[d].set = Nothing
      BY <2>8 DEF Forget, Recycle, BookTyped, NotHeld
    <3> QED  BY <2>0, <3>1 DEF Forward, Nothing, SetsSaved
  <2>9. CASE Tick
    <3>1. held'[d].set = held[d].set /\ judgedBy' = judgedBy /\ stored' = stored  BY <2>9 DEF Tick, Older, BookTyped, Copies
    <3> QED  BY <2>0, <2>1, <3>1 DEF SetsSaved
  <2>10. CASE UNCHANGED bookVars  BY <2>0, <2>1, <2>10 DEF bookVars, SetsSaved
  <2> QED  BY <2>2, <2>3, <2>4, <2>5, <2>5a, <2>6, <2>7, <2>8, <2>9, <2>10 DEF BookNext, BookStep
<1>5. book' = book  BY DEF BookNext, bookVars
<1> QED  BY <1>2, <1>3, <1>4, <1>5 DEF ForwardInv

(* Nothing that fails takes a container back to rules the table held       *)
(* before those it has judged by.                                          *)
THEOREM RulesGoForward == ASSUME BookFits PROVE BookSpec => RulesNeverGoBack
<1>1. BookInit => ForwardInv
  <2> SUFFICES ASSUME BookInit PROVE ForwardInv  OBVIOUS
  <2>1. stored.put = 0  BY BookConstants DEF BookInit, Nothing, Unusable
  <2>2. \A c \in Holders : serving[c].at = "idle" /\ judgedBy[c] = 0 /\ held[c].set.put = 0
    BY DEF BookInit, NotHeld, NotServing, Nothing
  <2> QED  BY <2>1, <2>2 DEF ForwardInv, Forward
<1>2. BookTyped /\ ForwardInv /\ [BookNext]_bookVars => ForwardInv'  BY ForwardStep
<1>3. ForwardInv => GoesForward  BY DEF ForwardInv, Forward, GoesForward
<1> QED  BY <1>1, <1>2, <1>3, BookTypeCorrect, PTL DEF BookSpec, RulesNeverGoBack
=============================================================================

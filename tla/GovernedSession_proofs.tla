------------------------ MODULE GovernedSession_proofs ------------------------
(* Proofs about GovernedSession, for every set of containers, every ceiling, *)
(* every Keep and every bound.                                               *)
EXTENDS GovernedSession, SequenceTheorems, TLAPS

(* What save_session keeps of a list of verdicts is a list of verdicts.      *)
LEMMA LastKeptType ==
  ASSUME NEW vs \in Seq(BOOLEAN)
  PROVE  LastKept(vs) \in Seq(BOOLEAN)
<1>1. Len(vs) \in Nat /\ Keep \in Nat \ {0}
  BY SessionAssumption, LenProperties
<1>2. CASE Len(vs) > Keep
  <2>1. Len(vs) - Keep + 1 \in 1..(Len(vs) + 1) /\ Len(vs) \in (Len(vs) - Keep)..Len(vs)
    BY <1>1, <1>2
  <2>2. SubSeq(vs, Len(vs) - Keep + 1, Len(vs)) \in Seq(BOOLEAN)
    BY <1>1, <2>1, SubSeqProperties
  <2> QED BY <1>2, <2>2 DEF LastKept
<1>3. CASE ~(Len(vs) > Keep)
  BY <1>3 DEF LastKept
<1> QED BY <1>2, <1>3

(* ... so the item it writes is a session when it is handed one.             *)
LEMMA ItemType ==
  ASSUME NEW s \in Session
  PROVE  /\ Item(s) \in Session
         /\ Item(s).halt = s.halt /\ Item(s).cost = s.cost /\ Item(s).failed = s.failed
<1>1. LastKept(s.verdicts) \in Seq(BOOLEAN)
  BY LastKeptType DEF Session
<1> QED BY <1>1 DEF Item, Session

(* A session is never the absent item.                                       *)
LEMMA SessionIsSomething == \A s \in Session : s # Nothing
BY SessionAssumption

(* The sessions every step writes are sessions.                              *)
LEMMA UpdatedSession ==
  ASSUME NEW s \in Session
  PROVE  /\ \A h \in Halts : [s EXCEPT !.halt = h] \in Session
         /\ \A n \in Nat : [s EXCEPT !.cost = @ + n] \in Session
         /\ \A b \in BOOLEAN : [s EXCEPT !.verdicts = Append(@, b)] \in Session
         /\ \A b \in BOOLEAN : [s EXCEPT !.verdicts = Append(@, b),
                                         !.failed = @ \/ ~b] \in Session
<1>1. \A h \in Halts : [s EXCEPT !.halt = h] \in Session
  BY DEF Session
<1>2. \A n \in Nat : [s EXCEPT !.cost = @ + n] \in Session
  BY DEF Session
<1>3. \A b \in BOOLEAN : Append(s.verdicts, b) \in Seq(BOOLEAN)
  BY DEF Session
<1>4. \A b \in BOOLEAN : [s EXCEPT !.verdicts = Append(@, b)] \in Session
  BY <1>3 DEF Session
<1>5. \A b \in BOOLEAN : [s EXCEPT !.verdicts = Append(@, b), !.failed = @ \/ ~b] \in Session
  BY <1>3 DEF Session
<1> QED BY <1>1, <1>2, <1>4, <1>5

(* A session just made is a session.                                         *)
LEMMA NewSessionType == NewSession \in Session
<1>1. <<>> \in Seq(BOOLEAN)
  OBVIOUS
<1> QED BY <1>1 DEF NewSession, Session, Halts

(* A read returns a session or nothing.                                      *)
LEMMA ReadsType ==
  ASSUME TypeOK, NEW c \in Containers, NEW s \in Reads(c)
  PROVE  s \in Stored
BY DEF TypeOK, Reads, FromTable, Stored

(* A behaviour is served by the containers, calls and orders of its world.   *)
LEMMA WorldFits ==
  ASSUME TypeOK
  PROVE  /\ world.containers \subseteq Containers
         /\ world.requests \subseteq Requests
         /\ world.orders \subseteq Order
<1>1. world \in World
  BY SessionAssumption DEF TypeOK
<1> QED BY <1>1 DEF World

(* What the table holds, what a container remembers, and their history.      *)
StoreOK ==
  /\ row \in Stored /\ prev \in Stored /\ mem \in [Containers -> Stored]
  /\ reopened \in BOOLEAN /\ astray \in BOOLEAN

(* What a write leaves behind has its type.                                  *)
LEMMA SavesType ==
  ASSUME TypeOK, NEW c \in Containers, NEW s \in Session, NEW force \in BOOLEAN,
         Saves(c, s, force)
  PROVE  StoreOK'
<1>1. Item(s) \in Stored
  BY ItemType DEF Stored
<1>2. reopened' \in BOOLEAN /\ astray' \in BOOLEAN
  BY DEF Saves, Stores, FallsBack, TypeOK, Halted
<1>3. row' \in Stored /\ prev' \in Stored /\ mem' \in [Containers -> Stored]
  BY <1>1 DEF Saves, Stores, FallsBack, TypeOK
<1> QED BY <1>2, <1>3 DEF StoreOK

-----------------------------------------------------------------------------
(* TYPE CORRECTNESS                                                          *)

(* Moving to a store access with the object it needs keeps pc and copy typed. *)
LEMMA HoldsType ==
  ASSUME TypeOK, NEW c \in Containers, NEW label \in PC, NEW s \in Stored,
         label \in {"idle", "record", "reread"} <=> s = Nothing,
         Holds(c, label, s)
  PROVE  /\ pc' \in [Containers -> PC] /\ copy' \in [Containers -> Stored]
         /\ pc'[c] = label
         /\ \A d \in Containers : d # c => pc'[d] = pc[d] /\ copy'[d] = copy[d]
         /\ \A d \in Containers :
              pc'[d] \in {"idle", "record", "reread"} <=> copy'[d] = Nothing
BY DEF TypeOK, Holds

(* Answering a request keeps the container's own variables typed.            *)
LEMMA AnswersType ==
  ASSUME TypeOK, NEW c \in Containers, Answers(c)
  PROVE  /\ pc' \in [Containers -> PC] /\ copy' \in [Containers -> Stored]
         /\ req' \in [Containers -> Requests \cup {Nothing}]
         /\ pass' \in [Containers -> BOOLEAN]
         /\ \A d \in Containers :
              /\ pc'[d] \in {"idle", "record", "reread"} <=> copy'[d] = Nothing
              /\ pc'[d] \in {"create", "gates"} => req'[d] # Nothing
<1>1. "idle" \in PC /\ Nothing \in Stored
  BY DEF PC, Stored
<1>2. Holds(c, "idle", Nothing)
  BY DEF Answers
<1>3. /\ pc' \in [Containers -> PC] /\ copy' \in [Containers -> Stored]
      /\ pc'[c] = "idle"
      /\ \A d \in Containers : d # c => pc'[d] = pc[d]
      /\ \A d \in Containers :
           pc'[d] \in {"idle", "record", "reread"} <=> copy'[d] = Nothing
  BY <1>1, <1>2, HoldsType
<1>4. /\ req' \in [Containers -> Requests \cup {Nothing}]
      /\ pass' \in [Containers -> BOOLEAN]
      /\ \A d \in Containers : d # c => req'[d] = req[d]
  BY DEF Answers, TypeOK
<1> QED BY <1>3, <1>4 DEF TypeOK, StoreOK, store

(* ... and so does rendering a verdict, which is recorded by later steps.    *)
LEMMA RendersType ==
  ASSUME TypeOK, NEW c \in Containers, NEW ok \in BOOLEAN, Renders(c, ok)
  PROVE  /\ pc' \in [Containers -> PC] /\ copy' \in [Containers -> Stored]
         /\ req' \in [Containers -> Requests \cup {Nothing}]
         /\ pass' \in [Containers -> BOOLEAN]
         /\ calls' \in Nat /\ orders' \in Nat /\ everFailed' \in BOOLEAN
         /\ \A d \in Containers :
              /\ pc'[d] \in {"idle", "record", "reread"} <=> copy'[d] = Nothing
              /\ pc'[d] \in {"create", "gates"} => req'[d] # Nothing
<1>1. "record" \in PC /\ Nothing \in Stored
  BY DEF PC, Stored
<1>2. Holds(c, "record", Nothing)
  BY DEF Renders
<1>3. /\ pc' \in [Containers -> PC] /\ copy' \in [Containers -> Stored]
      /\ pc'[c] = "record"
      /\ \A d \in Containers : d # c => pc'[d] = pc[d]
      /\ \A d \in Containers :
           pc'[d] \in {"idle", "record", "reread"} <=> copy'[d] = Nothing
  BY <1>1, <1>2, HoldsType
<1>4. pass' \in [Containers -> BOOLEAN] /\ req' = req
      /\ calls' = calls /\ orders' = orders /\ everFailed' = everFailed
  BY DEF Renders, TypeOK, sent
<1> QED BY <1>3, <1>4 DEF TypeOK, StoreOK, store

(* The initial state is typed: nothing is stored, nothing is under way.      *)
LEMMA InitType == Init => TypeOK
<1> SUFFICES ASSUME Init PROVE TypeOK
  OBVIOUS
<1>1. Nothing \in Stored /\ "idle" \in PC
  BY DEF Stored, PC
<1>2. /\ row \in Stored /\ prev \in Stored /\ mem \in [Containers -> Stored]
      /\ world \in Worlds
      /\ pc \in [Containers -> PC] /\ copy \in [Containers -> Stored]
      /\ req \in [Containers -> Requests \cup {Nothing}]
  BY <1>1 DEF Init
<1>3. pass \in [Containers -> BOOLEAN]
  BY Zenon DEF Init
<1>4. /\ calls \in Nat /\ orders \in Nat /\ spent \in Nat /\ everFailed \in BOOLEAN
      /\ reopened \in BOOLEAN /\ astray \in BOOLEAN
  BY DEF Init
<1>5. \A c \in Containers : pc[c] = "idle" /\ copy[c] = Nothing
  BY DEF Init
<1> QED BY <1>2, <1>3, <1>4, <1>5 DEF TypeOK, StoreOK, store

(* A tool call is judged on objects of the right type.                       *)
LEMMA LoadType ==
  ASSUME TypeOK, UNCHANGED world, NEW c \in Containers, NEW r \in Requests, Load(c, r)
  PROVE  TypeOK'
<1>1. PICK s \in Reads(c) :
        IF s = Nothing THEN Holds(c, "create", NewSession) ELSE Holds(c, "gates", s)
  BY DEF Load
<1>2. s \in Stored
  BY ReadsType
<1>3. r # Nothing
  BY SessionAssumption
<1>4. /\ req' \in [Containers -> Requests \cup {Nothing}] /\ req'[c] # Nothing
      /\ \A d \in Containers : d # c => req'[d] = req[d]
  BY <1>3 DEF Load, TypeOK
<1>5. /\ pc' \in [Containers -> PC] /\ copy' \in [Containers -> Stored]
      /\ \A d \in Containers : d # c => pc'[d] = pc[d]
      /\ \A d \in Containers :
           pc'[d] \in {"idle", "record", "reread"} <=> copy'[d] = Nothing
  <2>1. CASE s = Nothing
    <3>1. NewSession \in Stored /\ NewSession # Nothing /\ "create" \in PC
      BY NewSessionType, SessionIsSomething DEF Stored, PC
    <3> QED BY <1>1, <2>1, <3>1, HoldsType
  <2>2. CASE s # Nothing
    <3>1. "gates" \in PC
      BY DEF PC
    <3> QED BY <1>1, <1>2, <2>2, <3>1, HoldsType
  <2> QED BY <2>1, <2>2
<1>6. UNCHANGED <<store, pass, orders, spent, everFailed>> /\ calls' \in Nat
  BY DEF Load, TypeOK, ghost
<1> QED BY <1>4, <1>5, <1>6 DEF TypeOK, StoreOK, store

(* A container that holds an object holds a session.                         *)
LEMMA HoldsSession ==
  ASSUME TypeOK, NEW c \in Containers, pc[c] \notin {"idle", "record", "reread"}
  PROVE  copy[c] \in Session
BY DEF TypeOK, Stored

(* Creating the row keeps every variable typed, written or refused.          *)
LEMMA CreateType ==
  ASSUME TypeOK, UNCHANGED world, NEW c \in Containers, Create(c)
  PROVE  TypeOK'
<1>1. copy[c] \in Session /\ copy[c] # Nothing /\ copy[c] \in Stored
  BY HoldsSession, SessionIsSomething DEF Create, At, Stored
<1>2. UNCHANGED <<calls, orders, spent, everFailed>>
  BY DEF Create, sent, ghost
<1>3. CASE Saves(c, copy[c], FALSE) /\ Holds(c, "gates", copy[c]) /\ UNCHANGED <<req, pass>>
  <2>1. StoreOK'
    BY <1>1, <1>3, SavesType
  <2>2. "gates" \in PC
    BY DEF PC
  <2>3. /\ pc' \in [Containers -> PC] /\ copy' \in [Containers -> Stored]
        /\ \A d \in Containers : d # c => pc'[d] = pc[d]
        /\ \A d \in Containers :
             pc'[d] \in {"idle", "record", "reread"} <=> copy'[d] = Nothing
    BY <1>1, <1>3, <2>2, HoldsType
  <2>4. req[c] # Nothing
    BY DEF Create, At, TypeOK
  <2> QED BY <1>2, <1>3, <2>1, <2>3, <2>4 DEF TypeOK, StoreOK, store
<1>4. CASE Conflicts(c) /\ Answers(c)
  <2>1. UNCHANGED store
    BY <1>4 DEF Conflicts, store
  <2> QED BY <1>2, <1>4, <2>1, AnswersType DEF TypeOK, StoreOK, store
<1> QED BY <1>3, <1>4 DEF Create

(* A gate that writes nothing.                                               *)
LEMMA QuietVerdictType ==
  ASSUME TypeOK, UNCHANGED world, NEW c \in Containers, Freeze(c) \/ Refuse(c)
  PROVE  TypeOK'
<1>1. Renders(c, FALSE) /\ UNCHANGED <<store, spent>>
  BY DEF Freeze, Refuse, store
<1> QED BY <1>1, RendersType DEF TypeOK, StoreOK, store

(* A gate that halts the session writes a session.                           *)
LEMMA HaltType ==
  ASSUME TypeOK, UNCHANGED world, NEW c \in Containers, Halt(c)
  PROVE  TypeOK'
<1>1. copy[c] \in Session
  BY HoldsSession DEF Halt, At
<1>2. PICK h \in Halts : Saves(c, [copy[c] EXCEPT !.halt = h], TRUE)
  <2>1. HaltBy(req[c], copy[c]) \in Halts
    BY DEF HaltBy, Halts
  <2> QED BY <2>1 DEF Halt
<1>3. [copy[c] EXCEPT !.halt = h] \in Session
  BY <1>1, UpdatedSession
<1>4. StoreOK'
  BY <1>2, <1>3, SavesType
<1>5. Renders(c, FALSE) /\ UNCHANGED spent
  BY DEF Halt
<1> QED BY <1>4, <1>5, RendersType DEF TypeOK, StoreOK, store

(* An approval writes a session, or turns into a refusal and writes nothing. *)
LEMMA ApproveType ==
  ASSUME TypeOK, UNCHANGED world, NEW c \in Containers, Approve(c)
  PROVE  TypeOK'
<1>1. copy[c] \in Session
  BY HoldsSession DEF Approve, At
<1>2. req[c] \in Request /\ req[c].cost \in Nat
  BY SessionAssumption DEF Approve, At, TypeOK, Request
<1>3. CASE /\ Saves(c, [copy[c] EXCEPT !.cost = @ + req[c].cost], FALSE)
           /\ Renders(c, CleanApproval(req[c], copy[c]))
           /\ spent' = spent + req[c].cost
  <2>1. [copy[c] EXCEPT !.cost = @ + req[c].cost] \in Session
    BY <1>1, <1>2, UpdatedSession
  <2>2. StoreOK'
    BY <1>3, <2>1, SavesType
  <2>3. spent' \in Nat
    BY <1>2, <1>3 DEF TypeOK
  <2>4. CleanApproval(req[c], copy[c]) \in BOOLEAN
    BY DEF CleanApproval
  <2> QED BY <1>3, <2>2, <2>3, <2>4, RendersType DEF TypeOK, StoreOK, store
<1>4. CASE Conflicts(c) /\ Renders(c, FALSE) /\ UNCHANGED spent
  <2>1. UNCHANGED store
    BY <1>4 DEF Conflicts, store
  <2> QED BY <1>4, <2>1, RendersType DEF TypeOK, StoreOK, store
<1> QED BY <1>3, <1>4 DEF Approve

(* The two reads of _record_verdict put the verdict on what they read.       *)
LEMMA RecordReadType ==
  ASSUME TypeOK, UNCHANGED world, NEW c \in Containers, RecordRead(c) \/ Reread(c)
  PROVE  TypeOK'
<1>1. UNCHANGED <<store, calls, orders, spent, everFailed>>
  BY DEF RecordRead, Reread, store, sent, ghost
<1>2. pass[c] \in BOOLEAN
  BY DEF TypeOK
<1>3. CASE Answers(c)
  BY <1>1, <1>3, AnswersType DEF TypeOK, store
<1>4. ASSUME NEW s \in Session, NEW label \in {"record_save", "force_save"},
             Holds(c, label, s), UNCHANGED <<req, pass>>
      PROVE  TypeOK'
  <2>1. label \in PC /\ s \in Stored /\ s # Nothing
    BY SessionIsSomething DEF PC, Stored
  <2>2. /\ pc' \in [Containers -> PC] /\ copy' \in [Containers -> Stored]
        /\ pc'[c] = label
        /\ \A d \in Containers : d # c => pc'[d] = pc[d]
        /\ \A d \in Containers :
             pc'[d] \in {"idle", "record", "reread"} <=> copy'[d] = Nothing
    BY <1>4, <2>1, HoldsType
  <2> QED BY <1>1, <1>4, <2>2 DEF TypeOK, StoreOK, store
<1>5. CASE RecordRead(c)
  <2>1. PICK s \in Reads(c) :
          IF s = Nothing THEN Answers(c)
          ELSE /\ Holds(c, "record_save", [s EXCEPT !.verdicts = Append(@, pass[c]),
                                                    !.failed = @ \/ ~pass[c]])
               /\ UNCHANGED <<req, pass>>
    BY <1>5 DEF RecordRead
  <2>2. CASE s # Nothing
    <3>1. s \in Session
      BY <2>2, ReadsType DEF Stored
    <3>2. [s EXCEPT !.verdicts = Append(@, pass[c]), !.failed = @ \/ ~pass[c]] \in Session
      BY <1>2, <3>1, UpdatedSession
    <3> QED BY <1>4, <2>1, <2>2, <3>2
  <2> QED BY <1>3, <2>1, <2>2
<1>6. CASE Reread(c)
  <2>1. PICK s \in Reads(c) :
          IF s = Nothing THEN Answers(c)
          ELSE /\ Holds(c, "force_save", [s EXCEPT !.verdicts = Append(@, pass[c])])
               /\ UNCHANGED <<req, pass>>
    BY <1>6 DEF Reread
  <2>2. CASE s # Nothing
    <3>1. s \in Session
      BY <2>2, ReadsType DEF Stored
    <3>2. [s EXCEPT !.verdicts = Append(@, pass[c])] \in Session
      BY <1>2, <3>1, UpdatedSession
    <3> QED BY <1>4, <2>1, <2>2, <3>2
  <2> QED BY <1>3, <2>1, <2>2
<1> QED BY <1>5, <1>6

(* Both writes of a verdict keep every variable typed.                       *)
LEMMA RecordWriteType ==
  ASSUME TypeOK, UNCHANGED world, NEW c \in Containers, RecordSave(c) \/ ForceSave(c)
  PROVE  TypeOK'
<1>1. copy[c] \in Session /\ Halted(copy[c]) \in BOOLEAN
  BY HoldsSession DEF RecordSave, ForceSave, At, Halted
<1>2. UNCHANGED <<calls, orders, spent>>
  BY DEF RecordSave, ForceSave, sent
<1>3. ASSUME NEW force \in BOOLEAN, Saves(c, copy[c], force), Recorded(c)
      PROVE  TypeOK'
  <2>1. StoreOK'
    BY <1>1, <1>3, SavesType
  <2>2. everFailed' \in BOOLEAN
    BY <1>3 DEF Recorded, TypeOK
  <2>3. Answers(c)
    BY <1>3 DEF Recorded
  <2> QED BY <1>2, <2>1, <2>2, <2>3, AnswersType DEF TypeOK, StoreOK, store
<1>4. CASE /\ Conflicts(c) /\ Holds(c, "reread", Nothing)
           /\ UNCHANGED <<req, pass, everFailed>>
  <2>1. UNCHANGED store
    BY <1>4 DEF Conflicts, store
  <2>2. "reread" \in PC /\ Nothing \in Stored
    BY DEF PC, Stored
  <2>3. /\ pc' \in [Containers -> PC] /\ copy' \in [Containers -> Stored]
        /\ pc'[c] = "reread"
        /\ \A d \in Containers : d # c => pc'[d] = pc[d]
        /\ \A d \in Containers :
             pc'[d] \in {"idle", "record", "reread"} <=> copy'[d] = Nothing
    BY <1>4, <2>2, HoldsType
  <2> QED BY <1>2, <1>4, <2>1, <2>3 DEF TypeOK, StoreOK, store
<1> QED BY <1>1, <1>3, <1>4 DEF RecordSave, ForceSave

(* An operator's request holds the session it read, or is refused.           *)
LEMMA OrderReadType ==
  ASSUME TypeOK, UNCHANGED world, NEW c \in Containers, NEW order \in Order, OrderRead(c, order)
  PROVE  TypeOK'
<1>1. PICK s \in Reads(c) \ {Nothing} : Holds(c, order, s)
  BY DEF OrderRead
<1>2. s \in Stored /\ s # Nothing
  BY <1>1, ReadsType
<1>3. order \in {"terminate", "resume"} /\ order \in PC
  BY SessionAssumption DEF Order, PC
<1>4. /\ pc' \in [Containers -> PC] /\ copy' \in [Containers -> Stored]
      /\ pc'[c] = order
      /\ \A d \in Containers : d # c => pc'[d] = pc[d]
      /\ \A d \in Containers :
           pc'[d] \in {"idle", "record", "reread"} <=> copy'[d] = Nothing
  BY <1>1, <1>2, <1>3, HoldsType
<1>5. /\ UNCHANGED <<store, req, pass, calls, spent, everFailed>>
      /\ orders' \in Nat
  BY DEF OrderRead, TypeOK, ghost
<1> QED BY <1>3, <1>4, <1>5 DEF TypeOK, StoreOK, store

(* The kill switch and the resume write a session.                           *)
LEMMA OrderWriteType ==
  ASSUME TypeOK, UNCHANGED world, NEW c \in Containers, Terminate(c) \/ Resume(c)
  PROVE  TypeOK'
<1>1. copy[c] \in Session
  BY HoldsSession DEF Terminate, Resume, At
<1>2. PICK h \in Halts : Saves(c, [copy[c] EXCEPT !.halt = h], TRUE)
  BY DEF Terminate, Resume, Halts
<1>3. [copy[c] EXCEPT !.halt = h] \in Session
  BY <1>1, UpdatedSession
<1>4. StoreOK'
  BY <1>2, <1>3, SavesType
<1>5. Answers(c) /\ UNCHANGED <<calls, orders, spent, everFailed>>
  BY DEF Terminate, Resume, sent, ghost
<1> QED BY <1>4, <1>5, AnswersType DEF TypeOK, StoreOK, store

(* A container that dies leaves every variable typed.                        *)
LEMMA CrashType ==
  ASSUME TypeOK, UNCHANGED world, NEW c \in Containers, Crash(c)
  PROVE  TypeOK'
<1>1. Answers(c) /\ UNCHANGED <<row, prev, reopened, astray, calls, orders, spent, everFailed>>
  BY DEF Crash, sent, ghost
<1>2. mem' \in [Containers -> Stored]
  BY DEF Crash, TypeOK, Stored
<1> QED BY <1>1, <1>2, AnswersType DEF TypeOK, StoreOK, store

(* A step that changes nothing changes no type.                              *)
LEMMA StutterType ==
  ASSUME TypeOK, UNCHANGED vars
  PROVE  TypeOK'
BY DEF TypeOK, vars, store, local, sent, ghost

(* Every step preserves TypeOK: one lemma above for each action.             *)
LEMMA StepType == TypeOK /\ [Next]_vars => TypeOK'
<1> SUFFICES ASSUME TypeOK, [Next]_vars PROVE TypeOK'
  OBVIOUS
<1>0. world.requests \subseteq Requests /\ world.orders \subseteq Order
  BY WorldFits
<1>1. ASSUME UNCHANGED world, NEW c \in Containers, Judge(c) PROVE TypeOK'
  BY <1>0, <1>1, LoadType, CreateType, QuietVerdictType, HaltType, ApproveType,
     RecordReadType, RecordWriteType DEF Judge
<1>2. ASSUME UNCHANGED world, NEW c \in Containers, Operate(c) PROVE TypeOK'
  BY <1>0, <1>2, OrderReadType, OrderWriteType DEF Operate
<1>3. ASSUME UNCHANGED world, NEW c \in Containers, Crash(c) PROVE TypeOK'
  BY <1>3, CrashType
<1>4. CASE UNCHANGED vars
  BY <1>4, StutterType
<1> QED BY <1>1, <1>2, <1>3, <1>4, WorldFits DEF Next

(* Every variable keeps its type: the row, each container's memory and the   *)
(* object it holds are sessions or nothing, whatever the interleaving, the   *)
(* replica read, the store call that failed or the container that died.      *)
THEOREM TypeCorrect == Spec => []TypeOK
<1> QED BY InitType, StepType, PTL DEF Spec

-----------------------------------------------------------------------------
(* A HALTED ROW                                                              *)

(* What a container that is judging holds is not forced over a halted row:   *)
(* an unforced write finds the row open.                                     *)
LEMMA HaltedItem ==
  ASSUME NEW s \in Session
  PROVE  Halted(Item(s)) <=> Halted(s)
<1>1. Item(s) \in Session /\ Item(s).halt = s.halt
  BY ItemType
<1> QED BY <1>1, SessionIsSomething DEF Halted

(* One step opens a halted row only as a resume or as the forced retry.      *)
LEMMA OpeningStep ==
  ASSUME TypeOK, [Next]_vars, Halted(row), ~Halted(row')
  PROVE  \E c \in Containers : pc[c] \in {"resume", "force_save"} /\ pc'[c] = "idle"
<1>1. row' # row
  OBVIOUS
<1>2. PICK c \in Containers : Judge(c) \/ Operate(c) \/ Crash(c)
  BY <1>1, WorldFits DEF Next, vars, store
<1>3. ASSUME NEW s \in Session, Saves(c, s, FALSE) PROVE FALSE
  BY <1>1, <1>3 DEF Saves, Stores, FallsBack, Writable
<1>4. ASSUME NEW s \in Session, Halted(s), Saves(c, s, TRUE) PROVE FALSE
  BY <1>1, <1>4, HaltedItem DEF Saves, Stores, FallsBack
<1>5. CASE Judge(c)
  <2>1. ~(\E r \in world.requests : Load(c, r))
    BY <1>1 DEF Load, store
  <2>2. ~Create(c)
    BY <1>1, <1>3, HoldsSession DEF Create, At, Conflicts, store
  <2>3. ~Freeze(c) /\ ~Refuse(c) /\ ~RecordRead(c) /\ ~Reread(c)
    BY <1>1 DEF Freeze, Refuse, RecordRead, Reread, store
  <2>4. ~Halt(c)
    <3> SUFFICES ASSUME Halt(c) PROVE FALSE
      OBVIOUS
    <3>1. copy[c] \in Session
      BY HoldsSession DEF Halt, At
    <3>2. PICK h \in Halts \ {"none"} : Saves(c, [copy[c] EXCEPT !.halt = h], TRUE)
      BY DEF Halt, HaltBy, Halts
    <3>3. [copy[c] EXCEPT !.halt = h] \in Session
      BY <3>1, UpdatedSession
    <3>4. Halted([copy[c] EXCEPT !.halt = h])
      BY <3>1, <3>3, SessionIsSomething DEF Halted, Session
    <3> QED BY <1>4, <3>2, <3>3, <3>4
  <2>5. ~Approve(c)
    <3> SUFFICES ASSUME Approve(c) PROVE FALSE
      OBVIOUS
    <3>1. copy[c] \in Session
      BY HoldsSession DEF Approve, At
    <3>2. req[c].cost \in Nat
      BY SessionAssumption DEF Approve, At, TypeOK, Request
    <3>3. [copy[c] EXCEPT !.cost = @ + req[c].cost] \in Session
      BY <3>1, <3>2, UpdatedSession
    <3>4. Saves(c, [copy[c] EXCEPT !.cost = @ + req[c].cost], FALSE)
      BY <1>1 DEF Approve, Conflicts, store
    <3> QED BY <1>3, <3>3, <3>4
  <2>6. ~RecordSave(c)
    <3> SUFFICES ASSUME RecordSave(c) PROVE FALSE
      OBVIOUS
    <3>1. copy[c] \in Session
      BY HoldsSession DEF RecordSave, At
    <3>2. Saves(c, copy[c], Halted(copy[c]))
      BY <1>1 DEF RecordSave, Conflicts, store
    <3>3. CASE Halted(copy[c])
      <4>1. Saves(c, copy[c], TRUE)
        BY <3>2, <3>3 DEF Saves, Stores, FallsBack, Writable
      <4> QED BY <1>4, <3>1, <3>3, <4>1
    <3>4. CASE ~Halted(copy[c])
      <4>1. Saves(c, copy[c], FALSE)
        BY <3>2, <3>4 DEF Saves, Stores, FallsBack, Writable
      <4> QED BY <1>3, <3>1, <4>1
    <3> QED BY <3>3, <3>4
  <2>7. ForceSave(c)
    BY <1>5, <2>1, <2>2, <2>3, <2>4, <2>5, <2>6 DEF Judge
  <2>8. pc[c] = "force_save" /\ pc'[c] = "idle"
    BY <2>7 DEF ForceSave, At, Recorded, Answers, Holds, TypeOK
  <2> QED BY <2>8
<1>6. CASE Operate(c)
  <2>1. ~(\E order \in world.orders : OrderRead(c, order))
    BY <1>1 DEF OrderRead, store
  <2>2. ~Terminate(c)
    <3> SUFFICES ASSUME Terminate(c) PROVE FALSE
      OBVIOUS
    <3>1. copy[c] \in Session
      BY HoldsSession DEF Terminate, At
    <3>2. [copy[c] EXCEPT !.halt = "terminated"] \in Session
      BY <3>1, UpdatedSession DEF Halts
    <3>3. Halted([copy[c] EXCEPT !.halt = "terminated"])
      BY <3>1, <3>2, SessionIsSomething DEF Halted, Session
    <3>4. Saves(c, [copy[c] EXCEPT !.halt = "terminated"], TRUE)
      BY DEF Terminate
    <3> QED BY <1>4, <3>2, <3>3, <3>4
  <2>3. Resume(c)
    BY <1>6, <2>1, <2>2 DEF Operate
  <2>4. pc[c] = "resume" /\ pc'[c] = "idle"
    BY <2>3 DEF Resume, At, Answers, Holds, TypeOK
  <2> QED BY <2>4
<1>7. CASE Crash(c)
  BY <1>1, <1>7 DEF Crash
<1> QED BY <1>2, <1>5, <1>6, <1>7

(* In every behaviour - stale reads, store failures, crashes and any number  *)
(* of containers included - only an operator's resume and the forced retry   *)
(* of _record_verdict can turn a halted row into an open one.                *)
THEOREM OnlyResumeOrRetryOpens == Spec => OpenedOnlyByResumeOrRetry
<1>1. TypeOK /\ [Next]_vars =>
        [(Halted(row) /\ ~Halted(row')) =>
           \E c \in Containers : pc[c] \in {"resume", "force_save"} /\ pc'[c] = "idle"]_vars
  BY OpeningStep
<1> QED BY <1>1, TypeCorrect, PTL DEF Spec, OpenedOnlyByResumeOrRetry

-----------------------------------------------------------------------------
(* SPENDING                                                                  *)

Within(s, n) == s # Nothing => s.cost <= n

(* NeverOvercharged is not inductive: a stale read also serves prev.         *)
ChargeInv ==
  /\ Within(row, spent) /\ Within(prev, spent)
  /\ \A c \in Containers : Within(mem[c], spent) /\ Within(copy[c], spent)

(* What is charged within a total is charged within a larger one.            *)
LEMMA WithinMore ==
  ASSUME NEW s \in Stored, NEW m \in Nat, NEW n \in Nat, m <= n, Within(s, m)
  PROVE  Within(s, n)
BY SessionIsSomething DEF Within, Stored, Session

(* Whatever a read returns, stale or remembered, is charged within spent.    *)
LEMMA ReadsWithin ==
  ASSUME TypeOK, ChargeInv, NEW c \in Containers, NEW s \in Reads(c)
  PROVE  Within(s, spent)
BY DEF ChargeInv, Reads, FromTable, Within

(* A write of a session charged within n leaves the stores within n.         *)
LEMMA SavesWithin ==
  ASSUME TypeOK, ChargeInv, NEW c \in Containers, NEW s \in Session, NEW force \in BOOLEAN,
         NEW n \in Nat, spent <= n, s.cost <= n, Saves(c, s, force)
  PROVE  /\ Within(row', n) /\ Within(prev', n)
         /\ \A d \in Containers : Within(mem'[d], n)
<1>1. Within(Item(s), n)
  BY ItemType DEF Within
<1>2. Within(row, n) /\ Within(prev, n) /\ \A d \in Containers : Within(mem[d], n)
  BY WithinMore DEF TypeOK, ChargeInv
<1> QED BY <1>1, <1>2 DEF Saves, Stores, FallsBack, TypeOK

(* Holding a session charged within n leaves every copy within n.            *)
LEMMA HoldsWithin ==
  ASSUME TypeOK, ChargeInv, NEW c \in Containers, NEW label, NEW s \in Stored,
         NEW n \in Nat, spent <= n, Within(s, n), Holds(c, label, s)
  PROVE  \A d \in Containers : Within(copy'[d], n)
<1>1. \A d \in Containers : Within(copy[d], n)
  BY WithinMore DEF TypeOK, ChargeInv
<1> QED BY <1>1 DEF Holds, TypeOK

(* ... and so does letting go of it.                                         *)
LEMMA DropsWithin ==
  ASSUME TypeOK, ChargeInv, NEW c \in Containers, NEW label, NEW n \in Nat, spent <= n,
         Holds(c, label, Nothing)
  PROVE  \A d \in Containers : Within(copy'[d], n)
<1>1. Within(Nothing, n) /\ Nothing \in Stored
  BY DEF Within, Stored
<1> QED BY <1>1, HoldsWithin

(* ... in particular when the total stays as it is.                          *)
LEMMA HoldsWithinSpent ==
  ASSUME TypeOK, ChargeInv, NEW c \in Containers, NEW label, NEW s \in Stored,
         Within(s, spent), Holds(c, label, s)
  PROVE  \A d \in Containers : Within(copy'[d], spent)
<1>1. spent \in Nat /\ spent <= spent
  BY DEF TypeOK
<1> QED BY <1>1, HoldsWithin

(* The same for a container that lets go of its copy.                        *)
LEMMA DropsWithinSpent ==
  ASSUME TypeOK, ChargeInv, NEW c \in Containers, NEW label, Holds(c, label, Nothing)
  PROVE  \A d \in Containers : Within(copy'[d], spent)
<1>1. spent \in Nat /\ spent <= spent
  BY DEF TypeOK
<1> QED BY <1>1, DropsWithin

(* A step that writes no row and changes no total.                           *)
LEMMA QuietCharge ==
  ASSUME TypeOK, ChargeInv, UNCHANGED <<store, spent>>,
         \A d \in Containers : Within(copy'[d], spent)
  PROVE  ChargeInv'
BY DEF ChargeInv, Within, store

(* A step that writes a session no dearer than what was spent.               *)
LEMMA WriteCharge ==
  ASSUME TypeOK, ChargeInv, NEW c \in Containers, NEW s \in Session, NEW force \in BOOLEAN,
         spent' \in Nat, spent <= spent', s.cost <= spent', Saves(c, s, force),
         \A d \in Containers : Within(copy'[d], spent')
  PROVE  ChargeInv'
<1>1. /\ Within(row', spent') /\ Within(prev', spent')
      /\ \A d \in Containers : Within(mem'[d], spent')
  BY SavesWithin
<1> QED BY <1>1 DEF ChargeInv, Within

(* ... in particular when nothing was spent by the step.                     *)
LEMMA WriteSameTotal ==
  ASSUME TypeOK, ChargeInv, NEW c \in Containers, NEW s \in Session, NEW force \in BOOLEAN,
         spent' = spent, s.cost <= spent, Saves(c, s, force),
         \A d \in Containers : Within(copy'[d], spent)
  PROVE  ChargeInv'
<1>1. spent' \in Nat /\ spent <= spent' /\ s.cost <= spent'
  BY DEF TypeOK
<1>2. \A d \in Containers : Within(copy'[d], spent')
  OBVIOUS
<1> QED BY <1>1, <1>2, WriteCharge

(* No step of a tool call charges more than it spends.                       *)
LEMMA JudgeCharge ==
  ASSUME TypeOK, ChargeInv, NEW c \in Containers, Judge(c)
  PROVE  ChargeInv'
<1> spent \in Nat
  BY DEF TypeOK
<1>1. ASSUME NEW r \in world.requests, Load(c, r) PROVE ChargeInv'
  <2>1. PICK s \in Reads(c) :
          IF s = Nothing THEN Holds(c, "create", NewSession) ELSE Holds(c, "gates", s)
    BY <1>1 DEF Load
  <2>2. s \in Stored /\ Within(s, spent)
    BY ReadsType, ReadsWithin
  <2>3. NewSession \in Stored /\ Within(NewSession, spent)
    BY NewSessionType DEF Stored, Within, NewSession
  <2>4. \A d \in Containers : Within(copy'[d], spent)
    BY <2>1, <2>2, <2>3, HoldsWithinSpent
  <2> QED BY <1>1, <2>4, QuietCharge DEF Load, ghost
<1>2. CASE Create(c)
  <2>1. copy[c] \in Session /\ copy[c] \in Stored /\ Within(copy[c], spent) /\ copy[c].cost <= spent
    BY <1>2, HoldsSession, SessionIsSomething DEF Create, At, Stored, ChargeInv, Within
  <2>2. CASE Saves(c, copy[c], FALSE) /\ Holds(c, "gates", copy[c])
    <3>1. \A d \in Containers : Within(copy'[d], spent)
      BY <2>1, <2>2, HoldsWithinSpent
    <3>2. spent' = spent
      BY <1>2 DEF Create, ghost
    <3> QED BY <2>1, <2>2, <3>1, <3>2, WriteSameTotal
  <2>3. CASE Conflicts(c) /\ Answers(c)
    <3>1. \A d \in Containers : Within(copy'[d], spent)
      BY <2>3, DropsWithinSpent DEF Answers
    <3> QED BY <1>2, <2>3, <3>1, QuietCharge DEF Create, Conflicts, ghost
  <2> QED BY <1>2, <2>2, <2>3 DEF Create
<1>3. CASE Freeze(c) \/ Refuse(c)
  <2>1. \A d \in Containers : Within(copy'[d], spent)
    BY <1>3, DropsWithinSpent DEF Freeze, Refuse, Renders
  <2> QED BY <1>3, <2>1, QuietCharge DEF Freeze, Refuse
<1>4. CASE Halt(c)
  <2>1. copy[c] \in Session /\ copy[c].cost <= spent
    BY <1>4, HoldsSession, SessionIsSomething DEF Halt, At, ChargeInv, Within
  <2>2. PICK h \in Halts : Saves(c, [copy[c] EXCEPT !.halt = h], TRUE)
    BY <1>4 DEF Halt, HaltBy, Halts
  <2>3. [copy[c] EXCEPT !.halt = h] \in Session /\ [copy[c] EXCEPT !.halt = h].cost <= spent
    BY <2>1, UpdatedSession DEF Session
  <2>4. \A d \in Containers : Within(copy'[d], spent)
    BY <1>4, DropsWithinSpent DEF Halt, Renders
  <2>5. spent' = spent
    BY <1>4 DEF Halt
  <2> QED BY <2>2, <2>3, <2>4, <2>5, WriteSameTotal
<1>5. CASE Approve(c)
  <2>1. copy[c] \in Session /\ copy[c].cost \in Nat /\ copy[c].cost <= spent
    BY <1>5, HoldsSession, SessionIsSomething DEF Approve, At, ChargeInv, Within, Session
  <2>2. req[c].cost \in Nat
    BY <1>5, SessionAssumption DEF Approve, At, TypeOK, Request
  <2>3. CASE /\ Saves(c, [copy[c] EXCEPT !.cost = @ + req[c].cost], FALSE)
             /\ spent' = spent + req[c].cost
    <3>1. /\ [copy[c] EXCEPT !.cost = @ + req[c].cost] \in Session
          /\ [copy[c] EXCEPT !.cost = @ + req[c].cost].cost = copy[c].cost + req[c].cost
      BY <2>1, <2>2, UpdatedSession DEF Session
    <3>2. spent' \in Nat /\ spent <= spent' /\ copy[c].cost + req[c].cost <= spent'
      BY <2>1, <2>2, <2>3
    <3>3. \A d \in Containers : Within(copy'[d], spent')
      BY <1>5, <3>2, DropsWithin DEF Approve, Renders
    <3> QED BY <2>3, <3>1, <3>2, <3>3, WriteCharge
  <2>4. CASE Conflicts(c) /\ UNCHANGED spent
    <3>1. \A d \in Containers : Within(copy'[d], spent)
      BY <1>5, DropsWithinSpent DEF Approve, Renders
    <3> QED BY <2>4, <3>1, QuietCharge DEF Conflicts
  <2> QED BY <1>5, <2>3, <2>4 DEF Approve
<1>6. CASE RecordRead(c) \/ Reread(c)
  <2>1. UNCHANGED <<store, spent>>
    BY <1>6 DEF RecordRead, Reread, ghost
  <2>2. ASSUME NEW s \in Reads(c), s # Nothing
        PROVE  /\ [s EXCEPT !.verdicts = Append(@, pass[c]), !.failed = @ \/ ~pass[c]] \in Stored
               /\ Within([s EXCEPT !.verdicts = Append(@, pass[c]), !.failed = @ \/ ~pass[c]], spent)
               /\ [s EXCEPT !.verdicts = Append(@, pass[c])] \in Stored
               /\ Within([s EXCEPT !.verdicts = Append(@, pass[c])], spent)
    <3>1. s \in Session /\ s.cost <= spent /\ pass[c] \in BOOLEAN
      BY <2>2, ReadsType, ReadsWithin DEF Stored, Within, TypeOK
    <3> QED BY <3>1, UpdatedSession DEF Stored, Within, Session
  <2>3. \A d \in Containers : Within(copy'[d], spent)
    BY <1>6, <2>2, HoldsWithinSpent, DropsWithinSpent DEF RecordRead, Reread, Answers
  <2> QED BY <2>1, <2>3, QuietCharge
<1>7. CASE RecordSave(c) \/ ForceSave(c)
  <2>1. copy[c] \in Session /\ copy[c].cost <= spent /\ spent' = spent
    BY <1>7, HoldsSession, SessionIsSomething DEF RecordSave, ForceSave, At, ChargeInv, Within
  <2>2. \A d \in Containers : Within(copy'[d], spent)
    BY <1>7, DropsWithinSpent DEF RecordSave, ForceSave, Recorded, Answers
  <2>3. Halted(copy[c]) \in BOOLEAN
    BY DEF Halted
  <2>4. CASE \E force \in BOOLEAN : Saves(c, copy[c], force)
    BY <2>1, <2>2, <2>4, WriteSameTotal
  <2>5. CASE Conflicts(c)
    BY <2>1, <2>2, <2>5, QuietCharge DEF Conflicts
  <2> QED BY <1>7, <2>3, <2>4, <2>5 DEF RecordSave, ForceSave
<1> QED BY <1>1, <1>2, <1>3, <1>4, <1>5, <1>6, <1>7 DEF Judge

(* No step of an operator or of a crash charges anything.                    *)
LEMMA OperateCharge ==
  ASSUME TypeOK, ChargeInv, NEW c \in Containers, Operate(c) \/ Crash(c)
  PROVE  ChargeInv'
<1> spent \in Nat
  BY DEF TypeOK
<1>1. ASSUME NEW order \in world.orders, OrderRead(c, order) PROVE ChargeInv'
  <2>1. PICK s \in Reads(c) : Holds(c, order, s)
    BY <1>1 DEF OrderRead
  <2>2. s \in Stored /\ Within(s, spent)
    BY ReadsType, ReadsWithin
  <2>3. \A d \in Containers : Within(copy'[d], spent)
    BY <2>1, <2>2, HoldsWithinSpent
  <2> QED BY <1>1, <2>3, QuietCharge DEF OrderRead, ghost
<1>2. CASE Terminate(c) \/ Resume(c)
  <2>1. copy[c] \in Session /\ copy[c].cost <= spent /\ spent' = spent
    BY <1>2, HoldsSession, SessionIsSomething DEF Terminate, Resume, At, ChargeInv, Within, ghost
  <2>2. PICK h \in Halts : Saves(c, [copy[c] EXCEPT !.halt = h], TRUE)
    BY <1>2 DEF Terminate, Resume, Halts
  <2>3. [copy[c] EXCEPT !.halt = h] \in Session /\ [copy[c] EXCEPT !.halt = h].cost <= spent
    BY <2>1, UpdatedSession DEF Session
  <2>4. \A d \in Containers : Within(copy'[d], spent)
    BY <1>2, DropsWithinSpent DEF Terminate, Resume, Answers
  <2> QED BY <2>1, <2>2, <2>3, <2>4, WriteSameTotal
<1>3. CASE Crash(c)
  <2>1. \A d \in Containers : Within(copy'[d], spent)
    BY <1>3, DropsWithinSpent DEF Crash, Answers
  <2>2. \A d \in Containers : Within(mem'[d], spent)
    BY <1>3 DEF Crash, ChargeInv, Within, TypeOK
  <2> QED BY <1>3, <2>1, <2>2 DEF Crash, ChargeInv, Within, ghost
<1> QED BY <1>1, <1>2, <1>3 DEF Operate

(* No row, memory or copy charges a session more than its approved calls     *)
(* cost, whatever updates are lost, reads stale or store calls failed.       *)
THEOREM NothingOvercharged == Spec => []NeverOvercharged
<1>1. Init => ChargeInv
  BY DEF Init, ChargeInv, Within
<1>2. TypeOK /\ ChargeInv /\ [Next]_vars => ChargeInv'
  <2> SUFFICES ASSUME TypeOK, ChargeInv, [Next]_vars PROVE ChargeInv'
    OBVIOUS
  <2>1. CASE UNCHANGED vars
    BY <2>1 DEF vars, store, local, ghost, ChargeInv, Within
  <2> QED BY <2>1, JudgeCharge, OperateCharge, WorldFits DEF Next
<1>3. ChargeInv => NeverOvercharged
  BY DEF ChargeInv, Within, NeverOvercharged
<1> QED BY <1>1, <1>2, <1>3, TypeCorrect, PTL DEF Spec

-----------------------------------------------------------------------------
(* A ROW NOBODY RESUMES                                                      *)

(* Reads see the last write, and nobody resumes.                             *)
KillOnly == Fresh /\ "resume" \notin world.orders

(* The strengthening: nobody remembers a session the table does not have, a  *)
(* halt seen is a halt still there, and the forced retry is only reached,    *)
(* and only ever writes, a halted row.                                       *)
Absence ==
  row = Nothing => \A c \in Containers : mem[c] = Nothing /\ pc[c] \in {"idle", "create"}

HaltSeen(c) ==
  /\ pc[c] # "resume"
  /\ pc[c] \in {"reread", "force_save"} => Halted(row)
  /\ pc[c] = "force_save" => Halted(copy[c])
  /\ Halted(copy[c]) => Halted(row)
  /\ pc[c] = "create" => copy[c] = NewSession

HaltInv == Absence /\ \A c \in Containers : HaltSeen(c)

(* With fresh reads and no store faults a read returns the row.              *)
LEMMA ReadsTheRow ==
  ASSUME KillOnly, HaltInv, NEW c \in Containers, NEW s \in Reads(c)
  PROVE  s = row
BY DEF KillOnly, Fresh, HaltInv, Absence, Reads, FromTable

(* Every write reaches the table.                                            *)
LEMMA SavesToTable ==
  ASSUME Fresh, TypeOK, NEW c \in Containers, NEW s \in Session, NEW force \in BOOLEAN,
         Saves(c, s, force)
  PROVE  /\ row' \in Session
         /\ Halted(row') <=> Halted(s)
         /\ force \/ ~Halted(row)
<1>1. row' = Item(s) /\ (force \/ ~Halted(row))
  BY DEF Fresh, Saves, Stores, FallsBack, Writable
<1> QED BY <1>1, ItemType, HaltedItem

(* ... and a conflict means that the table holds a halted row.               *)
LEMMA ConflictMeansHalted ==
  ASSUME Fresh, NEW c \in Containers, Conflicts(c)
  PROVE  Halted(row) /\ row' = row
BY DEF Fresh, Conflicts, store

(* A step is one container's: the others stay where they are.               *)
LEMMA OthersKeep ==
  ASSUME TypeOK, NEW c \in Containers, Judge(c) \/ Operate(c) \/ Crash(c)
  PROVE  \A d \in Containers : d # c =>
           pc'[d] = pc[d] /\ copy'[d] = copy[d] /\ req'[d] = req[d]
BY DEF Judge, Operate, Crash, Load, Create, Freeze, Refuse, Halt, Approve, Renders,
   RecordRead, RecordSave, Reread, ForceSave, Recorded, OrderRead, Terminate, Resume,
   Answers, Holds, TypeOK

(* A halted row stays halted: OpeningStep leaves two ways out, and HaltInv   *)
(* closes both.                                                              *)
LEMMA HaltedStays ==
  ASSUME KillOnly, TypeOK, HaltInv, [Next]_vars, Halted(row)
  PROVE  Halted(row')
<1> SUFFICES ASSUME ~Halted(row') PROVE FALSE
  OBVIOUS
<1>1. PICK c \in Containers : pc[c] \in {"resume", "force_save"} /\ pc'[c] = "idle"
  BY OpeningStep
<1>2. pc[c] = "force_save" /\ Halted(copy[c])
  BY <1>1 DEF HaltInv, HaltSeen
<1>3. PICK d \in Containers : Judge(d) \/ Operate(d) \/ Crash(d)
  BY WorldFits DEF Next, vars, store
<1>4. pc'[c] # pc[c]
  BY <1>1, <1>2
<1>5. c = d
  BY <1>3, <1>4, OthersKeep
<1>6. ForceSave(c) \/ Crash(c)
  BY <1>2, <1>3, <1>5 DEF Judge, Operate, Load, Create, Freeze, Refuse, Halt, Approve,
     RecordRead, RecordSave, Reread, OrderRead, Terminate, Resume, At
<1>7. copy[c] \in Session
  BY <1>2, HoldsSession
<1>8. CASE ForceSave(c)
  BY <1>2, <1>7, <1>8, SavesToTable DEF KillOnly, ForceSave
<1>9. CASE Crash(c)
  BY <1>9 DEF Crash
<1> QED BY <1>6, <1>8, <1>9

(* A step of a request leaves the store alone or writes one session to it.   *)
LEMMA StoreStep ==
  ASSUME TypeOK, NEW c \in Containers, Judge(c) \/ Operate(c)
  PROVE  UNCHANGED store \/ \E s \in Session, force \in BOOLEAN : Saves(c, s, force)
<1>1. CASE Create(c) \/ RecordSave(c) \/ ForceSave(c)
  <2>1. copy[c] \in Session /\ Halted(copy[c]) \in BOOLEAN
    BY <1>1, HoldsSession DEF Create, RecordSave, ForceSave, At, Halted
  <2> QED BY <1>1, <2>1 DEF Create, RecordSave, ForceSave, Conflicts
<1>2. CASE Halt(c) \/ Terminate(c) \/ Resume(c)
  <2>1. copy[c] \in Session
    BY <1>2, HoldsSession DEF Halt, Terminate, Resume, At
  <2>2. PICK h \in Halts : Saves(c, [copy[c] EXCEPT !.halt = h], TRUE)
    BY <1>2 DEF Halt, HaltBy, Terminate, Resume, Halts
  <2> QED BY <2>1, <2>2, UpdatedSession
<1>3. CASE Approve(c)
  <2>1. copy[c] \in Session /\ req[c].cost \in Nat
    BY <1>3, HoldsSession, SessionAssumption DEF Approve, At, TypeOK, Request
  <2>2. [copy[c] EXCEPT !.cost = @ + req[c].cost] \in Session
    BY <2>1, UpdatedSession
  <2> QED BY <1>3, <2>2 DEF Approve, Conflicts
<1>4. CASE \/ \E r \in world.requests : Load(c, r)
           \/ Freeze(c) \/ Refuse(c) \/ RecordRead(c) \/ Reread(c)
           \/ \E order \in world.orders : OrderRead(c, order)
  BY <1>4 DEF Load, Freeze, Refuse, RecordRead, Reread, OrderRead
<1> QED BY <1>1, <1>2, <1>3, <1>4 DEF Judge, Operate

(* A row once written is never absent again.                                 *)
LEMMA PresenceStays ==
  ASSUME TypeOK, NEW c \in Containers, Judge(c) \/ Operate(c) \/ Crash(c), row # Nothing
  PROVE  row' # Nothing
<1>1. ASSUME NEW s \in Session, NEW force \in BOOLEAN, Saves(c, s, force) PROVE row' # Nothing
  BY <1>1, ItemType, SessionIsSomething DEF Saves, Stores, FallsBack
<1> QED BY <1>1, StoreStep DEF Crash, store

(* While there is no row, every step leaves nobody remembering one.          *)
LEMMA AbsenceStep ==
  ASSUME KillOnly, TypeOK, HaltInv, NEW c \in Containers,
         Judge(c) \/ Operate(c) \/ Crash(c)
  PROVE  Absence'
<1> SUFFICES ASSUME row' = Nothing
             PROVE  \A d \in Containers : mem'[d] = Nothing /\ pc'[d] \in {"idle", "create"}
  BY DEF Absence
<1>1. row = Nothing
  BY PresenceStays
<1>2. \A d \in Containers : mem[d] = Nothing /\ pc[d] \in {"idle", "create"}
  BY <1>1 DEF HaltInv, Absence
<1>3. CASE \E r \in world.requests : Load(c, r)
  <2>1. PICK s \in Reads(c) :
          IF s = Nothing THEN Holds(c, "create", NewSession) ELSE Holds(c, "gates", s)
    BY <1>3 DEF Load
  <2>2. Holds(c, "create", NewSession) /\ mem' = mem
    BY <1>1, <1>3, <2>1, ReadsTheRow DEF Load, store
  <2> QED BY <1>2, <2>2 DEF Holds, TypeOK
<1>4. CASE Create(c)
  <2>1. copy[c] \in Session
    BY <1>4, HoldsSession DEF Create, At
  <2>2. ~Saves(c, copy[c], FALSE)
    <3> SUFFICES ASSUME Saves(c, copy[c], FALSE) PROVE FALSE
      OBVIOUS
    <3>1. row' \in Session
      BY <2>1, SavesToTable DEF KillOnly
    <3> QED BY <3>1, SessionIsSomething
  <2>3. ~Conflicts(c)
    BY <1>1, ConflictMeansHalted DEF KillOnly, Halted
  <2> QED BY <1>4, <2>2, <2>3 DEF Create
<1>5. CASE Crash(c)
  BY <1>2, <1>5 DEF Crash, Answers, Holds, TypeOK
<1>6. CASE \E order \in world.orders : OrderRead(c, order)
  BY <1>1, <1>6, ReadsTheRow DEF OrderRead
<1>7. pc[c] \in {"idle", "create"}
  BY <1>2
<1>8. ~(Freeze(c) \/ Refuse(c) \/ Halt(c) \/ Approve(c) \/ RecordRead(c) \/ RecordSave(c)
         \/ Reread(c) \/ ForceSave(c) \/ Terminate(c) \/ Resume(c))
  BY <1>7 DEF Freeze, Refuse, Halt, Approve, RecordRead, RecordSave, Reread, ForceSave,
     Terminate, Resume, At
<1> QED BY <1>3, <1>4, <1>5, <1>6, <1>8 DEF Judge, Operate

(* What the acting container knows of the halt is still true after its step. *)
LEMMA HaltSeenStep ==
  ASSUME KillOnly, TypeOK, HaltInv, NEW c \in Containers,
         Judge(c) \/ Operate(c) \/ Crash(c), Halted(row) => Halted(row')
  PROVE  HaltSeen(c)'
<1> HaltSeen(c) /\ c \in DOMAIN pc /\ c \in DOMAIN copy /\ c \in DOMAIN req
  BY DEF HaltInv, TypeOK
<1>1. ~Halted(Nothing) /\ ~Halted(NewSession)
  BY DEF Halted, NewSession
<1>2. CASE Answers(c)
  BY <1>1, <1>2 DEF HaltSeen, Answers, Holds
<1>3. CASE \E ok \in BOOLEAN : Renders(c, ok)
  BY <1>1, <1>3 DEF HaltSeen, Renders, Holds
<1>4. CASE \E r \in world.requests : Load(c, r)
  <2>1. PICK s \in Reads(c) :
          IF s = Nothing THEN Holds(c, "create", NewSession) ELSE Holds(c, "gates", s)
    BY <1>4 DEF Load
  <2>2. s = row /\ row' = row
    BY <1>4, ReadsTheRow DEF Load, store
  <2> QED BY <1>1, <2>1, <2>2 DEF HaltSeen, Holds
<1>5. CASE Create(c)
  <2>1. CASE Holds(c, "gates", copy[c])
    BY <1>1, <1>5, <2>1 DEF HaltSeen, Holds, Create, At
  <2> QED BY <1>2, <1>5, <2>1 DEF Create
<1>6. CASE RecordRead(c) \/ Reread(c)
  <2>1. row' = row
    BY <1>6 DEF RecordRead, Reread, store
  <2>2. ASSUME NEW s \in Reads(c), s # Nothing
        PROVE  /\ Halted([s EXCEPT !.verdicts = Append(@, pass[c]), !.failed = @ \/ ~pass[c]])
                    <=> Halted(row)
               /\ Halted([s EXCEPT !.verdicts = Append(@, pass[c])]) <=> Halted(row)
    <3>1. s = row /\ s \in Session /\ pass[c] \in BOOLEAN
      BY <2>2, ReadsTheRow, ReadsType DEF Stored, TypeOK
    <3> QED BY <3>1, UpdatedSession, SessionIsSomething DEF Halted, Session
  <2>3. CASE RecordRead(c)
    <3>1. PICK s \in Reads(c) :
            IF s = Nothing THEN Answers(c)
            ELSE Holds(c, "record_save", [s EXCEPT !.verdicts = Append(@, pass[c]),
                                                   !.failed = @ \/ ~pass[c]])
      BY <2>3 DEF RecordRead
    <3> QED BY <1>2, <2>1, <2>2, <3>1 DEF HaltSeen, Holds
  <2>4. CASE Reread(c)
    <3>1. PICK s \in Reads(c) :
            IF s = Nothing THEN Answers(c)
            ELSE Holds(c, "force_save", [s EXCEPT !.verdicts = Append(@, pass[c])])
      BY <2>4 DEF Reread
    <3>2. Halted(row)
      BY <2>4 DEF HaltSeen, Reread, At
    <3> QED BY <1>2, <2>1, <2>2, <3>1, <3>2 DEF HaltSeen, Holds
  <2> QED BY <1>6, <2>3, <2>4
<1>7. CASE RecordSave(c) \/ ForceSave(c)
  <2>1. CASE Conflicts(c) /\ Holds(c, "reread", Nothing)
    <3>1. Halted(row) /\ row' = row
      BY <2>1, ConflictMeansHalted DEF KillOnly
    <3> QED BY <1>1, <2>1, <3>1 DEF HaltSeen, Holds
  <2> QED BY <1>2, <1>7, <2>1 DEF RecordSave, ForceSave, Recorded
<1>8. CASE \E order \in world.orders : OrderRead(c, order)
  <2>1. PICK s \in Reads(c) \ {Nothing} : Holds(c, "terminate", s)
    BY <1>8, WorldFits DEF OrderRead, KillOnly, Order
  <2>2. s = row /\ row' = row
    BY <1>8, <2>1, ReadsTheRow DEF OrderRead, store
  <2> QED BY <2>1, <2>2 DEF HaltSeen, Holds
<1>9. CASE Freeze(c) \/ Refuse(c) \/ Halt(c) \/ Approve(c)
  <2>1. CleanApproval(req[c], copy[c]) \in BOOLEAN
    BY DEF CleanApproval
  <2> QED BY <1>3, <1>9, <2>1 DEF Freeze, Refuse, Halt, Approve
<1>10. CASE Terminate(c) \/ Resume(c) \/ Crash(c)
  BY <1>2, <1>10 DEF Terminate, Resume, Crash
<1> QED BY <1>4, <1>5, <1>6, <1>7, <1>8, <1>9, <1>10 DEF Judge, Operate

(* Every step preserves the strengthening.                                   *)
LEMMA HaltInvStep ==
  ASSUME KillOnly, TypeOK, HaltInv, [Next]_vars
  PROVE  HaltInv'
<1>1. Halted(row) => Halted(row')
  BY HaltedStays
<1>2. CASE UNCHANGED vars
  BY <1>2 DEF HaltInv, HaltSeen, Absence, Halted, vars, store, local
<1>3. ASSUME NEW c \in Containers, Judge(c) \/ Operate(c) \/ Crash(c)
      PROVE  HaltInv'
  <2>1. Absence'
    BY <1>3, AbsenceStep
  <2>2. HaltSeen(c)'
    BY <1>1, <1>3, HaltSeenStep
  <2>3. ASSUME NEW d \in Containers, d # c PROVE HaltSeen(d)'
    <3>1. HaltSeen(d) /\ pc'[d] = pc[d] /\ copy'[d] = copy[d] /\ req'[d] = req[d]
      BY <1>3, <2>3, OthersKeep DEF HaltInv
    <3> QED BY <1>1, <3>1 DEF HaltSeen, Halted
  <2> QED BY <2>1, <2>2, <2>3 DEF HaltInv
<1> QED BY <1>2, <1>3, WorldFits DEF Next

(* So it holds in every state of a behaviour with fresh reads and no resume. *)
LEMMA HaltInvAlways == Spec => [](KillOnly => HaltInv)
<1>1. Init => HaltInv
  BY DEF Init, HaltInv, HaltSeen, Absence, Halted
<1>2. TypeOK /\ (KillOnly => HaltInv) /\ [Next]_vars => (KillOnly => HaltInv)'
  <2> SUFFICES ASSUME TypeOK, KillOnly => HaltInv, [Next]_vars, KillOnly' PROVE HaltInv'
    OBVIOUS
  <2>1. KillOnly
    BY DEF KillOnly, Fresh, Next, vars
  <2> QED BY <2>1, HaltInvStep
<1> QED BY <1>1, <1>2, TypeCorrect, PTL DEF Spec

(* The first write of a row is an open session's.                            *)
LEMMA FirstRowIsOpen ==
  ASSUME KillOnly, TypeOK, HaltInv, [Next]_vars, row = Nothing, row' # Nothing
  PROVE  ~Halted(row')
<1>1. PICK c \in Containers : Judge(c) \/ Operate(c) \/ Crash(c)
  BY WorldFits DEF Next, vars, store
<1>2. pc[c] \in {"idle", "create"}
  BY DEF HaltInv, Absence
<1>3. Create(c)
  BY <1>1, <1>2 DEF Judge, Operate, Crash, Load, OrderRead, Freeze, Refuse, Halt, Approve,
     RecordRead, RecordSave, Reread, ForceSave, Terminate, Resume, At, store
<1>4. copy[c] = NewSession /\ copy[c] \in Session
  BY <1>3, NewSessionType DEF Create, At, HaltInv, HaltSeen
<1>5. Saves(c, copy[c], FALSE)
  BY <1>3 DEF Create, Conflicts, store
<1>6. Halted(row') <=> Halted(copy[c])
  BY <1>4, <1>5, SavesToTable DEF KillOnly
<1> QED BY <1>4, <1>6 DEF Halted, NewSession

-----------------------------------------------------------------------------
(* ONE CONTAINER                                                             *)

(* What a container holds between its read and its write is still the row.   *)
CopyCurrent(c) ==
  /\ pc[c] \notin {"reread", "force_save"}
  /\ pc[c] = "create" => row = Nothing /\ copy[c] = NewSession
  /\ pc[c] \in {"gates", "record_save", "terminate", "resume"} =>
       /\ row # Nothing
       /\ copy[c].halt = row.halt /\ copy[c].cost = row.cost /\ (row.failed => copy[c].failed)
  /\ pc[c] = "record_save" /\ ~pass[c] => copy[c].failed

AloneInv ==
  /\ row = Nothing => spent = 0 /\ ~everFailed /\ \A c \in world.containers : mem[c] = Nothing
  /\ row # Nothing => row.cost = spent /\ (everFailed => row.failed)
  /\ \A c \in world.containers : CopyCurrent(c)

(* A read returns the row, which is nothing where there is none.             *)
LEMMA AloneReads ==
  ASSUME Alone, AloneInv, NEW c \in world.containers, NEW s \in Reads(c)
  PROVE  s = row
BY DEF Alone, Fresh, AloneInv, Reads, FromTable

(* A write puts what it is handed in the row.                                *)
LEMMA AloneSaves ==
  ASSUME Alone,
         NEW c \in world.containers, NEW s \in Session, NEW force \in BOOLEAN, Saves(c, s, force)
  PROVE  /\ row' # Nothing
         /\ row'.halt = s.halt /\ row'.cost = s.cost /\ row'.failed = s.failed
<1>1. row' = Item(s)
  BY DEF Alone, Fresh, Saves, Stores, FallsBack
<1> QED BY <1>1, ItemType, SessionIsSomething

(* A request that is answered, or has only a verdict to record, holds        *)
(* nothing that could be out of date.                                        *)
LEMMA LetsGo ==
  ASSUME Alone, TypeOK, UNCHANGED world,
         NEW c \in world.containers, Answers(c) \/ (\E ok \in BOOLEAN : Renders(c, ok))
  PROVE  \A d \in world.containers : CopyCurrent(d)'
<1>1. pc'[c] \in {"idle", "record"}
  BY WorldFits DEF Answers, Renders, Holds, TypeOK
<1> QED BY <1>1 DEF Alone, CopyCurrent

(* A step that neither writes nor adds to what is remembered.                *)
LEMMA QuietAlone ==
  ASSUME AloneInv, UNCHANGED <<world, row, mem, spent, everFailed>>, \A d \in world.containers : CopyCurrent(d)'
  PROVE  AloneInv'
BY DEF AloneInv

(* A step that writes a row whose cost and marker are up to date.            *)
LEMMA WriteAlone ==
  ASSUME UNCHANGED world, row' # Nothing, row'.cost = spent', everFailed' => row'.failed,
         \A d \in world.containers : CopyCurrent(d)'
  PROVE  AloneInv'
BY DEF AloneInv

(* A session is read, or is about to be made.                                *)
LEMMA LoadAlone ==
  ASSUME Alone, TypeOK, UNCHANGED world, AloneInv,
         NEW c \in world.containers, NEW r \in world.requests, Load(c, r)
  PROVE  AloneInv'
<1>1. UNCHANGED <<row, mem, spent, everFailed>>
  BY DEF Load, store, ghost
<1>2. IF row = Nothing THEN Holds(c, "create", NewSession) ELSE Holds(c, "gates", row)
  BY AloneReads DEF Load
<1>3. CopyCurrent(c)'
  BY <1>1, <1>2, WorldFits DEF Holds, CopyCurrent, TypeOK
<1> QED BY <1>1, <1>3, QuietAlone DEF Alone

(* The row is made: there was none, so it conflicts with nothing.            *)
LEMMA CreateAlone ==
  ASSUME Alone, TypeOK, UNCHANGED world, AloneInv, NEW c \in world.containers, Create(c)
  PROVE  AloneInv'
<1>1. row = Nothing /\ spent = 0 /\ ~everFailed /\ copy[c] = NewSession
  BY DEF AloneInv, CopyCurrent, Create, At
<1>2. UNCHANGED <<spent, everFailed>>
  BY DEF Create, ghost
<1>3. ~Conflicts(c)
  BY <1>1 DEF Alone, Fresh, Conflicts, Halted
<1>4. Saves(c, NewSession, FALSE) /\ Holds(c, "gates", NewSession)
  BY <1>1, <1>3 DEF Create
<1>5. row' # Nothing /\ row'.halt = NewSession.halt /\ row'.cost = NewSession.cost /\ row'.failed = NewSession.failed
  BY <1>4, AloneSaves, NewSessionType
<1>6. CopyCurrent(c)'
  BY <1>4, <1>5, WorldFits DEF Holds, CopyCurrent, TypeOK
<1>7. row'.cost = spent' /\ ~everFailed'
  BY <1>1, <1>2, <1>5 DEF NewSession
<1> QED BY <1>5, <1>6, <1>7, WriteAlone DEF Alone

(* A gate that writes nothing changes nothing.                               *)
LEMMA QuietVerdictAlone ==
  ASSUME Alone, TypeOK, UNCHANGED world, AloneInv,
         NEW c \in world.containers, Freeze(c) \/ Refuse(c)
  PROVE  AloneInv'
<1>1. Renders(c, FALSE) /\ UNCHANGED <<row, mem, spent, everFailed>>
  BY DEF Freeze, Refuse, Renders, store
<1> QED BY <1>1, LetsGo, QuietAlone

(* A halt is put on the session that was read, its cost and marker with it.  *)
LEMMA HaltAlone ==
  ASSUME Alone, TypeOK, UNCHANGED world, AloneInv, NEW c \in world.containers, Halt(c)
  PROVE  AloneInv'
<1>1. copy[c] \in Session /\ row # Nothing /\ copy[c].cost = row.cost /\ (row.failed => copy[c].failed)
  BY HoldsSession, WorldFits DEF Halt, At, AloneInv, CopyCurrent
<1>2. PICK h \in Halts : Saves(c, [copy[c] EXCEPT !.halt = h], TRUE)
  <2>1. HaltBy(req[c], copy[c]) \in Halts
    BY DEF HaltBy, Halts
  <2> QED BY <2>1 DEF Halt
<1> DEFINE s == [copy[c] EXCEPT !.halt = h]
<1>3. s \in Session /\ s.cost = copy[c].cost /\ s.failed = copy[c].failed
  BY <1>1, UpdatedSession DEF Session
<1>4. row' # Nothing /\ row'.cost = s.cost /\ row'.failed = s.failed
  BY <1>2, <1>3, AloneSaves
<1>5. UNCHANGED <<spent, everFailed>> /\ Renders(c, FALSE)
  BY DEF Halt, Renders
<1> HIDE DEF s
<1>6. row'.cost = spent' /\ (everFailed' => row'.failed)
  BY <1>1, <1>3, <1>4, <1>5 DEF AloneInv
<1> QED BY <1>4, <1>5, <1>6, LetsGo, WriteAlone

(* An approval adds its cost to the row and to what was spent.  It cannot    *)
(* be refused: the row is the open one that was read.                        *)
LEMMA ApproveAlone ==
  ASSUME Alone, TypeOK, UNCHANGED world, AloneInv, NEW c \in world.containers, Approve(c)
  PROVE  AloneInv'
<1>1. copy[c] \in Session /\ row # Nothing /\ ~Halted(copy[c])
      /\ copy[c].halt = row.halt /\ copy[c].cost = row.cost /\ (row.failed => copy[c].failed)
  BY HoldsSession, WorldFits DEF Approve, At, AloneInv, CopyCurrent
<1>2. ~Conflicts(c)
  BY <1>1, SessionIsSomething DEF Alone, Fresh, Conflicts, Halted
<1>3. req[c].cost \in Nat
  BY SessionAssumption, WorldFits DEF Approve, At, TypeOK, Request
<1> DEFINE s == [copy[c] EXCEPT !.cost = @ + req[c].cost]
<1>4. s \in Session /\ s.cost = copy[c].cost + req[c].cost /\ s.failed = copy[c].failed
  BY <1>1, <1>3, UpdatedSession DEF Session
<1>5. /\ Saves(c, s, FALSE) /\ Renders(c, CleanApproval(req[c], copy[c]))
      /\ spent' = spent + req[c].cost
  BY <1>2 DEF Approve
<1>6. row' # Nothing /\ row'.cost = s.cost /\ row'.failed = s.failed
  BY <1>4, <1>5, AloneSaves
<1>7. everFailed' = everFailed /\ CleanApproval(req[c], copy[c]) \in BOOLEAN
  BY <1>5 DEF Renders, CleanApproval
<1> HIDE DEF s
<1>8. row'.cost = spent' /\ (everFailed' => row'.failed)
  BY <1>1, <1>4, <1>5, <1>6, <1>7 DEF AloneInv
<1> QED BY <1>5, <1>6, <1>7, <1>8, LetsGo, WriteAlone

(* The verdict is put on the row, and a failing one on its marker as well.   *)
LEMMA RecordReadAlone ==
  ASSUME Alone, TypeOK, UNCHANGED world, AloneInv, NEW c \in world.containers, RecordRead(c)
  PROVE  AloneInv'
<1>1. UNCHANGED <<row, mem, spent, everFailed>>
  BY DEF RecordRead, store, ghost
<1>2. \/ Answers(c)
      \/ /\ row # Nothing /\ UNCHANGED pass
         /\ Holds(c, "record_save", [row EXCEPT !.verdicts = Append(@, pass[c]), !.failed = @ \/ ~pass[c]])
  BY AloneReads DEF RecordRead
<1>3. CASE Answers(c)
  BY <1>1, <1>3, LetsGo, QuietAlone
<1>4. CASE /\ row # Nothing /\ UNCHANGED pass
           /\ Holds(c, "record_save", [row EXCEPT !.verdicts = Append(@, pass[c]), !.failed = @ \/ ~pass[c]])
  <2> DEFINE s == [row EXCEPT !.verdicts = Append(@, pass[c]), !.failed = @ \/ ~pass[c]]
  <2>1. row \in Session /\ pass[c] \in BOOLEAN
    BY <1>4, WorldFits DEF TypeOK, Stored
  <2>2. s.halt = row.halt /\ s.cost = row.cost /\ s.failed = (row.failed \/ ~pass[c])
    BY <2>1 DEF Session
  <2>3. pc'[c] = "record_save" /\ copy'[c] = s /\ row' = row /\ pass' = pass
    BY <1>1, <1>4, WorldFits DEF Holds, TypeOK
  <2> HIDE DEF s
  <2>4. CopyCurrent(c)'
    BY <1>4, <2>2, <2>3 DEF CopyCurrent
  <2> QED BY <1>1, <2>4, QuietAlone DEF Alone
<1> QED BY <1>2, <1>3, <1>4

(* ... and written, marker and all: the retry is never reached.              *)
LEMMA RecordSaveAlone ==
  ASSUME Alone, TypeOK, UNCHANGED world, AloneInv, NEW c \in world.containers, RecordSave(c)
  PROVE  AloneInv'
<1>1. /\ copy[c] \in Session /\ row # Nothing
      /\ copy[c].halt = row.halt /\ copy[c].cost = row.cost /\ (row.failed => copy[c].failed)
      /\ (~pass[c] => copy[c].failed)
  BY HoldsSession, WorldFits DEF RecordSave, At, AloneInv, CopyCurrent
<1>2. ~Conflicts(c) \/ Halted(copy[c])
  BY <1>1, SessionIsSomething DEF Alone, Fresh, Conflicts, Halted
<1>3. Saves(c, copy[c], Halted(copy[c])) /\ Recorded(c) /\ spent' = spent
  BY <1>2 DEF RecordSave
<1>4. row' # Nothing /\ row'.cost = copy[c].cost /\ row'.failed = copy[c].failed
  <2>1. Halted(copy[c]) \in BOOLEAN
    BY DEF Halted
  <2> QED BY <1>1, <1>3, <2>1, AloneSaves
<1>5. row'.cost = spent' /\ (everFailed' => row'.failed)
  BY <1>1, <1>3, <1>4 DEF AloneInv, Recorded
<1> QED BY <1>3, <1>4, <1>5, LetsGo, WriteAlone DEF Recorded

(* What an operator's request has read is the row.                           *)
LEMMA OrderReadAlone ==
  ASSUME Alone, TypeOK, UNCHANGED world, AloneInv,
         NEW c \in world.containers, NEW order \in world.orders, OrderRead(c, order)
  PROVE  AloneInv'
<1>1. UNCHANGED <<row, mem, spent, everFailed>>
  BY DEF OrderRead, store, ghost
<1>2. row # Nothing /\ Holds(c, order, row) /\ order \in {"terminate", "resume"}
  BY AloneReads, WorldFits DEF OrderRead, Order
<1>3. CopyCurrent(c)'
  BY <1>1, <1>2, WorldFits DEF Holds, CopyCurrent, TypeOK
<1> QED BY <1>1, <1>3, QuietAlone DEF Alone

(* The kill switch and the resume change the halt and nothing else.          *)
LEMMA OrderWriteAlone ==
  ASSUME Alone, TypeOK, UNCHANGED world, AloneInv,
         NEW c \in world.containers, Terminate(c) \/ Resume(c)
  PROVE  AloneInv'
<1>1. copy[c] \in Session /\ row # Nothing /\ copy[c].cost = row.cost /\ (row.failed => copy[c].failed)
  BY HoldsSession, WorldFits DEF Terminate, Resume, At, AloneInv, CopyCurrent
<1>2. PICK h \in Halts : Saves(c, [copy[c] EXCEPT !.halt = h], TRUE)
  BY DEF Terminate, Resume, Halts
<1> DEFINE s == [copy[c] EXCEPT !.halt = h]
<1>3. s \in Session /\ s.cost = copy[c].cost /\ s.failed = copy[c].failed
  BY <1>1, UpdatedSession DEF Session
<1>4. row' # Nothing /\ row'.cost = s.cost /\ row'.failed = s.failed
  BY <1>2, <1>3, AloneSaves
<1>5. UNCHANGED <<spent, everFailed>> /\ Answers(c)
  BY DEF Terminate, Resume, ghost
<1> HIDE DEF s
<1>6. row'.cost = spent' /\ (everFailed' => row'.failed)
  BY <1>1, <1>3, <1>4, <1>5 DEF AloneInv
<1> QED BY <1>4, <1>5, <1>6, LetsGo, WriteAlone

(* A container that dies has written all it counted.                         *)
LEMMA CrashAlone ==
  ASSUME Alone, TypeOK, UNCHANGED world, AloneInv, NEW c \in world.containers, Crash(c)
  PROVE  AloneInv'
<1>1. UNCHANGED <<row, spent, everFailed>> /\ Answers(c)
  BY DEF Crash, ghost
<1>2. row = Nothing => \A d \in world.containers : mem'[d] = Nothing
  BY DEF Crash, AloneInv, TypeOK
<1>3. \A d \in world.containers : CopyCurrent(d)'
  BY <1>1, LetsGo
<1> QED BY <1>1, <1>2, <1>3 DEF AloneInv

(* Every step of one container keeps the row and what it holds in step.      *)
LEMMA StepAlone == Alone /\ TypeOK /\ AloneInv /\ [Next]_vars => AloneInv'
<1> SUFFICES ASSUME Alone, TypeOK, AloneInv, [Next]_vars PROVE AloneInv'
  OBVIOUS
<1>1. ASSUME UNCHANGED world, NEW c \in world.containers, Judge(c) PROVE AloneInv'
  <2>1. ~Reread(c) /\ ~ForceSave(c)
    BY DEF AloneInv, CopyCurrent, Reread, ForceSave, At
  <2> QED BY <1>1, <2>1, LoadAlone, CreateAlone, QuietVerdictAlone, HaltAlone, ApproveAlone,
             RecordReadAlone, RecordSaveAlone DEF Judge
<1>2. ASSUME UNCHANGED world, NEW c \in world.containers, Operate(c) PROVE AloneInv'
  BY <1>2, OrderReadAlone, OrderWriteAlone DEF Operate
<1>3. CASE UNCHANGED vars
  BY <1>3 DEF AloneInv, CopyCurrent, vars, store, local, ghost
<1> QED BY <1>1, <1>2, <1>3, CrashAlone DEF Next

(* So they are in step in every state one container serves.                  *)
LEMMA AloneAlways == Spec => [](Alone => AloneInv)
<1>1. Init => AloneInv
  BY InitType, WorldFits DEF Init, AloneInv, CopyCurrent
<1>2. TypeOK /\ (Alone => AloneInv) /\ [Next]_vars => (Alone => AloneInv)'
  <2> SUFFICES ASSUME TypeOK, Alone => AloneInv, [Next]_vars, Alone' PROVE AloneInv'
    OBVIOUS
  <2>1. Alone
    BY DEF Alone, Fresh, Next, vars
  <2> QED BY <2>1, StepAlone
<1> QED BY <1>1, <1>2, TypeCorrect, PTL DEF Spec

(* While one container serves a session and its reads see the last write,    *)
(* the row's total is what the approved calls cost, however often that       *)
(* container dies between two writes and however often it is resumed.        *)
THEOREM TotalIsExact == Spec => []SpendExact
<1>1. (Alone => AloneInv) => SpendExact
  BY DEF AloneInv, SpendExact
<1> QED BY <1>1, AloneAlways, PTL

(* ... and no certificate hides a failure the row once recorded, however     *)
(* few verdicts it keeps.                                                    *)
THEOREM CertificateIsHonest == Spec => []CertificateHonest
<1>1. (Alone => AloneInv) => CertificateHonest
  BY DEF AloneInv, CertificateHonest, Certifiable, Compliant
<1> QED BY <1>1, AloneAlways, PTL

-----------------------------------------------------------------------------
(* THE ROW AND ITS CONTRACT                                                  *)

(* What HaltContract is told of the row has one of its three values.         *)
LEMMA StandingType == Standing \in {"absent", "open", "halted"}
BY DEF Standing

(* Where nobody resumes: nobody is asked to, a halt stays, and a row is      *)
(* written open first.                                                       *)
LEMMA ContractKillOnly ==
  ASSUME KillOnly, KillOnly', TypeOK, HaltInv, HaltInv', [Next]_vars
  PROVE  [Contract!ContractNext]_(Contract!contractVars)
<1> DEFINE asked == Fresh /\ \E c \in world.containers : At(c, "resume")
<1>1. asked = FALSE /\ asked' = FALSE
  <2>1. world' = world
    BY DEF Next, vars
  <2> QED BY <2>1, WorldFits DEF HaltInv, HaltSeen, At
<1>2. Standing = "halted" => Standing' = "halted"
  BY HaltedStays DEF Standing, Halted, KillOnly
<1>3. Standing = "absent" => Standing' \in {"absent", "open"}
  BY FirstRowIsOpen DEF Standing, Halted, KillOnly
<1>4. Standing = "open" => Standing' \in {"open", "halted"}
  <2> SUFFICES ASSUME row # Nothing PROVE row' # Nothing
    BY DEF Standing, KillOnly, Fresh
  <2>1. CASE UNCHANGED vars
    BY <2>1 DEF vars, store
  <2> QED BY <2>1, PresenceStays, WorldFits DEF Next
<1> HIDE DEF asked
<1>5. \/ Standing' = Standing
      \/ Standing = "absent" /\ Standing' = "open"
      \/ Standing = "open" /\ Standing' = "halted"
  BY <1>2, <1>3, <1>4, StandingType
<1> QED BY <1>1, <1>5
     DEF asked, Contract!ContractNext, Contract!contractVars, Contract!Open, Contract!Halt

(* Where one container serves the session: what it resumes is the halted row *)
(* it read, and no verdict of its own is ever written over another's.        *)
LEMMA ContractAlone ==
  ASSUME Alone, TypeOK, AloneInv, AloneInv', UNCHANGED world,
         NEW c \in world.containers, Judge(c) \/ Operate(c) \/ Crash(c)
  PROVE  [Contract!ContractNext]_(Contract!contractVars)
<1> DEFINE asked == Fresh /\ \E d \in world.containers : At(d, "resume")
<1> c \in Containers
  BY WorldFits
<1>1. (asked = (pc[c] = "resume")) /\ (asked' = (pc'[c] = "resume"))
  BY DEF Alone, Fresh, At
<1>2. row # Nothing => row' # Nothing
  BY PresenceStays
<1>3. CASE pc[c] = "resume"
  <2>1. Resume(c) \/ Crash(c)
    BY <1>3 DEF Judge, Operate, Load, Create, Freeze, Refuse, Halt, Approve, RecordRead,
       RecordSave, Reread, ForceSave, OrderRead, Terminate, At
  <2>2. CASE Resume(c)
    <3>1. copy[c] \in Session /\ "none" \in Halts
      BY <1>3, HoldsSession DEF Halts
    <3>2. /\ [copy[c] EXCEPT !.halt = "none"] \in Session
          /\ [copy[c] EXCEPT !.halt = "none"].halt = "none"
      BY <3>1, UpdatedSession DEF Session
    <3>3. row' # Nothing /\ row'.halt = "none"
      BY <2>2, <3>2, AloneSaves DEF Resume
    <3>4. Standing' = "open"
      BY <3>3 DEF Standing, Halted, Alone, Fresh
    <3> HIDE DEF asked
    <3> QED BY <1>1, <1>3, <3>4
         DEF asked, Contract!ContractNext, Contract!Resume
  <2>3. CASE Crash(c)
    <3>1. row' = row /\ pc'[c] = "idle"
      BY <2>3 DEF Crash, Answers, Holds, TypeOK
    <3>2. Standing' = Standing
      BY <3>1 DEF Standing, Halted, Fresh
    <3> HIDE DEF asked
    <3> QED BY <1>1, <1>3, <3>1, <3>2
         DEF asked, Contract!ContractNext, Contract!DropResume
  <2> QED BY <2>1, <2>2, <2>3
<1>4. CASE pc[c] # "resume" /\ pc'[c] = "resume"
  <2>1. PICK order \in world.orders : OrderRead(c, order)
    BY <1>4 DEF Judge, Operate, Crash, Load, Create, Freeze, Refuse, Halt, Approve, Renders,
       RecordRead, RecordSave, Reread, ForceSave, Recorded, Terminate, Resume,
       Answers, Holds, TypeOK, At
  <2>2. order = "resume"
    BY <1>4, <2>1 DEF OrderRead, Holds, TypeOK
  <2>3. row # Nothing /\ Halted(row) /\ row' = row
    BY <2>1, <2>2, AloneReads DEF OrderRead, store
  <2>4. Standing = "halted" /\ Standing' = "halted"
    BY <2>3 DEF Standing, Halted, Alone, Fresh
  <2> HIDE DEF asked
  <2> QED BY <1>1, <1>4, <2>4
       DEF asked, Contract!ContractNext, Contract!AskResume
<1>5. CASE pc[c] # "resume" /\ pc'[c] # "resume"
  <2>1. Halted(row) => Halted(row')
    <3> SUFFICES ASSUME Halted(row), ~Halted(row') PROVE FALSE
      OBVIOUS
    <3>1. [Next]_vars
      BY DEF Next
    <3>2. PICK d \in Containers : pc[d] \in {"resume", "force_save"} /\ pc'[d] = "idle"
      BY <3>1, OpeningStep
    <3>3. d = c
      BY <3>2, OthersKeep
    <3> QED BY <1>5, <3>2, <3>3 DEF AloneInv, CopyCurrent
  <2>2. row = Nothing => ~Halted(row')
    <3> SUFFICES ASSUME row = Nothing PROVE ~Halted(row')
      OBVIOUS
    <3>1. CASE row' = row
      BY <3>1 DEF Halted
    <3>2. CASE row' # row
      <4>1. Create(c)
        BY <3>2 DEF AloneInv, CopyCurrent, Judge, Operate, Crash, Load, OrderRead, Freeze,
           Refuse, Halt, Approve, RecordRead, RecordSave, Reread, ForceSave, Terminate,
           Resume, At, store
      <4>2. Saves(c, NewSession, FALSE)
        BY <3>2, <4>1 DEF Create, Conflicts, store, At, AloneInv, CopyCurrent
      <4>3. row'.halt = NewSession.halt
        BY <4>2, AloneSaves, NewSessionType
      <4> QED BY <4>3 DEF Halted, NewSession
    <3> QED BY <3>1, <3>2
  <2>3. \/ Standing' = Standing
        \/ Standing = "absent" /\ Standing' = "open"
        \/ Standing = "open" /\ Standing' = "halted"
    BY <1>2, <2>1, <2>2 DEF Standing, Halted, Alone, Fresh
  <2> HIDE DEF asked
  <2> QED BY <1>1, <1>5, <2>3
       DEF asked, Contract!ContractNext, Contract!contractVars, Contract!Open, Contract!Halt
<1> QED BY <1>3, <1>4, <1>5

(* No copy any container holds, and no order of their reads and writes,      *)
(* undoes a halt but a resume asked for while it stood: the row implements   *)
(* HaltContract in every behaviour whose reads may lag or fail (of which     *)
(* the contract asks nothing), in which nobody resumes, or in which one      *)
(* container serves the session.  With resumes and two containers it does    *)
(* not: see the run halt_lost.                                               *)
THEOREM RowImplementsContract ==
  ASSUME \A w \in Worlds : \/ w.stale \/ w.faults
                           \/ "resume" \notin w.orders
                           \/ \A c, d \in w.containers : c = d
  PROVE  Spec => HaltContractHolds
<1>1. Init => Contract!ContractInit
  <2> SUFFICES ASSUME Init PROVE Contract!ContractInit
    OBVIOUS
  <2>1. \A c \in world.containers : ~At(c, "resume")
    BY InitType, WorldFits DEF Init, At
  <2> QED BY <2>1 DEF Init, Contract!ContractInit, Standing
<1>2. TypeOK /\ (KillOnly => HaltInv) /\ (KillOnly => HaltInv)'
      /\ (Alone => AloneInv) /\ (Alone => AloneInv)' /\ [Next]_vars
        => [Contract!ContractNext]_(Contract!contractVars)
  <2> SUFFICES ASSUME TypeOK, KillOnly => HaltInv, (KillOnly => HaltInv)',
                      Alone => AloneInv, (Alone => AloneInv)', [Next]_vars
               PROVE  [Contract!ContractNext]_(Contract!contractVars)
    OBVIOUS
  <2>1. UNCHANGED world
    BY DEF Next, vars
  <2>2. ~Fresh \/ KillOnly \/ Alone
    BY DEF TypeOK, Fresh, KillOnly, Alone
  <2>3. CASE ~Fresh
    BY <2>1, <2>3 DEF Standing, Fresh, Contract!contractVars
  <2>4. CASE KillOnly
    <3>1. KillOnly'
      BY <2>1, <2>4 DEF KillOnly, Fresh
    <3> QED BY <2>4, <3>1, ContractKillOnly
  <2>5. CASE Alone
    <3>1. Alone'
      BY <2>1, <2>5 DEF Alone, Fresh
    <3>2. CASE UNCHANGED vars
      BY <3>2 DEF vars, store, local, Standing, Halted, Fresh, At, Contract!contractVars
    <3> QED BY <2>1, <2>5, <3>1, <3>2, ContractAlone DEF Next
  <2> QED BY <2>2, <2>3, <2>4, <2>5
<1> QED BY <1>1, <1>2, TypeCorrect, HaltInvAlways, AloneAlways, PTL
     DEF Spec, HaltContractHolds, Contract!ContractSpec

-----------------------------------------------------------------------------
(* A WATCHED CALL                                                            *)

(* The strengthening: until a halt was lifted, or a put was lost, every halt *)
(* anybody can read or holds is still on the row.                            *)
HaltsKnown ==
  /\ Halted(prev) => Halted(row)
  /\ \A c \in Containers : Halted(mem[c]) \/ Halted(copy[c]) => Halted(row)

WatchInv ==
  /\ ~reopened /\ ~astray => HaltsKnown
  /\ \A c \in Containers :
       /\ pc[c] \in {"idle", "terminate", "resume"} => req[c] = Nothing
       /\ pc[c] = "create" => copy[c] = NewSession

(* A halt that is read is on the row.                                        *)
LEMMA ReadsKnown ==
  ASSUME TypeOK, HaltsKnown, NEW c \in Containers, NEW s \in Reads(c), Halted(s)
  PROVE  Halted(row)
BY DEF HaltsKnown, Reads, FromTable, Halted

(* A write that neither opens the row nor is lost leaves every halt on it.   *)
LEMMA SavesKnown ==
  ASSUME TypeOK, HaltsKnown, NEW c \in Containers, NEW s \in Session, NEW force \in BOOLEAN,
         Saves(c, s, force), ~reopened', ~astray'
  PROVE  /\ Halted(row) => Halted(row')
         /\ Halted(prev') => Halted(row')
         /\ \A d \in Containers : Halted(mem'[d]) => Halted(row')
<1>1. row' = Item(s) /\ prev' = row /\ mem' = [mem EXCEPT ![c] = Item(s)]
      /\ ~(Halted(row) /\ ~Halted(s))
  BY DEF Saves, Stores, FallsBack
<1>2. Halted(row) => Halted(row')
  BY <1>1, HaltedItem
<1> QED BY <1>1, <1>2 DEF HaltsKnown, TypeOK, Halted

(* The history of the row is never forgotten.                                *)
LEMMA HistoryStays ==
  ASSUME TypeOK, [Next]_vars, ~reopened', ~astray'
  PROVE  ~reopened /\ ~astray
<1>1. CASE UNCHANGED vars
  BY <1>1 DEF vars, store
<1>2. ASSUME NEW c \in Containers, Judge(c) \/ Operate(c) PROVE ~reopened /\ ~astray
  BY <1>2, StoreStep DEF Saves, Stores, FallsBack, store
<1>3. ASSUME NEW c \in Containers, Crash(c) PROVE ~reopened /\ ~astray
  BY <1>3 DEF Crash
<1> QED BY <1>1, <1>2, <1>3, WorldFits DEF Next

(* Whatever the step wrote, a halt on the row is on it still, and no store   *)
(* holds a halt the row does not.                                            *)
LEMMA StoresKnown ==
  ASSUME TypeOK, HaltsKnown, NEW c \in Containers, Judge(c) \/ Operate(c) \/ Crash(c),
         ~reopened', ~astray'
  PROVE  /\ Halted(row) => Halted(row')
         /\ Halted(prev') => Halted(row')
         /\ \A d \in Containers : Halted(mem'[d]) => Halted(row')
<1>1. CASE UNCHANGED store
  BY <1>1 DEF store, HaltsKnown
<1>2. CASE \E s \in Session, force \in BOOLEAN : Saves(c, s, force)
  BY <1>2, SavesKnown
<1>3. CASE Crash(c)
  BY <1>3 DEF Crash, HaltsKnown, Halted, TypeOK
<1> QED BY <1>1, <1>2, <1>3, StoreStep

(* A container comes to hold a halted session only by reading one.           *)
LEMMA CopyKnown ==
  ASSUME TypeOK, HaltsKnown, NEW c \in Containers, Judge(c) \/ Operate(c) \/ Crash(c),
         Halted(copy'[c])
  PROVE  Halted(row)
<1>1. ~Halted(Nothing) /\ ~Halted(NewSession)
  BY DEF Halted, NewSession
<1>2. CASE copy'[c] = copy[c]
  BY <1>2 DEF HaltsKnown
<1>3. ~Answers(c) /\ ~(\E ok \in BOOLEAN : Renders(c, ok))
  BY <1>1 DEF Answers, Renders, Holds, TypeOK
<1>4. CASE \E r \in world.requests : Load(c, r)
  <2>1. PICK s \in Reads(c) :
          IF s = Nothing THEN Holds(c, "create", NewSession) ELSE Holds(c, "gates", s)
    BY <1>4 DEF Load
  <2>2. copy'[c] = s
    BY <1>1, <2>1 DEF Holds, TypeOK
  <2> QED BY <2>2, ReadsKnown
<1>5. CASE RecordRead(c) \/ Reread(c)
  <2>1. PICK s \in Reads(c) :
          /\ s # Nothing
          /\ \/ copy'[c] = [s EXCEPT !.verdicts = Append(@, pass[c])]
             \/ copy'[c] = [s EXCEPT !.verdicts = Append(@, pass[c]), !.failed = @ \/ ~pass[c]]
    BY <1>3, <1>5 DEF RecordRead, Reread, Holds, TypeOK
  <2>2. s \in Session /\ copy'[c].halt = s.halt
    BY <2>1, ReadsType DEF Stored, Session
  <2>3. Halted(s)
    BY <2>1, <2>2, SessionIsSomething DEF Halted
  <2> QED BY <2>3, ReadsKnown
<1>6. CASE \E order \in world.orders : OrderRead(c, order)
  <2>1. PICK s \in Reads(c) : copy'[c] = s
    BY <1>6 DEF OrderRead, Holds, TypeOK
  <2> QED BY <2>1, ReadsKnown
<1>7. CASE Create(c)
  <2>1. Holds(c, "gates", copy[c])
    BY <1>3, <1>7 DEF Create
  <2> QED BY <1>2, <2>1 DEF Holds, TypeOK
<1>8. CASE RecordSave(c)
  <2>1. copy'[c] = Nothing
    BY <1>3, <1>8 DEF RecordSave, Recorded, Holds, TypeOK
  <2> QED BY <1>1, <2>1
<1>9. ~(Freeze(c) \/ Refuse(c) \/ Halt(c) \/ ForceSave(c) \/ Terminate(c) \/ Resume(c) \/ Crash(c))
  BY <1>3 DEF Freeze, Refuse, Halt, ForceSave, Recorded, Terminate, Resume, Crash
<1>10. ~Approve(c)
  BY <1>3 DEF Approve, CleanApproval
<1> QED BY <1>4, <1>5, <1>6, <1>7, <1>8, <1>9, <1>10 DEF Judge, Operate

(* A container between requests judges nothing, and one that creates holds   *)
(* the session it has just made.                                             *)
LEMMA RequestKept ==
  ASSUME TypeOK, WatchInv, NEW c \in Containers, Judge(c) \/ Operate(c) \/ Crash(c)
  PROVE  /\ pc'[c] \in {"idle", "terminate", "resume"} => req'[c] = Nothing
         /\ pc'[c] = "create" => copy'[c] = NewSession
<1>1. CASE Answers(c)
  BY <1>1 DEF Answers, Holds, TypeOK
<1>2. CASE \E ok \in BOOLEAN : Renders(c, ok)
  BY <1>2 DEF Renders, Holds, TypeOK
<1>3. CASE \E order \in world.orders : OrderRead(c, order)
  <2>1. PICK order \in world.orders : OrderRead(c, order)
    BY <1>3
  <2>2. order \in {"terminate", "resume"} /\ pc[c] = "idle" /\ req' = req /\ pc'[c] = order
    BY <2>1, WorldFits DEF OrderRead, Order, At, Holds, TypeOK
  <2> QED BY <2>2 DEF WatchInv
<1>4. CASE \/ \E r \in world.requests : Load(c, r)
           \/ Create(c) \/ RecordRead(c) \/ RecordSave(c) \/ Reread(c)
  BY <1>1, <1>4 DEF Load, Create, RecordRead, RecordSave, Recorded, Reread, Holds, TypeOK
<1>5. CASE Freeze(c) \/ Refuse(c) \/ Halt(c) \/ Approve(c)
  BY <1>2, <1>5 DEF Freeze, Refuse, Halt, Approve, CleanApproval
<1>6. CASE ForceSave(c) \/ Terminate(c) \/ Resume(c) \/ Crash(c)
  BY <1>1, <1>6 DEF ForceSave, Recorded, Terminate, Resume, Crash
<1> QED BY <1>3, <1>4, <1>5, <1>6 DEF Judge, Operate

(* Every step keeps both.                                                    *)
LEMMA WatchInvStep == TypeOK /\ WatchInv /\ [Next]_vars => WatchInv'
<1> SUFFICES ASSUME TypeOK, WatchInv, [Next]_vars PROVE WatchInv'
  OBVIOUS
<1>1. CASE UNCHANGED vars
  BY <1>1 DEF WatchInv, HaltsKnown, Halted, vars, store, local
<1>2. ASSUME NEW c \in Containers, Judge(c) \/ Operate(c) \/ Crash(c) PROVE WatchInv'
  <2>1. ASSUME ~reopened', ~astray' PROVE HaltsKnown'
    <3>1. HaltsKnown
      BY <2>1, HistoryStays DEF WatchInv
    <3>2. /\ Halted(row) => Halted(row')
          /\ Halted(prev') => Halted(row')
          /\ \A d \in Containers : Halted(mem'[d]) => Halted(row')
      BY <1>2, <2>1, <3>1, StoresKnown
    <3>3. ASSUME NEW d \in Containers, Halted(copy'[d]) PROVE Halted(row')
      <4>1. CASE d = c
        BY <1>2, <3>1, <3>2, <3>3, <4>1, CopyKnown
      <4>2. CASE d # c
        BY <1>2, <3>1, <3>2, <3>3, <4>2, OthersKeep DEF HaltsKnown
      <4> QED BY <4>1, <4>2
    <3> QED BY <3>2, <3>3 DEF HaltsKnown, Halted
  <2>2. ASSUME NEW d \in Containers
        PROVE  /\ pc'[d] \in {"idle", "terminate", "resume"} => req'[d] = Nothing
               /\ pc'[d] = "create" => copy'[d] = NewSession
    <3>1. CASE d = c
      BY <1>2, <3>1, RequestKept
    <3>2. CASE d # c
      BY <1>2, <3>2, OthersKeep DEF WatchInv
    <3> QED BY <3>1, <3>2
  <2> QED BY <2>1, <2>2 DEF WatchInv
<1> QED BY <1>1, <1>2, WorldFits DEF Next

(* A watched call writes a halted row only where it held a halted one, and   *)
(* that only with its verdict.                                               *)
LEMMA WatchedWrite ==
  ASSUME TypeOK, WatchInv, NEW c \in Containers, Judge(c) \/ Operate(c) \/ Crash(c),
         StepsWatching(c), ~Halted(row), Halted(row')
  PROVE  /\ pc[c] \in {"record_save", "force_save"} /\ row'.halt = copy[c].halt
         /\ Halted(copy[c])
<1>1. row' # row
  OBVIOUS
<1>2. ASSUME NEW s \in Session, NEW force \in BOOLEAN, Saves(c, s, force)
      PROVE  Halted(s) /\ row'.halt = s.halt
  <2>1. row' = Item(s)
    BY <1>1, <1>2 DEF Saves, Stores, FallsBack
  <2> QED BY <2>1, HaltedItem, ItemType
<1>3. ~Create(c)
  <2> SUFFICES ASSUME Create(c) PROVE FALSE
    OBVIOUS
  <2>1. Saves(c, NewSession, FALSE)
    BY <1>1 DEF Create, At, WatchInv, Conflicts, store
  <2> QED BY <1>2, <2>1, NewSessionType DEF Halted, NewSession
<1>4. ~Approve(c)
  <2> SUFFICES ASSUME Approve(c) PROVE FALSE
    OBVIOUS
  <2>1. copy[c] \in Session /\ req[c].cost \in Nat
    BY HoldsSession, SessionAssumption, WorldFits DEF Approve, At, TypeOK, Request
  <2>2. /\ [copy[c] EXCEPT !.cost = @ + req[c].cost] \in Session
        /\ ~Halted([copy[c] EXCEPT !.cost = @ + req[c].cost])
    BY <2>1, UpdatedSession, SessionIsSomething DEF Approve, Halted, Session
  <2> QED BY <1>1, <1>2, <2>2 DEF Approve, Conflicts, store
<1>5. ~Halt(c)
  BY DEF Halt, HaltBy, LoopBreach, BudgetBreach, SteppedOver, StepsWatching
<1>6. ~(\E order \in world.orders : OrderRead(c, order)) /\ ~Terminate(c) /\ ~Resume(c)
  BY DEF WatchInv, StepsWatching, OrderRead, Terminate, Resume, At
<1>7. ~(\/ \E r \in world.requests : Load(c, r)
        \/ Freeze(c) \/ Refuse(c) \/ RecordRead(c) \/ Reread(c) \/ Crash(c))
  BY <1>1 DEF Load, Freeze, Refuse, RecordRead, Reread, Crash, store
<1>8. RecordSave(c) \/ ForceSave(c)
  BY <1>3, <1>4, <1>5, <1>6, <1>7 DEF Judge, Operate
<1>9. copy[c] \in Session /\ Halted(copy[c]) \in BOOLEAN
  BY <1>8, HoldsSession DEF RecordSave, ForceSave, At, Halted
<1>10. Saves(c, copy[c], Halted(copy[c])) \/ Saves(c, copy[c], TRUE)
  BY <1>1, <1>8 DEF RecordSave, ForceSave, Conflicts, store
<1> QED BY <1>2, <1>8, <1>9, <1>10 DEF RecordSave, ForceSave, At

(* In every behaviour - stale reads, store failures, crashes, resumes and    *)
(* any number of containers included - a watched call adds no halt of its    *)
(* own: a halt its verdict puts on an open row is the one that was read, and *)
(* the row is open only because that halt was lifted or a put was lost.      *)
THEOREM WatchingAddsNothing == Spec => WatchingAddsNoHalt
<1>1. Init => WatchInv
  BY DEF Init, WatchInv, HaltsKnown, Halted
<1>2. TypeOK /\ WatchInv /\ [Next]_vars =>
        [\A c \in Containers :
           StepsWatching(c) /\ ~Halted(row) /\ Halted(row') =>
             /\ pc[c] \in {"record_save", "force_save"} /\ row'.halt = copy[c].halt
             /\ reopened \/ astray]_vars
  <2> SUFFICES ASSUME TypeOK, WatchInv, Next, NEW c \in Containers,
                      StepsWatching(c), ~Halted(row), Halted(row')
               PROVE  /\ pc[c] \in {"record_save", "force_save"} /\ row'.halt = copy[c].halt
                      /\ reopened \/ astray
    OBVIOUS
  <2>1. PICK d \in Containers : Judge(d) \/ Operate(d) \/ Crash(d)
    BY WorldFits DEF Next
  <2>2. d = c
    BY <2>1, OthersKeep DEF StepsWatching
  <2>3. /\ pc[c] \in {"record_save", "force_save"} /\ row'.halt = copy[c].halt
        /\ Halted(copy[c])
    BY <2>1, <2>2, WatchedWrite
  <2> QED BY <2>3 DEF WatchInv, HaltsKnown
<1> QED BY <1>1, <1>2, TypeCorrect, WatchInvStep, PTL DEF Spec, WatchingAddsNoHalt
=============================================================================

---------------------------- MODULE ToolCall_proofs ----------------------------
(***************************************************************************)
(* What is proved of the gates one tool call passes, for every value of    *)
(* the constants.  Of the hook: that a machine gives its developer one     *)
(* name, that the nearest configuration file and the owner of the key      *)
(* decide what a call is sent under, that a command let go names only      *)
(* listed paths, and that nothing private leaves in a message.  Of the     *)
(* loop gate: that it misses nothing by forgetting.                        *)
(***************************************************************************)
EXTENDS DeveloperSalt, HookSettings, HookScope, HookGate, LoopGate, SequenceTheorems, WellFoundedInduction, TLAPS

-----------------------------------------------------------------------------
(* ONE NAME FOR A DEVELOPER: for any number of hooks and of faults,        *)
(* whatever an earlier day left.                                           *)

(* What the constants have to be: no process goes by the name of nobody,   *)
(* and what was left is a file.                                            *)
SaltConstants == None \notin Hooks /\ FilesLeft \subseteq Salts /\ MaxFaults \in Nat

(* While no file was taken for unusable or written short: whoever writes   *)
(* has made the empty file that is there, nobody replaces it, and a name   *)
(* that was given is the one on disk.                                      *)
OneInv ==
  ~torn => \A h \in Hooks :
    /\ at[h] # "replace"
    /\ at[h] = "write" => file = Salt(h, "little")
    /\ answer[h] # NoSalt => answer[h] = file /\ Usable

(* Once a name has settled nobody is about to write or to replace it.      *)
SettledInv ==
  settled # NoSalt /\ ~blind =>
    file = settled /\ Usable /\ \A h \in Hooks : at[h] \notin {"write", "replace"}

LEMMA SaltTyped == ASSUME SaltConstants, NEW h \in Hooks, NEW m \in Lengths PROVE Salt(h, m) \in Salts
  BY DEF Salt, Salts, Drawn

LEMMA NoSaltTyped == NoSalt \in Salts /\ NoFile \in Salts /\ NoSalt = NoFile
  BY DEF NoSalt, NoFile, Salt, Salts, Drawn, Lengths

(* A file that can be used is there, and a file somebody made is another   *)
(* than none.                                                              *)
LEMMA UsableIsThere ==
  ASSUME TypeOK PROVE (Usable => file # NoSalt) /\ (Found # NoSalt => Usable /\ Found = file)
  BY DEF TypeOK, Usable, Found, NoSalt, NoFile, Salt, Salts

LEMMA Owned ==
  ASSUME SaltConstants, NEW g \in Hooks, NEW h \in Hooks
  PROVE  /\ Salt(h, "little") # NoFile
         /\ Salt(g, "little") = Salt(h, "little") => g = h
         /\ Salt(h, "whole") # NoSalt
  BY DEF SaltConstants, Salt, NoFile, NoSalt

(* Every reachable state is typed.                                         *)
THEOREM TypeCorrect == ASSUME SaltConstants PROVE SaltSpec => []TypeOK
<1>1. SaltInit => TypeOK
  <2> SUFFICES ASSUME SaltInit PROVE TypeOK  OBVIOUS
  <2>1. file \in Salts /\ answer \in [Hooks -> Salts] /\ settled \in Salts
    BY NoSaltTyped DEF SaltConstants, SaltInit
  <2>2. at \in [Hooks -> Places] /\ faults \in Nat  BY DEF SaltInit, Places
  <2>3. torn \in BOOLEAN /\ blind \in BOOLEAN  BY Zenon DEF SaltInit
  <2> QED  BY <2>1, <2>2, <2>3, Zenon DEF TypeOK
<1>2. TypeOK /\ [SaltNext]_saltVars => TypeOK'
  <2> SUFFICES ASSUME TypeOK, [SaltNext]_saltVars PROVE TypeOK'  OBVIOUS
  <2>0. \A h \in Hooks, m \in Lengths : Salt(h, m) \in Salts  BY SaltTyped
  <2>F. Found \in Salts  BY NoSaltTyped DEF TypeOK, Found
  <2>L. "little" \in Lengths /\ "whole" \in Lengths /\ Short \subseteq Lengths  BY DEF Lengths, Short
  <2>1. faults' \in Nat
    <3>1. faults' = faults \/ faults' = faults + 1
      BY Zenon DEF SaltNext, Start, Look, Create, Write, LookAgain, Replace, Reread, Refused, Killed, Faulty, saltVars
    <3>2. faults \in Nat  BY Zenon DEF TypeOK
    <3> QED  BY <3>1, <3>2
  <2>2. torn' \in BOOLEAN /\ blind' \in BOOLEAN
    <3>1. torn \in BOOLEAN /\ blind \in BOOLEAN  BY Zenon DEF TypeOK
    <3>2. torn' = TRUE \/ torn' = torn
      BY Zenon DEF SaltNext, Start, Look, Create, Write, LookAgain, Mistakes, Replace, Reread, Refused, Killed, saltVars
    <3>3. blind' = blind \/ blind' = (blind \/ Usable)
      BY Zenon DEF SaltNext, Start, Look, Create, Write, LookAgain, Mistakes, Replace, Reread, Refused, Killed, saltVars
    <3>4. (blind \/ Usable) \in BOOLEAN  BY Zenon
    <3> QED  BY <3>1, <3>2, <3>3, <3>4, Zenon
  <2>3. file' \in Salts /\ settled' \in Salts
    <3> USE <2>0, <2>F, <2>L DEF TypeOK
    <3>1. ASSUME NEW h \in Hooks, Start(h) PROVE file' \in Salts /\ settled' \in Salts  BY <3>1 DEF Start
    <3>2. ASSUME NEW h \in Hooks, Create(h) \/ Write(h) \/ Replace(h) PROVE file' \in Salts /\ settled' \in Salts
      BY <3>2 DEF Create, Write, Replace
    <3> QED  BY <3>1, <3>2 DEF SaltNext, Look, LookAgain, Reread, Refused, Killed, saltVars
  <2>4. at' \in [Hooks -> Places]
    BY DEF TypeOK, Places, Goes, Gets, SaltNext, Start, Look, Create, Write, LookAgain, Replace, Reread, Refused, Killed, saltVars
  <2>5. answer' \in [Hooks -> Salts]
    <3>1. answer \in [Hooks -> Salts] /\ file \in Salts  BY Zenon DEF TypeOK
    <3>2. ASSUME NEW h \in Hooks, NEW salt \in Salts, Gets(h, salt) PROVE answer' \in [Hooks -> Salts]
      BY <3>1, <3>2 DEF Gets
    <3>3. ASSUME NEW h \in Hooks, Look(h) \/ LookAgain(h) PROVE answer' \in [Hooks -> Salts]
      BY <3>1, <3>2, <3>3, Zenon DEF Look, LookAgain
    <3>4. ASSUME NEW h \in Hooks, Write(h) \/ Reread(h) PROVE answer' \in [Hooks -> Salts]
      BY <3>2, <3>4, <2>0, <2>F, <2>L, NoSaltTyped, Zenon DEF Write, Reread
    <3> QED  BY <3>1, <3>3, <3>4, Zenon DEF SaltNext, Start, Create, Replace, Refused, Killed, saltVars
  <2> QED  BY <2>1, <2>2, <2>3, <2>4, <2>5, Zenon DEF TypeOK
<1> QED  BY <1>1, <1>2, PTL DEF SaltSpec

(* While nothing was torn, nobody's name changes under them: only the hook *)
(* that made the file writes to it, and only before anybody was given it.  *)
LEMMA OneStep == ASSUME SaltConstants, TypeOK, OneInv, [SaltNext]_saltVars PROVE OneInv'
<1> SUFFICES ASSUME ~torn' PROVE
      \A g \in Hooks : /\ at'[g] # "replace"
                       /\ at'[g] = "write" => file' = Salt(g, "little")
                       /\ answer'[g] # NoSalt => answer'[g] = file' /\ Usable'
  BY DEF OneInv
<1> USE DEF TypeOK, Goes, Gets
<1>0. torn => torn'
  BY DEF SaltNext, Start, Look, Create, Write, LookAgain, Mistakes, Replace, Reread, Refused, Killed, saltVars
<1>I. \A g \in Hooks : /\ at[g] # "replace"
                       /\ at[g] = "write" => file = Salt(g, "little")
                       /\ answer[g] # NoSalt => answer[g] = file /\ Usable
  BY <1>0 DEF OneInv
<1>1. ASSUME NEW h \in Hooks, Start(h) \/ Refused(h) \/ Killed(h) PROVE
        \A g \in Hooks : /\ at'[g] # "replace" /\ (at'[g] = "write" => at[g] = "write")
                         /\ answer' = answer /\ file' = file
  BY <1>1, <1>I DEF Start, Refused, Killed
<1>2. ASSUME NEW h \in Hooks, Look(h) PROVE
        \A g \in Hooks : /\ at'[g] # "replace"
                         /\ at'[g] = "write" => file' = Salt(g, "little")
                         /\ answer'[g] # NoSalt => answer'[g] = file' /\ Usable'
  BY <1>2, <1>I DEF Look, Usable
<1>3. ASSUME NEW h \in Hooks, Create(h) PROVE
        \A g \in Hooks : /\ at'[g] # "replace"
                         /\ at'[g] = "write" => file' = Salt(g, "little")
                         /\ answer'[g] # NoSalt => answer'[g] = file' /\ Usable'
  <2>1. CASE file = NoFile
    <3>1. \A g \in Hooks : at[g] # "write" /\ answer[g] = NoSalt
      BY <2>1, <1>I, Owned, UsableIsThere, NoSaltTyped
    <3> QED  BY <1>3, <2>1, <3>1, <1>I DEF Create
  <2>2. CASE file # NoFile  BY <1>3, <2>2, <1>I DEF Create, Usable
  <2> QED  BY <2>1, <2>2
<1>4. ASSUME NEW h \in Hooks, Write(h) PROVE
        \A g \in Hooks : /\ at'[g] # "replace"
                         /\ at'[g] = "write" => file' = Salt(g, "little")
                         /\ answer'[g] # NoSalt => answer'[g] = file' /\ Usable'
  <2>1. file = Salt(h, "little") /\ file' = Salt(h, "whole")  BY <1>4, <1>I DEF Write
  <2>2. ~Usable /\ Usable'  BY <2>1 DEF Usable, Salt
  <2>3. \A g \in Hooks : (at[g] = "write" => g = h) /\ answer[g] = NoSalt  BY <2>1, <2>2, <1>I, Owned
  <2>4. at' = [at EXCEPT ![h] = "done"] /\ answer' = [answer EXCEPT ![h] = Salt(h, "whole")]  BY <1>4 DEF Write
  <2> QED  BY <2>1, <2>2, <2>3, <2>4, <1>I
<1>5. ASSUME NEW h \in Hooks, LookAgain(h) PROVE
        \A g \in Hooks : /\ at'[g] # "replace"
                         /\ at'[g] = "write" => file' = Salt(g, "little")
                         /\ answer'[g] # NoSalt => answer'[g] = file' /\ Usable'
  BY <1>5, <1>I DEF LookAgain, Mistakes, Usable
<1>6. ASSUME NEW h \in Hooks, Replace(h) PROVE FALSE
  BY <1>6, <1>I DEF Replace
<1>7. ASSUME NEW h \in Hooks, Reread(h) PROVE
        \A g \in Hooks : /\ at'[g] # "replace"
                         /\ at'[g] = "write" => file' = Salt(g, "little")
                         /\ answer'[g] # NoSalt => answer'[g] = file' /\ Usable'
  BY <1>7, <1>I, UsableIsThere DEF Reread, Usable
<1>8. CASE UNCHANGED saltVars  BY <1>8, <1>I DEF saltVars, Usable
<1> QED  BY <1>1, <1>2, <1>3, <1>4, <1>5, <1>6, <1>7, <1>8, <1>I DEF SaltNext, Usable

(* Two hooks that start together give their developer one name, unless one *)
(* of them met a file it could not use or wrote one short.                 *)
THEOREM OneName == ASSUME SaltConstants PROVE SaltSpec => []OneIdentityUnlessTorn
<1>1. SaltInit => OneInv  BY DEF SaltInit, OneInv
<1>2. TypeOK /\ OneInv /\ [SaltNext]_saltVars => OneInv'  BY OneStep
<1>3. OneInv => OneIdentityUnlessTorn  BY DEF OneInv, OneIdentityUnlessTorn, SameIdentity
<1> QED  BY <1>1, <1>2, <1>3, TypeCorrect, PTL DEF SaltSpec

LEMMA SettledStep == ASSUME SaltConstants, TypeOK, SettledInv, [SaltNext]_saltVars PROVE SettledInv'
<1> SUFFICES ASSUME settled' # NoSalt, ~blind' PROVE
      file' = settled' /\ Usable' /\ \A g \in Hooks : at'[g] \notin {"write", "replace"}
  BY DEF SettledInv
<1> USE DEF TypeOK, Goes, Gets
<1>0. blind => blind'
  BY DEF SaltNext, Start, Look, Create, Write, LookAgain, Mistakes, Replace, Reread, Refused, Killed, saltVars
<1>I. settled # NoSalt => file = settled /\ Usable /\ \A g \in Hooks : at[g] \notin {"write", "replace"}
  BY <1>0 DEF SettledInv
<1>1. ASSUME NEW h \in Hooks, Start(h) PROVE
        file' = settled' /\ Usable' /\ \A g \in Hooks : at'[g] \notin {"write", "replace"}
  <2>1. CASE settled = NoSalt
    <3>1. Found # NoSalt /\ settled' = Found /\ \A g \in Hooks : ~AtWork(g)  BY <1>1, <2>1 DEF Start
    <3>2. file = Found /\ Usable  BY <3>1, UsableIsThere
    <3>3. \A g \in Hooks : at[g] \notin {"write", "replace"}  BY <3>1 DEF AtWork
    <3> QED  BY <1>1, <3>1, <3>2, <3>3 DEF Start, Usable
  <2>2. CASE settled # NoSalt  BY <1>1, <2>2, <1>I DEF Start, Usable
  <2> QED  BY <2>1, <2>2
<1>2. ASSUME settled' = settled, NEW h \in Hooks,
             Look(h) \/ Create(h) \/ LookAgain(h) \/ Reread(h) \/ Refused(h) \/ Killed(h) PROVE
        file' = settled' /\ Usable' /\ \A g \in Hooks : at'[g] \notin {"write", "replace"}
  <2>1. file = settled /\ Usable /\ \A g \in Hooks : at[g] \notin {"write", "replace"}  BY <1>2, <1>I
  <2>2. file # NoFile  BY <2>1, UsableIsThere, NoSaltTyped
  <2>3. CASE Look(h)  BY <2>1, <2>3, <1>2 DEF Look, Usable
  <2>4. CASE Create(h)  BY <2>1, <2>2, <2>4, <1>2 DEF Create, Usable
  <2>5. CASE LookAgain(h)  BY <2>1, <2>5, <1>2 DEF LookAgain, Mistakes, Usable
  <2>6. CASE Reread(h)  BY <2>1, <2>6, <1>2 DEF Reread, Usable
  <2>7. CASE Refused(h)  BY <2>1, <2>7, <1>2 DEF Refused, Usable
  <2>8. CASE Killed(h)  BY <2>1, <2>8, <1>2 DEF Killed, Usable
  <2> QED  BY <1>2, <2>3, <2>4, <2>5, <2>6, <2>7, <2>8
<1>3. ASSUME NEW h \in Hooks, Write(h) \/ Replace(h) PROVE FALSE
  <2>1. settled' = settled  BY <1>3 DEF Write, Replace
  <2> QED  BY <1>3, <2>1, <1>I DEF Write, Replace
<1>4. CASE UNCHANGED saltVars  BY <1>4, <1>I DEF saltVars, Usable
<1> QED  BY <1>1, <1>2, <1>3, <1>4 DEF SaltNext, Look, Create, LookAgain, Reread, Refused, Killed

(* A name that has settled stays, whatever fails, unless one hook twice    *)
(* fails to read it.                                                       *)
THEOREM NameSettles == ASSUME SaltConstants PROVE SaltSpec => []SettledForGood
<1>1. SaltInit => SettledInv  BY DEF SaltInit, SettledInv
<1>2. TypeOK /\ SettledInv /\ [SaltNext]_saltVars => SettledInv'  BY SettledStep
<1>3. SettledInv => SettledForGood  BY DEF SettledInv, SettledForGood
<1> QED  BY <1>1, <1>2, <1>3, TypeCorrect, PTL DEF SaltSpec

-----------------------------------------------------------------------------
(* WHAT A CALL IS SENT UNDER: for any folders, checkouts, files, owners    *)
(* and environments, and however far the hook walks up.                    *)

(* A set that holds 0 and the successor of each of its numbers holds them  *)
(* all: its complement would have a least element.                         *)
LEMMA StepByStep ==
  ASSUME NEW S, 0 \in S, \A n \in Nat : n \in S => n + 1 \in S
  PROVE  Nat \subseteq S
<1> DEFINE T == {n \in Nat : n \notin S}
<1>1. SUFFICES ASSUME T # {} PROVE FALSE
  OBVIOUS
<1>2. PICK x \in T : \A y \in T : ~(<<y, x>> \in OpToRel(<, Nat))
  BY <1>1, WFMin, NatLessThanWellFounded, Zenon
<1>3. x \in Nat /\ x \notin S /\ x # 0
  OBVIOUS
<1>4. x - 1 \in Nat /\ x - 1 < x /\ (x - 1) + 1 = x
  BY <1>3
<1>5. x - 1 \notin S
  BY <1>3, <1>4
<1>6. <<x - 1, x>> \in OpToRel(<, Nat)
  BY <1>3, <1>4, Zenon DEF OpToRel
<1> QED BY <1>2, <1>4, <1>5, <1>6

(* What the definition of Climb asks of its recursive function.            *)
Climbs(u, f, far) ==
  u = [k \in 0..far |-> IF k = 0 THEN f ELSE IF u[k - 1] = Top THEN Top ELSE Parent[u[k - 1]]]

LEMMA ClimbExists == ASSUME NEW f PROVE \A far \in Nat : \E u : Climbs(u, f, far)
<1> DEFINE S == {far \in Nat : \E u : Climbs(u, f, far)}
<1>1. 0 \in S
  <2> DEFINE u == [k \in 0..0 |-> f]
  <2>1. Climbs(u, f, 0)
    BY DEF Climbs
  <2> QED BY <2>1
<1>2. ASSUME NEW n \in Nat, n \in S PROVE n + 1 \in S
  <2>1. PICK u : Climbs(u, f, n)
    BY <1>2
  <2> DEFINE next == IF u[n] = Top THEN Top ELSE Parent[u[n]]
             v == [k \in 0..n + 1 |-> IF k = n + 1 THEN next ELSE u[k]]
  <2>2. ASSUME NEW k \in 0..n + 1
        PROVE  v[k] = IF k = 0 THEN f ELSE IF v[k - 1] = Top THEN Top ELSE Parent[v[k - 1]]
    <3>1. CASE k = 0
      BY <3>1, <2>1 DEF Climbs
    <3>2. CASE k = n + 1
      <4>1. v[k] = next /\ v[k - 1] = u[n] /\ k # 0
        BY <3>2
      <4> HIDE DEF v
      <4> QED BY <4>1, <3>2
    <3>3. CASE k \in 1..n
      <4>1. v[k] = u[k] /\ v[k - 1] = u[k - 1] /\ k # 0 /\ k \in 0..n
        BY <3>3
      <4>2. u[k] = IF k = 0 THEN f ELSE IF u[k - 1] = Top THEN Top ELSE Parent[u[k - 1]]
        BY <4>1, <2>1 DEF Climbs
      <4> HIDE DEF v
      <4> QED BY <4>1, <4>2
    <3> QED BY <3>1, <3>2, <3>3
  <2>3. v = [k \in 0..n + 1 |-> IF k = 0 THEN f ELSE IF v[k - 1] = Top THEN Top ELSE Parent[v[k - 1]]]
    <3>1. v = [k \in 0..n + 1 |-> v[k]]
      OBVIOUS
    <3> HIDE DEF v
    <3> QED BY <3>1, <2>2, Zenon
  <2>4. Climbs(v, f, n + 1)
    BY <2>3, Zenon DEF Climbs
  <2> QED BY <2>4
<1>3. Nat \subseteq S
  <2> HIDE DEF S
  <2> QED BY <1>1, <1>2, StepByStep
<1> QED BY <1>3

(* One folder further up at each step, and nothing above the top.          *)
IsWay(u, f, far) ==
  /\ u[0] = f /\ \A k \in 0..far : u[k] \in Folders \cup {Top}
  /\ \A k \in 0..far - 1 : u[k + 1] = IF u[k] = Top THEN Top ELSE Parent[u[k]]

LEMMA ClimbIsWay ==
  ASSUME SettingsFit, NEW f \in Folders, NEW far \in Nat PROVE IsWay(Climb(f, far), f, far)
<1> DEFINE u == CHOOSE w : Climbs(w, f, far)
<1>1. Climbs(u, f, far)
  BY ClimbExists
<1>2. Climb(f, far) = u
  BY Zenon DEF Climb, Climbs
<1> HIDE DEF u
<1>3. u[0] = f /\ \A k \in 1..far : u[k] = IF u[k - 1] = Top THEN Top ELSE Parent[u[k - 1]]
  BY <1>1 DEF Climbs
<1>4. ASSUME NEW k \in 0..far - 1 PROVE u[k + 1] = IF u[k] = Top THEN Top ELSE Parent[u[k]]
  <2>1. k + 1 \in 1..far /\ (k + 1) - 1 = k
    OBVIOUS
  <2> QED BY <1>3, <2>1
<1> DEFINE S == {k \in Nat : k <= far => u[k] \in Folders \cup {Top}}
<1>5. 0 \in S
  BY <1>3
<1>6. ASSUME NEW k \in Nat, k \in S PROVE k + 1 \in S
  BY <1>4, <1>6 DEF SettingsFit
<1>7. Nat \subseteq S
  <2> HIDE DEF S
  <2> QED BY <1>5, <1>6, StepByStep
<1> QED BY <1>2, <1>3, <1>4, <1>7 DEF IsWay

LEMMA TopStays ==
  ASSUME NEW u, NEW f, NEW far \in Nat, IsWay(u, f, far), NEW n \in 0..far, u[n] = Top, NEW k \in n..far
  PROVE  u[k] = Top
<1> DEFINE S == {m \in Nat : n + m <= far => u[n + m] = Top}
<1>1. 0 \in S
  OBVIOUS
<1>2. ASSUME NEW m \in Nat, m \in S PROVE m + 1 \in S
  <2>1. SUFFICES ASSUME n + (m + 1) <= far PROVE u[n + (m + 1)] = Top
    OBVIOUS
  <2>2. n + m \in 0..far - 1 /\ (n + m) + 1 = n + (m + 1) /\ u[n + m] = Top
    BY <1>2, <2>1
  <2> QED BY <2>2 DEF IsWay
<1>3. Nat \subseteq S
  <2> HIDE DEF S
  <2> QED BY <1>1, <1>2, StepByStep
<1>4. k - n \in Nat /\ n + (k - n) = k
  OBVIOUS
<1> QED BY <1>3, <1>4

-----------------------------------------------------------------------------
(* The walk.  No folder that was passed has a configuration file; the one  *)
(* at which it ends is the nearest that has, if that was within reach.     *)

Way == Climb(agentIn, MaxWalkUp)

Passed(n) == \A k \in 0..n - 1 : Way[k] # Top => ~HasFile(Way[k])

Walking(n) == n \in 0..MaxWalkUp /\ ups <= n /\ look = Way[n] /\ Passed(n)

Nearest(n) ==
  /\ n \in 0..MaxWalkUp - 1 /\ Passed(n) /\ Way[n] # Top /\ HasFile(Way[n])
  /\ tree[Way[n]].config.include # NoList => root = Way[n]

WalkInv ==
  /\ agentIn \in Folders
  /\ doing = "find" => ups \in 0..MaxWalkUp /\ Walking(ups)
  /\ doing = "above" => ups \in 0..MaxWalkUp /\ (Passed(MaxWalkUp) \/ \E n \in 0..MaxWalkUp : Walking(n))
  /\ doing \notin {"find", "above"} => Passed(MaxWalkUp) \/ \E n \in 0..MaxWalkUp : Nearest(n)

LEMMA WayIsWay == ASSUME SettingsFit, WalkInv PROVE IsWay(Way, agentIn, MaxWalkUp)
  BY ClimbIsWay DEF WalkInv, Way, SettingsFit

LEMMA WalkEnds ==
  ASSUME SettingsFit, WalkInv, NEW n \in 0..MaxWalkUp, Walking(n), Ended PROVE Passed(MaxWalkUp)
<1>1. PICK u : u = Way
  OBVIOUS
<1>2. IsWay(u, agentIn, MaxWalkUp) /\ MaxWalkUp \in Nat
  BY <1>1, WayIsWay DEF SettingsFit
<1>3. CASE look = Top
  <2>1. u[n] = Top
    BY <1>1, <1>3 DEF Walking
  <2>2. ASSUME NEW k \in 0..MaxWalkUp - 1, u[k] # Top PROVE ~HasFile(u[k])
    <3>1. CASE k < n
      BY <1>1, <1>2, <2>2, <3>1 DEF Walking, Passed
    <3>2. CASE ~(k < n)
      <4>1. k \in n..MaxWalkUp
        BY <1>2, <3>2
      <4> QED BY <1>2, <2>1, <2>2, <4>1, TopStays
    <3> QED BY <3>1, <3>2
  <2> QED BY <1>1, <2>2 DEF Passed
<1>4. CASE ups = MaxWalkUp
  <2>1. n = MaxWalkUp
    BY <1>2, <1>4 DEF Walking
  <2> QED BY <2>1 DEF Walking
<1> QED BY <1>3, <1>4 DEF Ended

(* A folder without a file is passed.                                      *)
LEMMA WalkGoesOn ==
  ASSUME SettingsFit, WalkInv, NEW n \in 0..MaxWalkUp, Walking(n), n < MaxWalkUp, look # Top, ~HasFile(look),
         UNCHANGED <<tree, agentIn>>, look' = Parent[look], NEW m \in Nat, ups' = m, m <= n + 1
  PROVE  Walking(n + 1)'
<1>1. PICK u : u = Way
  OBVIOUS
<1>2. u = Way'
  BY <1>1 DEF Way
<1>3. IsWay(u, agentIn, MaxWalkUp) /\ MaxWalkUp \in Nat
  BY <1>1, WayIsWay DEF SettingsFit
<1>4. n \in 0..MaxWalkUp - 1 /\ n + 1 \in 0..MaxWalkUp
  BY <1>3
<1>5. u[n + 1] = Parent[look]
  BY <1>1, <1>3, <1>4 DEF IsWay, Walking
<1>6. \A k \in 0..n - 1 : u[k] # Top => ~HasFile(u[k])
  BY <1>1 DEF Walking, Passed
<1>7. ~HasFile(u[n])
  BY <1>1 DEF Walking
<1>8. \A k \in 0..(n + 1) - 1 : u[k] # Top => ~HasFile(u[k])
  BY <1>6, <1>7
<1>9. \A k : HasFile(u[k])' = HasFile(u[k])
  BY DEF HasFile
<1>10. Passed(n + 1)'
  BY <1>2, <1>8, <1>9 DEF Passed
<1> QED BY <1>2, <1>4, <1>5, <1>10 DEF Walking

LEMMA WalkStays ==
  ASSUME UNCHANGED <<tree, agentIn>> PROVE \A n : Passed(n)' = Passed(n) /\ Way' = Way
  BY DEF Passed, Way, HasFile

(* The folder found decides.                                               *)
LEMMA WalkFinds ==
  ASSUME SettingsFit, WalkInv, NEW n \in 0..MaxWalkUp, Walking(n), look # Top, HasFile(look),
         UNCHANGED <<tree, agentIn>>, tree[look].config.include # NoList => root' = look
  PROVE  Passed(MaxWalkUp)' \/ \E k \in 0..MaxWalkUp : Nearest(k)'
<1>1. Passed(n)' /\ Way' = Way /\ look = Way[n]
  BY WalkStays DEF Walking
<1>2. MaxWalkUp \in Nat
  BY DEF SettingsFit
<1>3. CASE n = MaxWalkUp
  BY <1>1, <1>3
<1>4. CASE n # MaxWalkUp
  <2>1. n \in 0..MaxWalkUp - 1
    BY <1>2, <1>4
  <2>2. Nearest(n)'
    BY <1>1, <2>1 DEF Nearest, HasFile
  <2> QED BY <2>2
<1> QED BY <1>3, <1>4
LEMMA WalkInit == SettingsFit /\ SettingsInit => WalkInv
<1> SUFFICES ASSUME SettingsFit, SettingsInit PROVE WalkInv
  OBVIOUS
<1>1. MaxWalkUp \in Nat /\ agentIn \in Folders /\ doing = "find" /\ look = agentIn /\ ups = 0
  BY DEF SettingsFit, SettingsInit
<1>2. Way[0] = agentIn
  BY <1>1, ClimbIsWay DEF Way, IsWay
<1> QED BY <1>1, <1>2 DEF WalkInv, Walking, Passed

LEMMA WalkStep == SettingsFit /\ WalkInv /\ [SettingsNext]_settingsVars => WalkInv'
<1> SUFFICES ASSUME SettingsFit, WalkInv, [SettingsNext]_settingsVars PROVE WalkInv'
  OBVIOUS
<1>1. UNCHANGED <<tree, agentIn>> /\ MaxWalkUp \in Nat /\ agentIn \in Folders
  BY DEF SettingsNext, settingsVars, SettingsFit, WalkInv, Find, AboveCheckout, NameProject, Endpoint, Mode, Key,
         Pair, ReadKey, SendIt, Walks, Resolves, Chosen
<1>2. \A n : Passed(n)' = Passed(n)
  BY <1>1, WalkStays
<1>3. CASE Find
  <2>0. PICK n : n = ups
    OBVIOUS
  <2>1. doing = "find" /\ ups \in 0..MaxWalkUp /\ n \in 0..MaxWalkUp /\ Walking(n)
    BY <1>3, <2>0 DEF Find, Walks, WalkInv
  <2>2. CASE Ended
    BY <1>1, <1>2, <1>3, <2>1, <2>2, WalkEnds DEF Find, WalkInv
  <2>3. CASE ~Ended /\ HasFile(look)
    <3>1. doing' = "project" /\ root' = look /\ look # Top
      BY <1>3, <2>3 DEF Find, Ended
    <3>2. Passed(MaxWalkUp)' \/ \E k \in 0..MaxWalkUp : Nearest(k)'
      BY <1>1, <2>1, <2>3, <3>1, WalkFinds
    <3> QED BY <1>1, <3>1, <3>2 DEF WalkInv
  <2>4. CASE ~Ended /\ ~HasFile(look)
    <3>1. look # Top /\ n < MaxWalkUp /\ look' = Parent[look] /\ n + 1 \in 0..MaxWalkUp
      BY <1>1, <1>3, <2>0, <2>1, <2>4 DEF Find, Ended
    <3>2. CASE tree[look].git
      <4>1. doing' = "above" /\ ups' = 0
        BY <1>3, <2>4, <3>2 DEF Find
      <4>2. Walking(n + 1)'
        BY <1>1, <2>1, <2>4, <3>1, <4>1, WalkGoesOn
      <4> QED BY <1>1, <3>1, <4>1, <4>2 DEF WalkInv
    <3>3. CASE ~tree[look].git
      <4>1. doing' = doing /\ ups' = n + 1
        BY <1>3, <2>0, <2>4, <3>3 DEF Find
      <4>2. Walking(n + 1)'
        BY <1>1, <2>1, <2>4, <3>1, <4>1, WalkGoesOn
      <4> QED BY <1>1, <2>1, <3>1, <4>1, <4>2 DEF WalkInv, Walking
    <3> QED BY <3>2, <3>3
  <2> QED BY <2>2, <2>3, <2>4
<1>4. CASE AboveCheckout
  <2>1. doing = "above" /\ ups \in 0..MaxWalkUp /\ (Passed(MaxWalkUp) \/ \E n \in 0..MaxWalkUp : Walking(n))
    BY <1>4 DEF AboveCheckout, Walks, WalkInv
  <2>2. doing' \in {"above", "project"} /\ (doing' = "above" => ups' \in 0..MaxWalkUp)
    BY <1>1, <1>4, <2>1 DEF AboveCheckout, Ended
  <2>3. CASE Passed(MaxWalkUp)
    BY <1>1, <1>2, <2>2, <2>3 DEF WalkInv
  <2>4. CASE ~Passed(MaxWalkUp)
    <3>1. PICK n \in 0..MaxWalkUp : Walking(n)
      BY <2>1, <2>4
    <3>2. ~Ended /\ n # MaxWalkUp
      BY <2>4, <3>1, WalkEnds DEF Walking
    <3>3. look # Top /\ n < MaxWalkUp /\ n + 1 \in 0..MaxWalkUp
      BY <1>1, <3>2 DEF Ended
    <3>4. CASE HasFile(look)
      <4>1. doing' = "project" /\ (tree[look].config.include # NoList => root' = look)
        BY <1>4, <3>2, <3>4 DEF AboveCheckout
      <4>2. Passed(MaxWalkUp)' \/ \E k \in 0..MaxWalkUp : Nearest(k)'
        BY <1>1, <3>1, <3>3, <3>4, <4>1, WalkFinds
      <4> QED BY <1>1, <4>1, <4>2 DEF WalkInv
    <3>5. CASE ~HasFile(look)
      <4>1. doing' = "above" /\ look' = Parent[look] /\ ups' = ups + 1
        BY <1>4, <2>1, <3>2, <3>5 DEF AboveCheckout, Walks
      <4>2. ups' \in 0..MaxWalkUp /\ ups + 1 \in Nat /\ ups + 1 <= n + 1
        BY <1>1, <2>1, <2>2, <3>1, <4>1 DEF Walking
      <4>3. Walking(n + 1)'
        BY <1>1, <3>1, <3>3, <3>5, <4>1, <4>2, WalkGoesOn
      <4> QED BY <1>1, <3>3, <4>1, <4>2, <4>3 DEF WalkInv
    <3> QED BY <3>4, <3>5
  <2> QED BY <2>3, <2>4
<1>5. CASE UNCHANGED <<doing, look, ups, root>>
  BY <1>1, <1>2, <1>5, WalkStays DEF WalkInv, Walking, Nearest, HasFile
<1>6. CASE NameProject \/ Endpoint \/ Mode \/ Key \/ Pair \/ ReadKey \/ SendIt
  <2>1. doing \notin {"find", "above"} /\ doing' \notin {"find", "above"} /\ root' = root
    BY <1>6 DEF NameProject, Endpoint, Mode, Key, Pair, ReadKey, SendIt, Resolves
  <2>2. \A n : Nearest(n)' = Nearest(n)
    BY <1>1, <1>2, <2>1, WalkStays DEF Nearest, HasFile
  <2> QED BY <1>1, <1>2, <2>1, <2>2 DEF WalkInv
<1> QED BY <1>3, <1>4, <1>5, <1>6 DEF SettingsNext, settingsVars

-----------------------------------------------------------------------------
(* What is settled, step by step.  A key or its file is left after the     *)
(* pairing only for an endpoint the owner chose or has paired.             *)

IsSettings == settings =
  [project |-> settings.project, endpoint |-> settings.endpoint, source |-> settings.source, mode |-> settings.mode,
   key |-> settings.key, include |-> settings.include, sent |-> settings.sent]

OwnersEndpoint == settings.endpoint \in {env.endpoint, HomeEndpoint}

CarriedInv ==
  /\ IsSettings /\ env \in Environments
  /\ doing \in {"send", "done"} => settings.include = Repo.include
  /\ doing = "done" /\ settings.sent =>
       settings.include = NoList \/ \E f \in settings.include : Under(fileIn, f)
  /\ doing \in {"mode", "key", "pair", "read", "send", "done"} => (settings.source # "repo" => OwnersEndpoint)
  /\ doing \in {"pair", "read"} => (keyFile # Unset => settings.key = Unset)
  /\ doing = "read" => (settings.key # Unset \/ keyFile # Unset => OwnersEndpoint \/ (keyFile # Unset /\ Paired))
  /\ doing \in {"send", "done"} =>
       (settings.key # Unset => OwnersEndpoint \/ <<settings.endpoint, settings.key>> \in home.trusted)

LEMMA CarriedInit == SettingsInit => CarriedInv
  BY DEF SettingsInit, CarriedInv, IsSettings, NoSettings

LEMMA CarriedStep == SettingsFit /\ CarriedInv /\ [SettingsNext]_settingsVars => CarriedInv'
<1> SUFFICES ASSUME SettingsFit, CarriedInv, [SettingsNext]_settingsVars PROVE CarriedInv'
  OBVIOUS
<1>1. UNCHANGED <<tree, env, home, agentIn, fileIn>> /\ env \in Environments /\ env.endpoint # Bad
  BY DEF SettingsNext, settingsVars, SettingsFit, CarriedInv, Find, AboveCheckout, NameProject, Endpoint, Mode, Key,
         Pair, ReadKey, SendIt, Walks, Resolves, Chosen
<1>2. HomeEndpoint' = HomeEndpoint /\ \A f : Under(fileIn, f)' = Under(fileIn, f)
  BY <1>1 DEF HomeEndpoint, Under, Climb
<1>3. PICK s : s = settings
  OBVIOUS
<1>4. s = [project |-> s.project, endpoint |-> s.endpoint, source |-> s.source, mode |-> s.mode,
           key |-> s.key, include |-> s.include, sent |-> s.sent]
  BY <1>3, Zenon DEF CarriedInv, IsSettings
<1>5. CASE Find \/ AboveCheckout
  <2>1. doing' \in {"find", "above", "project"} /\ settings' = settings
    BY <1>5 DEF Find, AboveCheckout, Walks
  <2> QED BY <1>1, <2>1 DEF CarriedInv, IsSettings
<1>6. CASE NameProject
  <2>1. doing' = "endpoint"
    BY <1>6 DEF NameProject, Resolves
  <2> DEFINE p == FirstOf(env.project, Repo.project, home.project, Unset)
  <2>2. settings' = [s EXCEPT !.project = p]
    BY <1>3, <1>6 DEF NameProject
  <2> HIDE DEF p
  <2>3. IsSettings'
    BY <1>4, <2>2 DEF IsSettings
  <2> QED BY <1>1, <2>1, <2>3 DEF CarriedInv
<1>7. CASE Endpoint
  <2> DEFINE e == FirstOf(env.endpoint, Repo.endpoint, home.endpoint, Default)
             by == IF env.endpoint # Unset THEN "env"
                   ELSE IF Repo.endpoint \notin {Unset, Bad} THEN "repo"
                   ELSE IF home.endpoint \notin {Unset, Bad} THEN "home" ELSE "default"
  <2>1. by # "repo" => e \in {env.endpoint, HomeEndpoint}
    BY <1>1 DEF FirstOf, Otherwise, HomeEndpoint
  <2>2. doing' = "mode" /\ settings' = [s EXCEPT !.endpoint = e, !.source = by]
    BY <1>3, <1>7 DEF Endpoint, Resolves
  <2> HIDE DEF e, by
  <2>3. IsSettings' /\ settings'.endpoint = e /\ settings'.source = by
    BY <1>4, <2>2 DEF IsSettings
  <2>4. OwnersEndpoint' = (e \in {env.endpoint, HomeEndpoint})
    BY <1>1, <1>2, <2>3 DEF OwnersEndpoint
  <2> QED BY <1>1, <2>1, <2>2, <2>3, <2>4 DEF CarriedInv
<1>8. CASE Mode
  <2> DEFINE m == FirstOf(Otherwise(env.mode, IF env.dry THEN "observe" ELSE Unset), Repo.mode, home.mode, "enforce")
  <2>1. doing = "mode" /\ doing' = "key" /\ settings' = [s EXCEPT !.mode = m]
    BY <1>3, <1>8 DEF Mode, Resolves
  <2> HIDE DEF m
  <2>2. IsSettings' /\ settings'.endpoint = s.endpoint /\ settings'.source = s.source
    BY <1>4, <2>1 DEF IsSettings
  <2>3. OwnersEndpoint' = OwnersEndpoint
    BY <1>1, <1>2, <1>3, <2>2 DEF OwnersEndpoint
  <2> QED BY <1>1, <1>3, <2>1, <2>2, <2>3 DEF CarriedInv
<1>9. CASE Key
  <2>1. doing = "key" /\ doing' = "pair" /\ settings' = [s EXCEPT !.key = env.key]
        /\ (keyFile' # Unset => env.key = Unset)
    BY <1>3, <1>9 DEF Key, Resolves
  <2>2. IsSettings' /\ settings'.endpoint = s.endpoint /\ settings'.source = s.source /\ settings'.key = env.key
    BY <1>4, <2>1 DEF IsSettings
  <2>3. OwnersEndpoint' = OwnersEndpoint
    BY <1>1, <1>2, <1>3, <2>2 DEF OwnersEndpoint
  <2> QED BY <1>1, <1>3, <2>1, <2>2, <2>3 DEF CarriedInv
<1>10. CASE Pair
  <2>1. doing = "pair" /\ doing' = "read"
    BY <1>10 DEF Pair, Resolves
  <2>2. IsSettings' /\ settings'.endpoint = s.endpoint /\ settings'.source = s.source
    BY <1>3, <1>4, <1>10 DEF IsSettings, Pair, Withholds
  <2>3. OwnersEndpoint' = OwnersEndpoint
    BY <1>1, <1>2, <1>3, <2>2 DEF OwnersEndpoint
  <2>4. (settings.source # "repo" => OwnersEndpoint) /\ (keyFile # Unset => settings.key = Unset)
    BY <2>1 DEF CarriedInv
  <2>5. CASE settings'.key = Unset /\ keyFile' = Unset
    BY <1>1, <1>3, <2>1, <2>2, <2>3, <2>4, <2>5 DEF CarriedInv
  <2>6. CASE UNCHANGED <<settings, keyFile>> /\ ~(settings'.key = Unset /\ keyFile' = Unset)
    <3>1. settings.source # "repo" \/ settings.endpoint = HomeEndpoint \/ (keyFile # Unset /\ Paired)
      BY <1>3, <1>4, <1>10, <2>6 DEF Pair, Withholds
    <3>2. OwnersEndpoint \/ (keyFile # Unset /\ Paired)
      BY <2>4, <3>1 DEF OwnersEndpoint
    <3>3. Paired' = Paired
      BY <1>1, <2>6 DEF Paired
    <3> QED BY <1>1, <2>1, <2>2, <2>3, <2>4, <2>6, <3>2, <3>3 DEF CarriedInv
  <2>7. (settings'.key = Unset /\ keyFile' = Unset) \/ UNCHANGED <<settings, keyFile>>
    BY <1>3, <1>4, <1>10 DEF Pair, Withholds
  <2> QED BY <2>5, <2>6, <2>7
<1>11. CASE ReadKey
  <2> DEFINE k == IF keyFile = Unset THEN s.key ELSE IF keyFile \in KeyFiles THEN keyFile ELSE Unset
  <2>1. doing = "read" /\ doing' = "send" /\ root' = root
        /\ settings' = [s EXCEPT !.key = k, !.include = Repo.include]
    BY <1>3, <1>11 DEF ReadKey, Resolves
  <2>2. k # Unset => OwnersEndpoint \/ <<s.endpoint, k>> \in home.trusted
    BY <1>3, <2>1 DEF CarriedInv, Paired
  <2> HIDE DEF k
  <2>3. IsSettings' /\ settings'.endpoint = s.endpoint /\ settings'.source = s.source
        /\ settings'.key = k /\ settings'.include = Repo.include
    BY <1>4, <2>1 DEF IsSettings
  <2>4. OwnersEndpoint' = OwnersEndpoint /\ Repo' = Repo
    BY <1>1, <1>2, <1>3, <2>1, <2>3 DEF OwnersEndpoint, Repo
  <2> QED BY <1>1, <1>3, <2>1, <2>2, <2>3, <2>4 DEF CarriedInv
<1>12. CASE SendIt
  <2> DEFINE may == /\ s.project # Unset
                    /\ Under(fileIn, GovernedRoot)
                    /\ s.include = NoList \/ \E f \in s.include : Under(fileIn, f)
  <2>1. doing = "send" /\ doing' = "done" /\ root' = root /\ settings' = [s EXCEPT !.sent = may]
    BY <1>3, <1>12, Zenon DEF SendIt, Resolves
  <2>2. may => s.include = NoList \/ \E f \in s.include : Under(fileIn, f)
    OBVIOUS
  <2> HIDE DEF may
  <2>3. IsSettings' /\ settings'.endpoint = s.endpoint /\ settings'.source = s.source
        /\ settings'.key = s.key /\ settings'.include = s.include /\ settings'.sent = may
    BY <1>4, <2>1 DEF IsSettings
  <2>4. OwnersEndpoint' = OwnersEndpoint /\ Repo' = Repo
    BY <1>1, <1>2, <1>3, <2>1, <2>3 DEF OwnersEndpoint, Repo
  <2>5. settings'.sent => settings'.include = NoList \/ \E f \in settings'.include : Under(fileIn, f)'
    BY <1>2, <2>2, <2>3, Zenon
  <2> QED BY <1>1, <1>3, <2>1, <2>3, <2>4, <2>5 DEF CarriedInv
<1>13. CASE UNCHANGED settingsVars
  BY <1>2, <1>13 DEF settingsVars, CarriedInv, IsSettings, OwnersEndpoint, Paired, Repo
<1> QED BY <1>5, <1>6, <1>7, <1>8, <1>9, <1>10, <1>11, <1>12, <1>13 DEF SettingsNext

(* The walk and what was settled give the two properties.                  *)
LEMMA NearestDecides == SettingsFit /\ WalkInv /\ CarriedInv => NearestListHolds
<1> SUFFICES ASSUME SettingsFit, WalkInv, CarriedInv, doing = "done", settings.sent,
                    NEW k \in 0..MaxWalkUp - 1, Way[k] # Top, HasFile(Way[k]),
                    \A j \in 0..k - 1 : ~HasFile(Way[j])
             PROVE  \/ tree[Way[k]].config.include = NoList
                    \/ \E f \in tree[Way[k]].config.include : Under(fileIn, f)
  BY Zenon DEF NearestListHolds, Way
<1>1. PICK u : u = Way
  OBVIOUS
<1>2. MaxWalkUp \in Nat /\ IsWay(u, agentIn, MaxWalkUp)
  BY <1>1, WayIsWay DEF SettingsFit
<1>3. ~Passed(MaxWalkUp)
  BY DEF Passed
<1>4. PICK n \in 0..MaxWalkUp : Nearest(n)
  BY <1>3 DEF WalkInv
<1>5. n = k
  <2>1. n \in 0..MaxWalkUp - 1 /\ HasFile(u[n]) /\ \A j \in 0..n - 1 : u[j] # Top => ~HasFile(u[j])
    BY <1>1, <1>4 DEF Nearest, Passed
  <2>2. u[k] # Top /\ HasFile(u[k]) /\ \A j \in 0..k - 1 : ~HasFile(u[j])
    BY <1>1
  <2>3. ~(k < n) /\ ~(n < k)
    BY <1>2, <2>1, <2>2
  <2> QED BY <1>2, <2>3
<1>6. CASE tree[Way[k]].config.include # NoList
  <2>1. root = Way[k]
    BY <1>4, <1>5, <1>6 DEF Nearest
  <2>2. root \in Folders
    BY <1>1, <1>2, <2>1 DEF IsWay
  <2>3. root # Unset
    BY <2>2 DEF SettingsFit
  <2>4. settings.include = tree[Way[k]].config.include
    BY <2>1, <2>3 DEF CarriedInv, Repo
  <2> QED BY <2>4, Zenon DEF CarriedInv
<1> QED BY <1>6

LEMMA OwnerDecides == CarriedInv => KeyStaysWithOwner
  BY DEF CarriedInv, KeyStaysWithOwner, OwnersEndpoint

(* The nearest configuration file decides what is sent, and a key goes to  *)
(* nobody its owner did not choose or pair: config_root, _workspace_above, *)
(* resolve_settings, held_back_category.                                   *)
THEOREM OwnersSay == ASSUME SettingsFit PROVE SettingsSpec => []SettingsHold
<1>1. SettingsInit => WalkInv /\ CarriedInv
  BY WalkInit, CarriedInit
<1>2. (WalkInv /\ CarriedInv) /\ [SettingsNext]_settingsVars => (WalkInv /\ CarriedInv)'
  BY WalkStep, CarriedStep
<1>3. WalkInv /\ CarriedInv => SettingsHold
  BY NearestDecides, OwnerDecides DEF SettingsHold
<1> QED BY <1>1, <1>2, <1>3, PTL DEF SettingsSpec

-----------------------------------------------------------------------------
(* A COMMAND THE HOOK LETS GO names only listed paths, for any list, any   *)
(* words and any number of moves.  The hook's folders contain the shell's  *)
(* as long as no move before && failed to take place, and a listed folder  *)
(* holds all that is below it.                                             *)

Place == Seq(Names)

Frame == [cwd : Place, stack : Seq(Place), strayed : BOOLEAN]

HookTyped  == current \in SUBSET Place /\ subshells \in Seq(SUBSET Place) /\ pushed \in Seq(SUBSET Place)
ShellTyped == cwd \in Place /\ stack \in Seq(Place) /\ outer \in Seq(Frame)
FlagsTyped == strayed \in BOOLEAN /\ paired \in BOOLEAN /\ leaves \in BOOLEAN

ScopeTypeOK == HookTyped /\ ShellTyped /\ FlagsTyped /\ verdict \in {"reading", "held back"} /\ moved \in Nat

OnlyListed ==
  /\ \A place \in current : Included(place)
  /\ \A i \in 1..Len(subshells) : \A place \in subshells[i] : Included(place)
  /\ \A i \in 1..Len(pushed) : \A place \in pushed[i] : Included(place)

Followed ==
  /\ strayed \/ cwd \in current
  /\ Len(outer) = Len(subshells)
  /\ \A i \in 1..Len(outer) : outer[i].strayed \/ outer[i].cwd \in subshells[i]

StackFollowed ==
  paired =>
    /\ Len(stack) = Len(pushed)
    /\ \A i \in 1..Len(stack) : stack[i] \in pushed[i]
    /\ \A i \in 1..Len(outer) : outer[i].stack = stack

ScopeInv == ScopeTypeOK /\ (verdict = "reading" => OnlyListed /\ Followed /\ StackFollowed /\ ~leaves)

-----------------------------------------------------------------------------
(* Climbing no step is staying.                                            *)
LEMMA StaysAtZero == ASSUME NEW place \in Place PROVE Above(place, 0) = place
  BY DEF Above, Place

(* A path of typed words from a typed place is one.                        *)
LEMMA PathTyped ==
  ASSUME ScopeAssumption, NEW w \in Word, NEW place \in Place, NEW value \in Names
  PROVE  Path(w, place, value) \in Place
<1> DEFINE from == IF w.from = "variable" THEN Append(place, value) ELSE From(w, place)
<1>1. from \in Place
  BY DEF ScopeAssumption, Place, From
<1>2. Above(from, w.up) \in Place
  <2>1. w.up \in Nat
    BY DEF Word
  <2> HIDE DEF from
  <2> QED BY <1>1, <2>1 DEF Above, Place
<1>3. w.down \in Place
  BY DEF Word, Place
<1> HIDE DEF from
<1>4. Above(from, w.up) \o w.down \in Place
  BY <1>2, <1>3 DEF Place
<1> QED BY <1>4 DEF Path, from

(* Without a variable the hook reads the path the shell does.              *)
LEMMA ReadAsMeant ==
  ASSUME NEW w, NEW place, NEW value, w.from # "variable"
  PROVE  Lands(w, place) = Path(w, place, value)
  BY DEF Lands, Path

(* What lies below a listed place is listed.                               *)
LEMMA ListedBelow ==
  ASSUME ScopeAssumption, NEW place \in Place, NEW rest \in Place, Included(place)
  PROVE  Included(place \o rest)
<1>1. PICK folder \in Listed : Within(place, Root \o folder)
  BY DEF Included
<1>2. Root \o folder \in Place
  BY DEF ScopeAssumption, Place
<1>3. place \o rest \in Place /\ Len(place \o rest) = Len(place) + Len(rest)
      /\ \A i \in 1..Len(place) : (place \o rest)[i] = place[i]
  BY DEF Place
<1>4. Within(place \o rest, Root \o folder)
  BY <1>1, <1>2, <1>3 DEF Within, Place
<1>5. Len(Root) \in Nat /\ Len(place) \in Nat /\ Len(rest) \in Nat
  BY DEF ScopeAssumption, Place
<1> QED BY <1>1, <1>3, <1>4, <1>5 DEF Included

(* A word the hook has read names a listed path, wherever among its        *)
(* folders the shell stands.                                               *)
LEMMA AdmittedIsListed ==
  ASSUME ScopeAssumption, ScopeTypeOK, OnlyListed, NEW w \in Word, NEW value \in Names, Admits(w), cwd \in current
  PROVE  Included(Path(w, cwd, value))
<1> DEFINE r == [w EXCEPT !.form = "plain"]
<1>1. w.down \in Place /\ w.up \in Nat /\ cwd \in Place /\ Included(cwd)
  BY DEF Word, ScopeTypeOK, HookTyped, ShellTyped, OnlyListed, Place
<1>2. CASE w.from = "variable"
  <2>1. w.up = 0
    BY <1>1, <1>2 DEF Admits, Unknown
  <2>2. Append(cwd, value) \in Place /\ Append(cwd, value) = cwd \o <<value>> /\ <<value>> \in Place
    BY <1>1 DEF Place
  <2>3. Path(w, cwd, value) = Append(cwd, value) \o w.down
    BY <1>2, <2>1, <2>2, StaysAtZero DEF Path
  <2>4. Included(cwd \o <<value>>)
    BY <1>1, <2>2, ListedBelow
  <2> QED BY <1>1, <2>2, <2>3, <2>4, ListedBelow
<1>3. CASE w.from # "variable"
  <2>1. r \in Readings(w) /\ r.from = w.from /\ r.up = w.up /\ r.down = w.down
    BY DEF Readings, Word
  <2>2. Bare(r) \/ Included(Lands(r, cwd))
    BY <2>1 DEF Admits, Inside
  <2>3. Lands(r, cwd) = Path(w, cwd, value)
    BY <2>1, <1>3 DEF Lands, Path, From
  <2>4. CASE Bare(r)
    <3>1. w.from = "here" /\ w.up = 0
      BY <2>1, <2>4 DEF Bare
    <3>2. Path(w, cwd, value) = cwd \o w.down
      BY <3>1, <1>1, StaysAtZero DEF Path, From
    <3> QED BY <3>2, <1>1, ListedBelow
  <2> QED BY <2>2, <2>3, <2>4
<1> QED BY <1>2, <1>3

(* Where a move the hook follows may lead is listed.                       *)
LEMMA TargetsListed ==
  ASSUME ScopeAssumption, ScopeTypeOK, NEW w \in Word, NEW value \in Names, Follows(w)
  PROVE  /\ Reaches(w) \in SUBSET Place
         /\ \A place \in Reaches(w) : Included(place)
         /\ cwd \in current => Path(w, cwd, value) \in Reaches(w)
<1>1. w.from # "variable" /\ Admits(w)
  BY DEF Follows, Literal
<1>2. \A place \in current : Lands(w, place) = Path(w, place, value) /\ Path(w, place, value) \in Place
  BY <1>1, ReadAsMeant, PathTyped DEF ScopeTypeOK, HookTyped
<1> QED BY <1>2 DEF Reaches, Follows

(* What remains of a sequence without its last element.                    *)
LEMMA FrontAndLast ==
  ASSUME NEW S, NEW s \in Seq(S), s # <<>>
  PROVE  /\ Last(s) \in S /\ Front(s) \in Seq(S) /\ Len(s) \in Nat /\ Len(s) > 0
         /\ Len(Front(s)) = Len(s) - 1 /\ Last(s) = s[Len(s)]
         /\ \A i \in 1..Len(s) - 1 : Front(s)[i] = s[i]
<1>1. Len(s) \in Nat \ {0} /\ \A i \in 1..Len(s) : s[i] \in S
  BY EmptySeq, LenProperties, ElementOfSeq
<1>2. /\ SubSeq(s, 1, Len(s) - 1) \in Seq(S)
      /\ Len(SubSeq(s, 1, Len(s) - 1)) = IF 1 <= Len(s) - 1 THEN Len(s) - 1 - 1 + 1 ELSE 0
      /\ \A i \in 1..Len(s) - 1 - 1 + 1 : SubSeq(s, 1, Len(s) - 1)[i] = s[1 + i - 1]
  <2> DEFINE n == Len(s) - 1
  <2>1. n \in Int /\ 1 \in Int /\ \A i \in 1..n : s[i] \in S
    BY <1>1
  <2> HIDE DEF n
  <2>2. /\ SubSeq(s, 1, n) \in Seq(S)
        /\ Len(SubSeq(s, 1, n)) = IF 1 <= n THEN n - 1 + 1 ELSE 0
        /\ \A i \in 1..n - 1 + 1 : SubSeq(s, 1, n)[i] = s[1 + i - 1]
    BY <2>1, SubSeqProperties
  <2> QED BY <2>2 DEF n
<1>3. Last(s) \in S /\ Last(s) = s[Len(s)]
  BY <1>1 DEF Last
<1>4. Len(Front(s)) = Len(s) - 1
  <2> DEFINE n == Len(s)  f == Front(s)
  <2>1. n \in Nat \ {0} /\ Len(f) = IF 1 <= n - 1 THEN n - 1 - 1 + 1 ELSE 0
    BY <1>1, <1>2 DEF Front
  <2> HIDE DEF n, f
  <2>2. Len(f) = n - 1
    BY <2>1
  <2> QED BY <2>2 DEF n, f
<1>5. \A i \in 1..Len(s) - 1 : Front(s)[i] = s[i]
  BY <1>1, <1>2 DEF Front
<1>6. Front(s) \in Seq(S)
  BY <1>2 DEF Front
<1> QED BY <1>1, <1>3, <1>4, <1>5, <1>6

LEMMA LongerByOne ==
  ASSUME NEW S, NEW s \in Seq(S), NEW e \in S
  PROVE  /\ Append(s, e) \in Seq(S) /\ Len(s) \in Nat /\ Len(Append(s, e)) = Len(s) + 1
         /\ Append(s, e)[Len(s) + 1] = e
         /\ \A i \in 1..Len(s) : Append(s, e)[i] = s[i]
  BY AppendProperties, LenProperties

-----------------------------------------------------------------------------
LEMMA InitEstablishes == ScopeAssumption /\ ScopeInit => ScopeInv
<1> SUFFICES ASSUME ScopeAssumption, ScopeInit PROVE ScopeInv
  OBVIOUS
<1>1. cwd \in Place /\ current \in SUBSET Place
  BY DEF ScopeInit, ScopeAssumption, Place
<1>2. HookTyped /\ ShellTyped
  BY <1>1, EmptySeq DEF ScopeInit, HookTyped, ShellTyped
<1>3. FlagsTyped /\ verdict \in {"reading", "held back"} /\ moved \in Nat
  BY DEF ScopeInit, FlagsTyped
<1>4. verdict = "reading" => OnlyListed
  BY DEF ScopeInit, OnlyListed
<1>5. Followed /\ StackFollowed
  <2>1. Len(stack) = 0 /\ Len(pushed) = 0 /\ Len(outer) = 0 /\ Len(subshells) = 0 /\ cwd \in current
    BY DEF ScopeInit
  <2>2. Followed
    BY <2>1 DEF Followed
  <2>3. StackFollowed
    BY <2>1 DEF StackFollowed
  <2> QED BY <2>2, <2>3
<1>6. ~leaves
  BY DEF ScopeInit
<1> QED BY <1>2, <1>3, <1>4, <1>5, <1>6 DEF ScopeInv, ScopeTypeOK

LEMMA CountsOn ==
  ASSUME ScopeTypeOK, moved' = moved + 1
  PROVE  moved' \in Nat
<1>1. moved \in Nat
  BY DEF ScopeTypeOK
<1> QED BY <1>1

(* A command that is held back is not sent, wherever it stands.            *)
LEMMA HoldingKeeps ==
  ASSUME ScopeTypeOK, HoldBack, moved' \in Nat
  PROVE  ScopeInv'
<1>1. HookTyped' /\ ShellTyped'
  BY DEF HoldBack, ScopeTypeOK, HookTyped, ShellTyped
<1>2. FlagsTyped' /\ verdict' = "held back"
  BY DEF HoldBack, ScopeTypeOK, FlagsTyped
<1> QED BY <1>1, <1>2 DEF ScopeTypeOK, ScopeInv

LEMMA NameKeeps ==
  ASSUME ScopeAssumption, ScopeInv, NEW w \in Words, NEW value \in Values, Name(w, value)
  PROVE  ScopeInv'
<1> USE DEF ScopeAssumption
<1>1. CASE HoldBack
  BY <1>1, HoldingKeeps DEF Name, ScopeInv, ScopeTypeOK
<1>2. CASE Admits(w) /\ Says(Path(w, cwd, value)) /\ UNCHANGED <<current, subshells, pushed, cwd, stack, outer, strayed, paired>>
  <2>1. ScopeTypeOK /\ OnlyListed /\ Followed /\ StackFollowed /\ ~leaves /\ UNCHANGED <<moved, verdict>>
    BY <1>2 DEF ScopeInv, Name, Reads, Says
  <2>2. ~strayed => Included(Path(w, cwd, value))
    BY <2>1, <1>2, AdmittedIsListed DEF Followed
  <2>3. leaves' = FALSE
    BY <2>1, <2>2, <1>2 DEF Says
  <2>4. ScopeTypeOK'
    <3>1. HookTyped' /\ ShellTyped'
      BY <2>1, <1>2 DEF ScopeTypeOK, HookTyped, ShellTyped
    <3>2. FlagsTyped'
      BY <2>1, <2>3, <1>2 DEF ScopeTypeOK, FlagsTyped
    <3> QED BY <2>1, <3>1, <3>2 DEF ScopeTypeOK
  <2>5. OnlyListed' /\ Followed' /\ StackFollowed'
    BY <2>1, <1>2 DEF OnlyListed, Followed, StackFollowed
  <2> QED BY <2>3, <2>4, <2>5 DEF ScopeInv
<1> QED BY <1>1, <1>2 DEF Name

(* What a cd and a pushd have in common.                                   *)
GoesOn(w, value, and, moves) ==
  /\ Follows(w)
  /\ current' = Standing(Reaches(w), and)
  /\ cwd' = IF moves THEN Path(w, cwd, value) ELSE cwd
  /\ strayed' = (strayed \/ (and /\ ~moves))
  /\ Says(Path(w, cwd, value))

LEMMA GoingKeeps ==
  ASSUME ScopeAssumption, ScopeTypeOK, OnlyListed, Followed, ~leaves,
         NEW w \in Word, NEW value \in Names, NEW and \in BOOLEAN, NEW moves \in BOOLEAN, GoesOn(w, value, and, moves)
  PROVE  /\ current' \in SUBSET Place /\ cwd' \in Place /\ strayed' \in BOOLEAN /\ leaves' = FALSE /\ verdict' = verdict
         /\ \A place \in current' : Included(place)
         /\ strayed' \/ cwd' \in current'
<1>1. /\ Reaches(w) \in SUBSET Place
      /\ \A place \in Reaches(w) : Included(place)
      /\ cwd \in current => Path(w, cwd, value) \in Reaches(w)
  BY TargetsListed DEF GoesOn
<1>2. current' \in SUBSET Place /\ \A place \in current' : Included(place)
  BY <1>1 DEF GoesOn, Standing, ScopeTypeOK, HookTyped, OnlyListed
<1>3. Path(w, cwd, value) \in Place
  BY PathTyped DEF ScopeTypeOK, ShellTyped
<1>4. ~strayed => Included(Path(w, cwd, value))
  BY AdmittedIsListed DEF GoesOn, Follows, Followed
<1>5. strayed' \/ cwd' \in current'
  BY <1>1 DEF GoesOn, Followed, Standing
<1>6. leaves' = FALSE /\ verdict' = verdict
  BY <1>4 DEF GoesOn, Says
<1>7. strayed' \in BOOLEAN
  BY DEF GoesOn, ScopeTypeOK, FlagsTyped
<1>8. cwd' \in Place
  BY <1>3 DEF GoesOn, ScopeTypeOK, ShellTyped
<1> QED BY <1>2, <1>5, <1>6, <1>7, <1>8

LEMMA CdKeeps ==
  ASSUME ScopeAssumption, ScopeInv, NEW w \in Words, NEW value \in Values,
         NEW and \in BOOLEAN, NEW moves \in BOOLEAN, Cd(w, value, and, moves)
  PROVE  ScopeInv'
<1>1. CASE HoldBack
  <2>1. ScopeTypeOK /\ moved' = moved + 1
    BY DEF ScopeInv, Cd, Steps
  <2>2. moved' \in Nat
    BY <2>1, CountsOn
  <2> QED BY <1>1, <2>1, <2>2, HoldingKeeps
<1>2. CASE GoesOn(w, value, and, moves) /\ UNCHANGED <<subshells, pushed, stack, outer, paired>>
  <2>1. ScopeTypeOK /\ OnlyListed /\ Followed /\ StackFollowed /\ ~leaves /\ moved' = moved + 1
    BY DEF ScopeInv, Cd, Steps, Reads
  <2>2. /\ current' \in SUBSET Place /\ cwd' \in Place /\ strayed' \in BOOLEAN /\ leaves' = FALSE /\ verdict' = verdict
        /\ \A place \in current' : Included(place)
        /\ strayed' \/ cwd' \in current'
    BY <1>2, <2>1, GoingKeeps DEF ScopeAssumption
  <2>3. ScopeTypeOK'
    <3>1. HookTyped' /\ ShellTyped'
      BY <2>1, <2>2, <1>2 DEF ScopeTypeOK, HookTyped, ShellTyped
    <3>2. FlagsTyped'
      BY <2>1, <2>2, <1>2 DEF ScopeTypeOK, FlagsTyped
    <3>3. verdict' \in {"reading", "held back"} /\ moved' \in Nat
      BY <2>1, <2>2, CountsOn DEF ScopeTypeOK
    <3> QED BY <3>1, <3>2, <3>3 DEF ScopeTypeOK
  <2>4. OnlyListed' /\ Followed' /\ StackFollowed'
    BY <2>1, <2>2, <1>2 DEF OnlyListed, Followed, StackFollowed
  <2> QED BY <2>2, <2>3, <2>4 DEF ScopeInv
<1> QED BY <1>1, <1>2 DEF Cd, GoesOn

LEMMA PushdKeeps ==
  ASSUME ScopeAssumption, ScopeInv, NEW w \in Words, NEW value \in Values,
         NEW and \in BOOLEAN, NEW moves \in BOOLEAN, Pushd(w, value, and, moves)
  PROVE  ScopeInv'
<1>1. CASE HoldBack
  <2>1. ScopeTypeOK /\ moved' = moved + 1
    BY DEF ScopeInv, Pushd, Steps
  <2>2. moved' \in Nat
    BY <2>1, CountsOn
  <2> QED BY <1>1, <2>1, <2>2, HoldingKeeps
<1>2. CASE /\ GoesOn(w, value, and, moves) /\ pushed' = Append(pushed, current)
           /\ stack' = (IF moves THEN Append(stack, cwd) ELSE stack)
           /\ paired' = (paired /\ moves /\ ~strayed /\ outer = <<>>)
           /\ UNCHANGED <<subshells, outer>>
  <2>1. ScopeTypeOK /\ OnlyListed /\ Followed /\ StackFollowed /\ ~leaves /\ moved' = moved + 1
    BY DEF ScopeInv, Pushd, Steps, Reads
  <2>2. /\ current' \in SUBSET Place /\ cwd' \in Place /\ strayed' \in BOOLEAN /\ leaves' = FALSE /\ verdict' = verdict
        /\ \A place \in current' : Included(place)
        /\ strayed' \/ cwd' \in current'
    BY <1>2, <2>1, GoingKeeps DEF ScopeAssumption
  <2>3. /\ Append(pushed, current) \in Seq(SUBSET Place) /\ Len(pushed) \in Nat /\ Len(Append(pushed, current)) = Len(pushed) + 1
        /\ Append(pushed, current)[Len(pushed) + 1] = current
        /\ \A i \in 1..Len(pushed) : Append(pushed, current)[i] = pushed[i]
    <3> DEFINE S == SUBSET Place
    <3>1. pushed \in Seq(S) /\ current \in S
      BY <2>1 DEF ScopeTypeOK, HookTyped, ShellTyped
    <3> HIDE DEF S
    <3>2. /\ Append(pushed, current) \in Seq(S) /\ Len(pushed) \in Nat /\ Len(Append(pushed, current)) = Len(pushed) + 1
          /\ Append(pushed, current)[Len(pushed) + 1] = current
          /\ \A i \in 1..Len(pushed) : Append(pushed, current)[i] = pushed[i]
      BY <3>1, LongerByOne
    <3> QED BY <3>2 DEF S
  <2>4. /\ Append(stack, cwd) \in Seq(Place) /\ Len(stack) \in Nat /\ Len(Append(stack, cwd)) = Len(stack) + 1
        /\ Append(stack, cwd)[Len(stack) + 1] = cwd
        /\ \A i \in 1..Len(stack) : Append(stack, cwd)[i] = stack[i]
    <3> DEFINE S == Place
    <3>1. stack \in Seq(S) /\ cwd \in S
      BY <2>1 DEF ScopeTypeOK, HookTyped, ShellTyped
    <3> HIDE DEF S
    <3>2. /\ Append(stack, cwd) \in Seq(S) /\ Len(stack) \in Nat /\ Len(Append(stack, cwd)) = Len(stack) + 1
          /\ Append(stack, cwd)[Len(stack) + 1] = cwd
          /\ \A i \in 1..Len(stack) : Append(stack, cwd)[i] = stack[i]
      BY <3>1, LongerByOne
    <3> QED BY <3>2 DEF S
  <2>5. ScopeTypeOK'
    <3>1. HookTyped'
      BY <2>1, <2>2, <2>3, <1>2 DEF ScopeTypeOK, HookTyped
    <3>2. ShellTyped'
      BY <2>1, <2>2, <2>4, <1>2 DEF ScopeTypeOK, ShellTyped
    <3>3. FlagsTyped'
      BY <2>1, <2>2, <1>2 DEF ScopeTypeOK, FlagsTyped
    <3>4. verdict' \in {"reading", "held back"} /\ moved' \in Nat
      BY <2>1, <2>2, CountsOn DEF ScopeTypeOK
    <3> QED BY <3>1, <3>2, <3>3, <3>4 DEF ScopeTypeOK
  <2>6. OnlyListed'
    <3>1. \A i \in 1..Len(pushed') : i \in 1..Len(pushed) \/ i = Len(pushed) + 1
      BY <2>3, <1>2
    <3>2. \A i \in 1..Len(pushed') : \A place \in pushed'[i] : Included(place)
      BY <3>1, <2>1, <2>3, <1>2 DEF OnlyListed
    <3> QED BY <3>2, <2>1, <2>2, <1>2 DEF OnlyListed
  <2>7. Followed'
    BY <2>1, <2>2, <1>2 DEF Followed
  <2>8. StackFollowed'
    <3> SUFFICES ASSUME paired' PROVE StackFollowed'
      BY DEF StackFollowed
    <3>1. paired /\ moves /\ cwd \in current /\ outer' = <<>>
      BY <2>1, <1>2 DEF Followed
    <3>2. Len(stack) = Len(pushed) /\ \A i \in 1..Len(stack) : stack[i] \in pushed[i]
      BY <3>1, <2>1 DEF StackFollowed
    <3>3. Len(stack') = Len(pushed') /\ \A i \in 1..Len(stack') : i \in 1..Len(stack) \/ i = Len(stack) + 1
      BY <3>1, <3>2, <2>3, <2>4, <1>2
    <3>4. \A i \in 1..Len(stack') : stack'[i] \in pushed'[i]
      BY <3>1, <3>2, <3>3, <2>3, <2>4, <1>2
    <3> QED BY <3>1, <3>3, <3>4 DEF StackFollowed
  <2> QED BY <2>2, <2>5, <2>6, <2>7, <2>8 DEF ScopeInv
<1> QED BY <1>1, <1>2 DEF Pushd, GoesOn

LEMMA PopdKeeps ==
  ASSUME ScopeInv, NEW and \in BOOLEAN, NEW moves \in BOOLEAN, Popd(and, moves)
  PROVE  ScopeInv'
<1>1. CASE HoldBack
  <2>1. ScopeTypeOK /\ moved' = moved + 1
    BY DEF ScopeInv, Popd, Steps
  <2>2. moved' \in Nat
    BY <2>1, CountsOn
  <2> QED BY <1>1, <2>1, <2>2, HoldingKeeps
<1>2. CASE /\ pushed # <<>> /\ (moves => stack # <<>>)
           /\ current' = Standing(Last(pushed), and) /\ pushed' = Front(pushed)
           /\ cwd' = (IF moves THEN Last(stack) ELSE cwd)
           /\ stack' = (IF moves THEN Front(stack) ELSE stack)
           /\ strayed' = (strayed \/ (and /\ ~moves) \/ ~paired)
           /\ paired' = (paired /\ moves /\ outer = <<>>)
           /\ UNCHANGED <<verdict, subshells, outer, leaves>>
  <2>1. ScopeTypeOK /\ OnlyListed /\ Followed /\ StackFollowed /\ leaves = FALSE /\ moved' = moved + 1
    BY DEF ScopeInv, Popd, Steps, Reads, ScopeTypeOK, FlagsTyped
  <2>2. /\ Last(pushed) \in SUBSET Place /\ Front(pushed) \in Seq(SUBSET Place) /\ Len(pushed) \in Nat /\ Len(pushed) > 0
        /\ Len(Front(pushed)) = Len(pushed) - 1 /\ Last(pushed) = pushed[Len(pushed)]
        /\ \A i \in 1..Len(pushed) - 1 : Front(pushed)[i] = pushed[i]
    <3> DEFINE S == SUBSET Place
    <3>1. pushed \in Seq(S) /\ pushed # <<>>
      BY <2>1, <1>2 DEF ScopeTypeOK, HookTyped
    <3> HIDE DEF S
    <3>2. /\ Last(pushed) \in S /\ Front(pushed) \in Seq(S) /\ Len(pushed) \in Nat /\ Len(pushed) > 0
          /\ Len(Front(pushed)) = Len(pushed) - 1 /\ Last(pushed) = pushed[Len(pushed)]
          /\ \A i \in 1..Len(pushed) - 1 : Front(pushed)[i] = pushed[i]
      BY <3>1, FrontAndLast
    <3> QED BY <3>2 DEF S
  <2>3. moves => /\ Last(stack) \in Place /\ Front(stack) \in Seq(Place) /\ Len(stack) \in Nat /\ Len(stack) > 0
                 /\ Len(Front(stack)) = Len(stack) - 1 /\ Last(stack) = stack[Len(stack)]
                 /\ \A i \in 1..Len(stack) - 1 : Front(stack)[i] = stack[i]
    <3> SUFFICES ASSUME moves PROVE /\ Last(stack) \in Place /\ Front(stack) \in Seq(Place) /\ Len(stack) \in Nat /\ Len(stack) > 0
                                    /\ Len(Front(stack)) = Len(stack) - 1 /\ Last(stack) = stack[Len(stack)]
                                    /\ \A i \in 1..Len(stack) - 1 : Front(stack)[i] = stack[i]
      OBVIOUS
    <3> HIDE DEF Place
    <3>1. stack \in Seq(Place) /\ stack # <<>>
      BY <2>1, <1>2 DEF ScopeTypeOK, ShellTyped
    <3> QED BY <3>1, FrontAndLast
  <2>4. ScopeTypeOK'
    <3>1. HookTyped'
      BY <2>1, <2>2, <1>2 DEF ScopeTypeOK, HookTyped, Standing
    <3>2. ShellTyped'
      BY <2>1, <2>3, <1>2 DEF ScopeTypeOK, ShellTyped
    <3>3. FlagsTyped'
      BY <2>1, <1>2 DEF ScopeTypeOK, FlagsTyped
    <3>4. verdict' \in {"reading", "held back"} /\ moved' \in Nat
      BY <2>1, <1>2, CountsOn DEF ScopeTypeOK
    <3> QED BY <3>1, <3>2, <3>3, <3>4 DEF ScopeTypeOK
  <2>5. OnlyListed'
    <3>1. \A place \in Last(pushed) : Included(place)
      BY <2>1, <2>2 DEF OnlyListed
    <3>2. \A place \in current' : Included(place)
      BY <3>1, <2>1, <1>2 DEF OnlyListed, Standing
    <3>3. \A i \in 1..Len(pushed') : i \in 1..Len(pushed) /\ pushed'[i] = pushed[i]
      BY <2>2, <1>2
    <3>4. \A i \in 1..Len(pushed') : \A place \in pushed'[i] : Included(place)
      BY <3>3, <2>1 DEF OnlyListed
    <3> QED BY <3>2, <3>4, <2>1, <1>2 DEF OnlyListed
  <2>6. paired /\ moves => Last(stack) \in Last(pushed)
    BY <2>1, <2>2, <2>3 DEF StackFollowed
  <2>7. strayed' \/ cwd' \in current'
    BY <2>1, <2>6, <1>2 DEF Followed, Standing
  <2>8. Followed'
    BY <2>1, <2>7, <1>2 DEF Followed
  <2>9. StackFollowed'
    <3> SUFFICES ASSUME paired' PROVE StackFollowed'
      BY DEF StackFollowed
    <3>1. paired /\ moves /\ outer' = <<>>
      BY <1>2
    <3>2. Len(stack) = Len(pushed) /\ \A i \in 1..Len(stack) : stack[i] \in pushed[i]
      BY <3>1, <2>1 DEF StackFollowed
    <3>3. Len(stack') = Len(pushed')
      BY <3>1, <3>2, <2>2, <2>3, <1>2
    <3>4. \A i \in 1..Len(stack') : i \in 1..Len(stack) /\ stack'[i] = stack[i] /\ pushed'[i] = pushed[i]
      BY <3>1, <3>2, <2>2, <2>3, <1>2
    <3>5. \A i \in 1..Len(stack') : stack'[i] \in pushed'[i]
      BY <3>2, <3>4
    <3> QED BY <3>1, <3>3, <3>5 DEF StackFollowed
  <2> QED BY <2>1, <2>4, <2>5, <2>8, <2>9, <1>2 DEF ScopeInv
<1> QED BY <1>1, <1>2 DEF Popd, Returns

LEMMA OpenKeeps ==
  ASSUME ScopeInv, Open
  PROVE  ScopeInv'
<1> DEFINE left == [cwd |-> cwd, stack |-> stack, strayed |-> strayed]
<1>1. ScopeTypeOK /\ OnlyListed /\ Followed /\ StackFollowed /\ leaves = FALSE /\ moved' = moved + 1
  BY DEF ScopeInv, Open, Steps, Reads, ScopeTypeOK, FlagsTyped
<1>2. /\ subshells' = Append(subshells, current) /\ outer' = Append(outer, left)
      /\ UNCHANGED <<current, pushed, verdict, cwd, stack, strayed, paired, leaves>>
  BY DEF Open
<1>3. /\ Append(subshells, current) \in Seq(SUBSET Place) /\ Len(subshells) \in Nat
      /\ Len(Append(subshells, current)) = Len(subshells) + 1
      /\ Append(subshells, current)[Len(subshells) + 1] = current
      /\ \A i \in 1..Len(subshells) : Append(subshells, current)[i] = subshells[i]
  <2> DEFINE S == SUBSET Place
  <2>1. subshells \in Seq(S) /\ current \in S
    BY <1>1 DEF ScopeTypeOK, HookTyped
  <2> HIDE DEF S
  <2>2. /\ Append(subshells, current) \in Seq(S) /\ Len(subshells) \in Nat
        /\ Len(Append(subshells, current)) = Len(subshells) + 1
        /\ Append(subshells, current)[Len(subshells) + 1] = current
        /\ \A i \in 1..Len(subshells) : Append(subshells, current)[i] = subshells[i]
    BY <2>1, LongerByOne
  <2> QED BY <2>2 DEF S
<1>4. left \in Frame
  BY <1>1 DEF ScopeTypeOK, ShellTyped, FlagsTyped, Frame
<1>5. left.cwd = cwd /\ left.stack = stack /\ left.strayed = strayed
  OBVIOUS
<1> HIDE DEF left
<1>6. /\ Append(outer, left) \in Seq(Frame) /\ Len(outer) \in Nat /\ Len(Append(outer, left)) = Len(outer) + 1
      /\ Append(outer, left)[Len(outer) + 1] = left
      /\ \A i \in 1..Len(outer) : Append(outer, left)[i] = outer[i]
  <2>1. outer \in Seq(Frame)
    BY <1>1 DEF ScopeTypeOK, ShellTyped
  <2> QED BY <2>1, <1>4, LongerByOne
<1>7. ScopeTypeOK'
  <2>1. HookTyped' /\ ShellTyped'
    BY <1>1, <1>2, <1>3, <1>6 DEF ScopeTypeOK, HookTyped, ShellTyped
  <2>2. FlagsTyped'
    BY <1>1, <1>2 DEF ScopeTypeOK, FlagsTyped
  <2>3. verdict' \in {"reading", "held back"} /\ moved' \in Nat
    BY <1>1, <1>2, CountsOn DEF ScopeTypeOK
  <2> QED BY <2>1, <2>2, <2>3 DEF ScopeTypeOK
<1>8. OnlyListed'
  <2>1. \A i \in 1..Len(subshells') : i \in 1..Len(subshells) \/ i = Len(subshells) + 1
    BY <1>2, <1>3
  <2>2. \A i \in 1..Len(subshells') : \A place \in subshells'[i] : Included(place)
    BY <2>1, <1>1, <1>2, <1>3 DEF OnlyListed
  <2> QED BY <2>2, <1>1, <1>2 DEF OnlyListed
<1>9. \A i \in 1..Len(outer') : i \in 1..Len(outer) \/ i = Len(outer) + 1
  BY <1>2, <1>6
<1>10. Followed'
  <2>1. Len(outer) = Len(subshells) /\ (strayed \/ cwd \in current)
        /\ \A i \in 1..Len(outer) : outer[i].strayed \/ outer[i].cwd \in subshells[i]
    BY <1>1 DEF Followed
  <2>2. Len(outer') = Len(subshells')
    BY <2>1, <1>2, <1>3, <1>6
  <2>3. \A i \in 1..Len(outer') : outer'[i].strayed \/ outer'[i].cwd \in subshells'[i]
    BY <2>1, <1>2, <1>3, <1>5, <1>6, <1>9
  <2> QED BY <2>1, <2>2, <2>3, <1>2 DEF Followed
<1>11. StackFollowed'
  BY <1>1, <1>2, <1>5, <1>6, <1>9 DEF StackFollowed
<1> QED BY <1>1, <1>2, <1>7, <1>8, <1>10, <1>11 DEF ScopeInv

LEMMA CloseKeeps ==
  ASSUME ScopeInv, Close
  PROVE  ScopeInv'
<1>1. ScopeTypeOK /\ OnlyListed /\ Followed /\ StackFollowed /\ leaves = FALSE /\ moved' = moved + 1
  BY DEF ScopeInv, Close, Steps, Reads, ScopeTypeOK, FlagsTyped
<1>2. /\ subshells # <<>>
      /\ current' = Last(subshells) /\ subshells' = Front(subshells)
      /\ cwd' = Last(outer).cwd /\ stack' = Last(outer).stack /\ strayed' = Last(outer).strayed /\ outer' = Front(outer)
      /\ UNCHANGED <<pushed, verdict, paired, leaves>>
  BY DEF Close
<1>3. /\ Last(subshells) \in SUBSET Place /\ Front(subshells) \in Seq(SUBSET Place) /\ Len(subshells) \in Nat /\ Len(subshells) > 0
      /\ Len(Front(subshells)) = Len(subshells) - 1 /\ Last(subshells) = subshells[Len(subshells)]
      /\ \A i \in 1..Len(subshells) - 1 : Front(subshells)[i] = subshells[i]
  <2> DEFINE S == SUBSET Place
  <2>1. subshells \in Seq(S) /\ subshells # <<>>
    BY <1>1, <1>2 DEF ScopeTypeOK, HookTyped
  <2> HIDE DEF S
  <2>2. /\ Last(subshells) \in S /\ Front(subshells) \in Seq(S) /\ Len(subshells) \in Nat /\ Len(subshells) > 0
        /\ Len(Front(subshells)) = Len(subshells) - 1 /\ Last(subshells) = subshells[Len(subshells)]
        /\ \A i \in 1..Len(subshells) - 1 : Front(subshells)[i] = subshells[i]
    BY <2>1, FrontAndLast
  <2> QED BY <2>2 DEF S
<1>4. /\ Last(outer) \in Frame /\ Front(outer) \in Seq(Frame) /\ Len(outer) \in Nat /\ Len(outer) > 0
      /\ Len(Front(outer)) = Len(outer) - 1 /\ Last(outer) = outer[Len(outer)]
      /\ \A i \in 1..Len(outer) - 1 : Front(outer)[i] = outer[i]
  <2>1. outer \in Seq(Frame) /\ outer # <<>>
    <3>1. outer \in Seq(Frame) /\ Len(outer) > 0
      BY <1>1, <1>3 DEF ScopeTypeOK, ShellTyped, Followed
    <3> QED BY <3>1
  <2> QED BY <2>1, FrontAndLast
<1>5. Last(outer).cwd \in Place /\ Last(outer).stack \in Seq(Place) /\ Last(outer).strayed \in BOOLEAN
  BY <1>4 DEF Frame
<1>6. ScopeTypeOK'
  <2>1. HookTyped' /\ ShellTyped'
    BY <1>1, <1>2, <1>3, <1>4, <1>5 DEF ScopeTypeOK, HookTyped, ShellTyped
  <2>2. FlagsTyped'
    BY <1>1, <1>2, <1>5 DEF ScopeTypeOK, FlagsTyped
  <2>3. verdict' \in {"reading", "held back"} /\ moved' \in Nat
    BY <1>1, <1>2, CountsOn DEF ScopeTypeOK
  <2> QED BY <2>1, <2>2, <2>3 DEF ScopeTypeOK
<1>7. OnlyListed'
  <2>1. \A place \in current' : Included(place)
    BY <1>1, <1>2, <1>3 DEF OnlyListed
  <2>2. \A i \in 1..Len(subshells') : i \in 1..Len(subshells) /\ subshells'[i] = subshells[i]
    BY <1>2, <1>3
  <2> QED BY <2>1, <2>2, <1>1, <1>2 DEF OnlyListed
<1>8. \A i \in 1..Len(outer') : i \in 1..Len(outer) /\ outer'[i] = outer[i]
  BY <1>2, <1>4
<1>9. Followed'
  <2>1. Len(outer) = Len(subshells) /\ \A i \in 1..Len(outer) : outer[i].strayed \/ outer[i].cwd \in subshells[i]
    BY <1>1 DEF Followed
  <2>2. Len(outer') = Len(subshells')
    BY <2>1, <1>2, <1>3, <1>4
  <2>3. strayed' \/ cwd' \in current'
    BY <2>1, <1>2, <1>3, <1>4
  <2>4. \A i \in 1..Len(outer') : subshells'[i] = subshells[i]
    BY <2>1, <1>2, <1>3, <1>4
  <2>5. \A i \in 1..Len(outer') : outer'[i].strayed \/ outer'[i].cwd \in subshells'[i]
    BY <2>1, <2>4, <1>8
  <2> QED BY <2>2, <2>3, <2>5 DEF Followed
<1>10. StackFollowed'
  <2>1. paired => Last(outer).stack = stack
    BY <1>1, <1>4 DEF StackFollowed
  <2> QED BY <2>1, <1>1, <1>2, <1>8 DEF StackFollowed
<1> QED BY <1>1, <1>2, <1>6, <1>7, <1>9, <1>10 DEF ScopeInv

LEMMA StepKeeps == ScopeAssumption /\ ScopeInv /\ [ScopeNext]_scopeVars => ScopeInv'
<1> SUFFICES ASSUME ScopeAssumption, ScopeInv, [ScopeNext]_scopeVars PROVE ScopeInv'
  OBVIOUS
<1>1. CASE UNCHANGED scopeVars
  <2>1. UNCHANGED <<current, subshells, pushed, cwd, stack, outer>> /\ UNCHANGED <<strayed, paired, leaves>> /\ UNCHANGED <<verdict, moved>>
    BY <1>1 DEF scopeVars
  <2> QED BY <2>1 DEF ScopeInv, ScopeTypeOK, HookTyped, ShellTyped, FlagsTyped, OnlyListed, Followed, StackFollowed
<1>2. CASE \E w \in Words, value \in Values : Name(w, value)
  BY <1>2, NameKeeps
<1>3. CASE \E w \in Words, value \in Values : \E and, moves \in BOOLEAN : Cd(w, value, and, moves) \/ Pushd(w, value, and, moves)
  BY <1>3, CdKeeps, PushdKeeps
<1>4. CASE \E and, moves \in BOOLEAN : Popd(and, moves)
  BY <1>4, PopdKeeps
<1>5. CASE Open \/ Close
  BY <1>5, OpenKeeps, CloseKeeps
<1> QED BY <1>1, <1>2, <1>3, <1>4, <1>5 DEF ScopeNext

-----------------------------------------------------------------------------
(* While a command is read, the folders the hook keeps hold the one the    *)
(* shell stands in, unless a move before && did not take place.            *)
THEOREM FollowsTheShell == ASSUME ScopeAssumption PROVE ScopeSpec => []ScopeInv
<1>1. ScopeInit => ScopeInv
  BY InitEstablishes
<1>2. ScopeInv /\ [ScopeNext]_scopeVars => ScopeInv'
  BY StepKeeps
<1> QED BY <1>1, <1>2, PTL DEF ScopeSpec

(* However many moves, subshells and words a command is made of, it is not *)
(* let go (_command_included) when it names a path outside the list.       *)
THEOREM SentNamesOnlyListed == ASSUME ScopeAssumption PROVE ScopeSpec => []NamesOnlyListed
<1>1. ScopeInv => NamesOnlyListed
  BY DEF ScopeInv, NamesOnlyListed
<1> QED BY <1>1, FollowsTheShell, PTL

-----------------------------------------------------------------------------
(* WHAT LEAVES THE MACHINE.  Past each gate the call is known not to be    *)
(* what that gate holds back; the lists there were only grow, and neither  *)
(* the call nor the set-up changes.                                        *)

PastCredential == {"guard", "disarm", "hold", "terms", "attach", "strip", "send", "answer"}
PastGuard      == PastCredential \ {"guard"}
PastPlaces     == {"terms", "attach", "strip", "send", "answer"}
PastTerms      == PastPlaces \ {"terms"}

Uncovered(w) == w.context => AllowedBy(around) \/ Unreadable \in lists

(* A target as it was asked for, and as it may leave.                      *)
AsAsked(w, t) == w = Wire(t, w.context) /\ (w.context => call.kind = "edit")
AsPath(w, t)  ==
  /\ w.place = t.place
  /\ Governing(w) => ~w.text /\ (w.context => OnlyDeletes(t))

(* Every target on the wire is the one of the call it stands for. *)
EachAsAsked ==
  /\ DOMAIN named = DOMAIN call.targets
  /\ \A i \in DOMAIN named : AsAsked(named[i], call.targets[i]) /\ Uncovered(named[i])

EachAsPath ==
  /\ DOMAIN named = DOMAIN call.targets
  /\ \A i \in DOMAIN named : AsPath(named[i], call.targets[i]) /\ Uncovered(named[i])

(* What is known when the call is about to pass gate g.                    *)
KnownAt(g) ==
  /\ g \in PastCredential => ~call.credential
  /\ g \in PastGuard => (guards => \A t \in Targets : ~Governs(t.place, t.deletes))
  /\ g \in PastPlaces => ~HeldCommand /\ \A t \in Targets : ~Held(t)
  /\ g \in PastTerms => AllowedBy(call.terms \cup machine.alias)
  /\ g = "strip" => EachAsAsked
  /\ g = "send" => EachAsPath

Untold == told = Nothing /\ cause = Nothing /\ code = Nothing

Gates == {"shape", "project", "read", "credential", "hold"} \cup PastCredential \cup {"done"}

GateInv ==
  /\ call \in ToolCalls /\ machine \in Machines
  /\ list \in lists /\ gate \in Gates
  /\ sent.left \in BOOLEAN /\ (sent.left => gate \in {"answer", "done"})
  /\ gate # "done" => Untold
  /\ KnownAt(gate) /\ NothingPrivateLeaves /\ UnjudgedAsAsked

(* What is known of a call stays known as lists are added, and what left   *)
(* is not changed.                                                         *)
LEMMA ListsGrow ==
  ASSUME lists \subseteq lists', NEW terms PROVE AllowedBy(terms) => AllowedBy(terms)'
  BY DEF AllowedBy

LEMMA LeftStays ==
  ASSUME lists \subseteq lists', UNCHANGED <<call, machine, sent>>,
         guards' = guards \/ ~sent.left, NothingPrivateLeaves
  PROVE  NothingPrivateLeaves'
<1>1. \A terms : AllowedBy(terms) => AllowedBy(terms)'
  BY ListsGrow
<1>2. /\ \A place : LeftOut(place)' = LeftOut(place)
      /\ \A w : Governing(w)' = Governing(w) /\ OnlyDeletes(w)' = OnlyDeletes(w)
  BY DEF LeftOut, Governing, OnlyDeletes
<1> QED BY <1>1, <1>2 DEF NothingPrivateLeaves

LEMMA SameCall ==
  ASSUME UNCHANGED <<call, machine>>
  PROVE  /\ Targets' = Targets /\ HeldCommand' = HeldCommand
         /\ \A t : Held(t)' = Held(t)
         /\ \A w, t : AsAsked(w, t)' = AsAsked(w, t) /\ AsPath(w, t)' = AsPath(w, t)
  BY DEF Targets, HeldCommand, Held, LeftOut, AsAsked, AsPath, Governing, OnlyDeletes, Wire

LEMMA KnownStays ==
  ASSUME UNCHANGED <<call, machine, guards, named>>, lists \subseteq lists', NEW g, KnownAt(g),
         around' = around \/ g \notin {"strip", "send"}
  PROVE  KnownAt(g)'
<1>1. \A terms : AllowedBy(terms) => AllowedBy(terms)'
  BY ListsGrow
<1>2. around' = around => \A w : Uncovered(w) => Uncovered(w)'
  BY <1>1 DEF Uncovered
<1>3. around' = around => (EachAsAsked => EachAsAsked') /\ (EachAsPath => EachAsPath')
  BY <1>2, SameCall DEF EachAsAsked, EachAsPath
<1> QED BY <1>1, <1>3, SameCall DEF KnownAt

(* A gate that decides, or hands on what is known of the call by then.     *)
Fair(what, why) ==
  /\ what = "deny" /\ ~machine.failClosed => why \in {"credential", "governs", "disarms"}
  /\ what = "allow" /\ machine.failClosed => why \in {"not an object", "ungoverned", "no-project", "held"}

LEMMA AskKeeps ==
  ASSUME GateInv, UNCHANGED <<guards, named, sent>>, Machine, gate \notin {"answer", "done"},
         NEW to \in Gates \ {"done"}, NEW what \in {"allow", "deny"}, NEW why,
         \/ Decides(what, why) /\ Fair(what, why)
         \/ gate' = to /\ Silent /\ KnownAt(to)
  PROVE  GateInv'
<1>1. UNCHANGED <<call, machine, list, stage, around, changes, code, lists, sent>> /\ ~sent.left
  BY DEF Machine, GateInv
<1>2. NothingPrivateLeaves'
  BY <1>1, LeftStays DEF GateInv
<1>3. CASE Decides(what, why) /\ Fair(what, why)
  <2>1. KnownAt(gate)'
    BY <1>3 DEF Decides, KnownAt, PastCredential, PastGuard, PastPlaces, PastTerms
  <2>2. UnjudgedAsAsked'
    BY <1>1, <1>3 DEF Decides, Fair, Untold, UnjudgedAsAsked, GateInv, Nothing
  <2> QED BY <1>1, <1>2, <1>3, <2>1, <2>2 DEF GateInv, Decides, Gates
<1>4. CASE gate' = to /\ Silent /\ KnownAt(to)
  <2>1. KnownAt(to)'
    BY <1>1, <1>4, KnownStays
  <2>2. KnownAt(gate)'
    BY <1>4, <2>1 DEF KnownAt
  <2>3. UnjudgedAsAsked' /\ Untold'
    BY <1>1, <1>4 DEF Silent, Untold, UnjudgedAsAsked, GateInv, Nothing
  <2> QED BY <1>1, <1>2, <1>4, <2>2, <2>3 DEF GateInv
<1> QED BY <1>3, <1>4

LEMMA GateTyped ==
  ASSUME GateAssumption, GateInv
  PROVE  /\ {call.credential, call.disarms, call.reaches, call.carriesData} \subseteq BOOLEAN
         /\ call.carriesData => call.kind = "command"
         /\ \A t \in Targets : {t.deletes, t.text} \subseteq BOOLEAN
         /\ {machine.project, machine.lists, machine.failClosed, machine.faulty} \subseteq BOOLEAN
  BY DEF GateAssumption, GateInv, Targets, Range

LEMMA GateInvAtFirst == ASSUME GateInit PROVE GateInv
  BY DEF GateInit, GateInv, Nowhere, Gates, Untold, KnownAt, PastCredential, PastGuard, PastPlaces, PastTerms,
         NothingPrivateLeaves, UnjudgedAsAsked, Nothing

LEMMA EarlyGatesKeep ==
  ASSUME GateAssumption, GateInv, Recognise \/ Project \/ Credential PROVE GateInv'
<1>1. CASE Recognise
  <2>1. \/ Decides("allow", call.kind) /\ Fair("allow", call.kind)
        \/ gate' = "project" /\ Silent /\ KnownAt("project")
    BY <1>1, GateTyped DEF Recognise, Asks, Refuses, Allows, Fair, KnownAt, PastCredential, PastGuard, PastPlaces, PastTerms
  <2>2. UNCHANGED <<guards, named, sent>> /\ Machine /\ gate = "shape"
    BY <1>1 DEF Recognise, Asks
  <2> QED BY <2>1, <2>2, AskKeeps DEF Gates, PastCredential
<1>2. CASE Project
  <2>1. \/ Decides("allow", "no-project") /\ Fair("allow", "no-project")
        \/ gate' = "read" /\ Silent /\ KnownAt("read")
    BY <1>2, GateTyped DEF Project, Asks, Refuses, Allows, Fair, KnownAt, PastCredential, PastGuard, PastPlaces, PastTerms
  <2>2. UNCHANGED <<guards, named, sent>> /\ Machine /\ gate = "project"
    BY <1>2 DEF Project, Asks
  <2> QED BY <2>1, <2>2, AskKeeps DEF Gates, PastCredential
<1>3. CASE Credential
  <2>1. \/ Decides("deny", "credential") /\ Fair("deny", "credential")
        \/ gate' = "guard" /\ Silent /\ KnownAt("guard")
    BY <1>3, GateTyped DEF Credential, Asks, Refuses, Allows, Fair, KnownAt, PastCredential, PastGuard, PastPlaces, PastTerms
  <2>2. UNCHANGED <<guards, named, sent>> /\ Machine /\ gate = "credential"
    BY <1>3 DEF Credential, Asks
  <2> QED BY <2>1, <2>2, AskKeeps DEF Gates, PastCredential
<1> QED BY <1>1, <1>2, <1>3

LEMMA UnjudgedKeeps ==
  ASSUME GateAssumption, GateInv, gate # "done", UNCHANGED <<guards, named, sent>>, Machine, Unjudged
  PROVE  GateInv'
<1>1. UNCHANGED <<call, machine, list, stage, around, changes, code, lists, sent>> /\ machine.failClosed \in BOOLEAN
  BY GateTyped DEF Machine
<1>2. NothingPrivateLeaves'
  BY <1>1, LeftStays DEF GateInv
<1>3. KnownAt(gate)' /\ gate' = "done" /\ cause' = "unjudged" /\ told' = IF machine.failClosed THEN "deny" ELSE "allow"
  BY DEF Unjudged, Refuses, Allows, Decides, KnownAt, PastCredential, PastGuard, PastPlaces, PastTerms
<1>4. UnjudgedAsAsked'
  BY <1>1, <1>3 DEF UnjudgedAsAsked
<1> QED BY <1>1, <1>2, <1>3, <1>4 DEF GateInv, Gates

LEMMA ReadCallKeeps == ASSUME GateAssumption, GateInv, ReadCall PROVE GateInv'
<1>1. CASE call.kind = "unknown shape"
  BY <1>1, UnjudgedKeeps DEF ReadCall, Asks
<1>2. CASE call.kind # "unknown shape"
  <2>1. UNCHANGED <<call, machine, list, stage, around, changes, code, lists, sent, told, cause, named, guards>> /\ gate = "read" /\ gate' = "credential"
    BY <1>2 DEF ReadCall, Asks, Machine, Silent
  <2>2. NothingPrivateLeaves' /\ UnjudgedAsAsked'
    BY <2>1, LeftStays DEF GateInv, UnjudgedAsAsked
  <2>3. KnownAt(gate)'
    BY <2>1 DEF KnownAt, PastCredential, PastGuard, PastPlaces, PastTerms
  <2> QED BY <2>1, <2>2, <2>3 DEF GateInv, Gates, Untold
<1> QED BY <1>1, <1>2

LEMMA GuardKeeps == ASSUME GateAssumption, GateInv, Guard PROVE GateInv'
<1>1. UNCHANGED <<call, machine, list, stage, around, changes, code, lists, sent, named>> /\ gate = "guard" /\ ~sent.left
  BY DEF Guard, Asks, Machine, GateInv
<1> DEFINE decided == Guarding /\ \E t \in Targets : Governs(t.place, t.deletes)
<1>2. \/ decided /\ gate' = "done" /\ told' = "deny" /\ cause' = "governs"
      \/ ~decided /\ gate' = "disarm" /\ UNCHANGED <<told, cause>>
  BY DEF Guard, Asks, Refuses, Decides, Silent
<1>3. NothingPrivateLeaves' /\ UnjudgedAsAsked'
  BY <1>1, <1>2, LeftStays DEF GateInv, UnjudgedAsAsked, Untold, Nothing
<1>4. KnownAt(gate)'
  BY <1>1, <1>2, SameCall DEF GateInv, Guard, KnownAt, PastCredential, PastGuard, PastPlaces, PastTerms
<1> QED BY <1>1, <1>2, <1>3, <1>4 DEF GateInv, Gates, Untold, PastCredential

LEMMA LaterGatesKeep ==
  ASSUME GateAssumption, GateInv, Disarm \/ HoldPlace \/ HoldTerms PROVE GateInv'
<1>1. CASE Disarm
  <2>1. \/ Decides("deny", "disarms") /\ Fair("deny", "disarms")
        \/ gate' = "hold" /\ Silent /\ KnownAt("hold")
    BY <1>1, GateTyped DEF Disarm, Asks, Refuses, Allows, Fair, KnownAt, PastCredential, PastGuard, PastPlaces, PastTerms, GateInv
  <2>2. UNCHANGED <<guards, named, sent>> /\ Machine /\ gate = "disarm"
    BY <1>1 DEF Disarm, Asks
  <2> QED BY <2>1, <2>2, AskKeeps DEF Gates, PastCredential
<1>2. CASE HoldPlace
  <2>1. \/ Decides("allow", "held") /\ Fair("allow", "held")
        \/ gate' = "terms" /\ Silent /\ KnownAt("terms")
    BY <1>2, GateTyped DEF HoldPlace, Asks, Refuses, Allows, Fair, KnownAt, PastCredential, PastGuard, PastPlaces, PastTerms, GateInv
  <2>2. UNCHANGED <<guards, named, sent>> /\ Machine /\ gate = "hold"
    BY <1>2 DEF HoldPlace, Asks
  <2> QED BY <2>1, <2>2, AskKeeps DEF Gates, PastCredential
<1>3. CASE HoldTerms
  <2>1. \/ Decides("allow", "held") /\ Fair("allow", "held")
        \/ gate' = "attach" /\ Silent /\ KnownAt("attach")
    BY <1>3, GateTyped DEF HoldTerms, Asks, Refuses, Allows, Fair, KnownAt, PastCredential, PastGuard, PastPlaces, PastTerms, GateInv, AllowedBy
  <2>2. UNCHANGED <<guards, named, sent>> /\ Machine /\ gate = "terms"
    BY <1>3 DEF HoldTerms, Asks
  <2> QED BY <2>1, <2>2, AskKeeps DEF Gates, PastCredential
<1> QED BY <1>1, <1>2, <1>3

(* What a target becomes is what was asked, with the surroundings of an    *)
(* edit if the list names nothing in them.                                 *)
LEMMA AttachKeeps == ASSUME GateAssumption, GateInv, Attach PROVE GateInv'
<1>1. /\ UNCHANGED <<call, machine, list, stage, around, changes, code, lists, guards, sent, told, cause>>
      /\ gate = "attach" /\ gate' = "strip" /\ ~sent.left
  BY DEF Attach, Step, Machine, Silent, GateInv
<1>2. NothingPrivateLeaves' /\ UnjudgedAsAsked'
  BY <1>1, LeftStays DEF GateInv, UnjudgedAsAsked
<1>3. PICK context \in IF call.kind = "edit" THEN Surroundings ELSE {FALSE} :
        named' = [i \in DOMAIN call.targets |-> Wire(call.targets[i], context)]
  BY DEF Attach
<1>4. context => call.kind = "edit" /\ (AllowedBy(around) \/ Unreadable \in lists)
  BY <1>3 DEF Surroundings, AllowedBy, GateInv
<1>5. \A t : Wire(t, context).context = context
  BY DEF Wire
<1>6. ASSUME NEW i \in DOMAIN named'
      PROVE  AsAsked(named'[i], call.targets[i]) /\ Uncovered(named'[i])
  <2>1. named'[i] = Wire(call.targets[i], context)
    BY <1>3
  <2> QED BY <1>4, <1>5, <2>1 DEF AsAsked, Uncovered
<1>7. KnownAt(gate)'
  <2>1. EachAsAsked'
    BY <1>1, <1>3, <1>6, SameCall DEF EachAsAsked, Uncovered, AllowedBy
  <2> QED BY <1>1, <2>1, SameCall DEF GateInv, KnownAt, PastCredential, PastGuard, PastPlaces, PastTerms, AllowedBy
<1> QED BY <1>1, <1>2, <1>7 DEF GateInv, Gates, Untold, PastCredential

(* The governing files lose their text, unless the mode guards them: then  *)
(* the call writes to none.                                                *)
LEMMA StripKeeps == ASSUME GateAssumption, GateInv, Strip PROVE GateInv'
<1>1. /\ UNCHANGED <<call, machine, list, stage, around, changes, code, lists, guards, sent, told, cause>>
      /\ gate = "strip" /\ gate' = "send" /\ ~sent.left
  BY DEF Strip, Step, Machine, Silent, GateInv
<1>2. NothingPrivateLeaves' /\ UnjudgedAsAsked'
  BY <1>1, LeftStays DEF GateInv, UnjudgedAsAsked
<1>3. /\ DOMAIN named' = DOMAIN named /\ DOMAIN named = DOMAIN call.targets
      /\ \A i \in DOMAIN named : named'[i] = IF guards THEN named[i] ELSE Stripped(named[i])
  BY <1>1 DEF Strip, GateInv, KnownAt, EachAsAsked
<1>4. ASSUME NEW t \in Targets, NEW v, AsAsked(v, t) /\ Uncovered(v),
             NEW w, w = IF guards THEN v ELSE Stripped(v)
      PROVE  AsPath(w, t) /\ Uncovered(w)
  <2>1. v = [place |-> t.place, text |-> t.text, context |-> v.context]
        /\ (v.context => call.kind = "edit")
    BY <1>4 DEF AsAsked, Wire
  <2>2. t.text \in BOOLEAN /\ t.deletes \in BOOLEAN /\ v.place = t.place /\ v.text = t.text
    <3>1. v.place = t.place /\ v.text = t.text
      BY <2>1
    <3> QED BY <2>1, <3>1, GateTyped
  <2>3. CASE guards
    <3>1. ~Governs(t.place, FALSE)
      BY <1>1, <2>2, <2>3 DEF GateInv, KnownAt, PastGuard, PastCredential, Governs
    <3>2. w = v
      BY <1>4, <2>3
    <3> QED BY <1>4, <2>2, <3>1, <3>2 DEF AsPath, Governing
  <2>4. CASE ~guards
    <3>1. CASE Governs(v.place, FALSE) /\ v.text
      <4>1. w = [v EXCEPT !.text = FALSE, !.context = FALSE]
        BY <1>4, <2>4, <3>1 DEF Stripped
      <4> DEFINE asked == [place |-> t.place, text |-> t.text, context |-> v.context]
      <4>2. w = [asked EXCEPT !.text = FALSE, !.context = FALSE]
        BY <2>1, <4>1, Zenon
      <4>3. w.place = t.place /\ w.text = FALSE /\ w.context = FALSE
        BY <4>2
      <4> QED BY <4>3 DEF AsPath, Uncovered
    <3>2. CASE ~(Governs(v.place, FALSE) /\ v.text)
      <4>1. w = v
        BY <1>4, <2>4, <3>2 DEF Stripped
      <4> QED BY <1>4, <2>1, <2>2, <3>2, <4>1 DEF AsPath, Governing, OnlyDeletes
    <3> QED BY <3>1, <3>2
  <2> QED BY <2>3, <2>4
<1>5. EachAsPath'
  <2>1. ASSUME NEW i \in DOMAIN named
        PROVE  AsPath(named'[i], call.targets[i]) /\ Uncovered(named'[i])
    <3>1. AsAsked(named[i], call.targets[i]) /\ Uncovered(named[i])
      BY <1>1 DEF GateInv, KnownAt, EachAsAsked
    <3>2. call.targets[i] \in Targets
      BY <1>3 DEF Targets, Range
    <3> QED BY <1>3, <1>4, <3>1, <3>2
  <2> QED BY <1>1, <1>3, <2>1, SameCall DEF EachAsPath, Uncovered, AllowedBy
<1>6. KnownAt(gate)'
  BY <1>1, <1>5, SameCall DEF GateInv, KnownAt, PastCredential, PastGuard, PastPlaces, PastTerms, AllowedBy
<1> QED BY <1>1, <1>2, <1>6 DEF GateInv, Gates, Untold, PastCredential

(* What leaves is what all the gates let pass.                             *)
LEMMA SendKeeps == ASSUME GateAssumption, GateInv, Send PROVE GateInv'
<1>1. /\ UNCHANGED <<call, machine, list, stage, around, changes, code, lists, guards, named, told, cause>>
      /\ gate = "send" /\ gate' = "answer"
  BY DEF Send, Machine, Silent
<1>2. /\ sent'.targets = named /\ sent'.terms = call.terms \cup machine.alias /\ sent'.left = TRUE
      /\ sent'.around = IF \E w \in Range(named) : w.context THEN around ELSE {}
  BY DEF Send
<1>3. ~call.credential /\ ~call.carriesData /\ AllowedBy(sent'.terms)
  BY <1>1, <1>2, GateTyped DEF GateInv, KnownAt, PastCredential, PastGuard, PastPlaces, PastTerms, HeldCommand
<1>4. AllowedBy(sent'.around) \/ Unreadable \in lists
  <2>1. \A i \in DOMAIN named : Uncovered(named[i])
    BY <1>1 DEF GateInv, KnownAt, EachAsPath
  <2>2. \A w \in Range(named) : Uncovered(w)
    BY <2>1 DEF Range
  <2>3. AllowedBy({}) \/ Unreadable \in lists
    BY DEF GateInv, AllowedBy
  <2> QED BY <1>2, <2>2, <2>3 DEF Uncovered
<1>5. ASSUME NEW i \in DOMAIN named
      PROVE  /\ named[i].place \in InRoot /\ ~LeftOut(named[i].place) /\ named[i].place # "data"
             /\ Governing(named[i]) =>
                  ~guards /\ ~named[i].text /\ (named[i].context => OnlyDeletes(call.targets[i]))
  <2>1. /\ AsPath(named[i], call.targets[i]) /\ call.targets[i] \in Targets
        /\ \A t \in Targets : ~Held(t) /\ (guards => ~Governs(t.place, t.deletes))
    BY <1>1 DEF GateInv, KnownAt, EachAsPath, PastCredential, PastGuard, PastPlaces, Targets, Range
  <2> QED BY <2>1 DEF AsPath, Governing, Held, Governs, DataFiles
<1>6. NothingPrivateLeaves'
  <2>1. AllowedBy(sent.terms)' /\ (AllowedBy(sent.around)' \/ Unreadable \in lists')
    BY <1>1, <1>3, <1>4 DEF AllowedBy
  <2>2. /\ \A place : LeftOut(place)' = LeftOut(place)
        /\ \A w : Governing(w)' = Governing(w) /\ OnlyDeletes(w)' = OnlyDeletes(w)
    BY <1>1 DEF LeftOut, Governing, OnlyDeletes
  <2> QED BY <1>1, <1>2, <1>3, <1>5, <2>1, <2>2 DEF NothingPrivateLeaves
<1>7. KnownAt(gate)'
  BY <1>1, SameCall DEF GateInv, KnownAt, PastCredential, PastGuard, PastPlaces, PastTerms, AllowedBy
<1>8. UnjudgedAsAsked'
  BY <1>1 DEF GateInv, Untold, UnjudgedAsAsked, Nothing
<1> QED BY <1>1, <1>2, <1>6, <1>7, <1>8 DEF GateInv, Gates, Untold, PastCredential

(* However the service answers, the call is decided as its answer says or  *)
(* as the owner asked.                                                     *)
LEMMA AnswerKeeps == ASSUME GateAssumption, GateInv, Answer PROVE GateInv'
<1>1. UNCHANGED <<call, machine, list, around, lists, guards, named, sent>> /\ gate = "answer" /\ machine.failClosed \in BOOLEAN
  BY GateTyped DEF Answer, Answers
<1>2. gate' = "done" /\ told' \in {"allow", "deny"}
  BY DEF Answer, Unjudged, Refuses, Allows, Decides
<1>3. NothingPrivateLeaves'
  BY <1>1, LeftStays DEF GateInv
<1>4. UnjudgedAsAsked'
  <2>1. CASE code' \in {"4xx", "200 blocked"}
    BY <1>1, <2>1 DEF Answer, Refuses, Decides, UnjudgedAsAsked
  <2>2. CASE code' = "200 allowed"
    BY <1>1, <2>2 DEF Answer, Allows, Decides, UnjudgedAsAsked
  <2>3. CASE code' \notin {"4xx", "200 blocked", "200 allowed"}
    BY <1>1, <2>3 DEF Answer, Unjudged, Refuses, Allows, Decides, UnjudgedAsAsked
  <2> QED BY <2>1, <2>2, <2>3
<1>5. KnownAt(gate)'
  BY <1>2 DEF KnownAt, PastCredential, PastGuard, PastPlaces, PastTerms
<1> QED BY <1>1, <1>2, <1>3, <1>4, <1>5 DEF GateInv, Gates

(* What somebody edits meanwhile.                                          *)
LEMMA EditKeeps == ASSUME GateInv, ListEdited \/ StageNamed \/ FileEdited PROVE GateInv'
<1>1. /\ UNCHANGED <<call, machine, gate, guards, named, sent, told, cause, code>>
      /\ lists \subseteq lists' /\ list' \in lists'
      /\ around' = around \/ gate \notin {"strip", "send", "answer"}
  BY DEF ListEdited, StageNamed, FileEdited, Changes, GateInv
<1>2. NothingPrivateLeaves'
  BY <1>1, LeftStays DEF GateInv
<1>3. KnownAt(gate)'
  <2>1. \A g : gate = g => KnownAt(g)'
    BY <1>1, KnownStays DEF GateInv
  <2> QED BY <1>1, <2>1 DEF KnownAt
<1>4. UnjudgedAsAsked'
  BY <1>1 DEF GateInv, UnjudgedAsAsked
<1> QED BY <1>1, <1>2, <1>3, <1>4 DEF GateInv, Untold

LEMMA GateStep == ASSUME GateAssumption, GateInv, [GateNext]_gateVars PROVE GateInv'
<1>1. CASE Raise
  BY <1>1, UnjudgedKeeps DEF Raise
<1>2. CASE UNCHANGED gateVars
  <2>1. UNCHANGED <<call, machine, list, around, gate, guards, named, sent, told, cause, code, lists>>
    BY <1>2 DEF gateVars
  <2>2. NothingPrivateLeaves' /\ UnjudgedAsAsked'
    BY <2>1, LeftStays DEF GateInv, UnjudgedAsAsked
  <2>3. \A g : gate = g => KnownAt(g)'
    BY <2>1, KnownStays DEF GateInv
  <2>4. KnownAt(gate)'
    BY <2>1, <2>3 DEF KnownAt
  <2> QED BY <2>1, <2>2, <2>4 DEF GateInv, Untold
<1> QED BY <1>1, <1>2, EarlyGatesKeep, ReadCallKeeps, GuardKeeps, LaterGatesKeep, AttachKeeps, StripKeeps, SendKeeps,
           AnswerKeeps, EditKeeps DEF GateNext

(* What the hook knows of a call at each of its gates.                     *)
THEOREM GatesKnow == ASSUME GateAssumption PROVE GateSpec => []GateInv
<1>1. GateInit => GateInv
  BY GateInvAtFirst
<1>2. GateInv /\ [GateNext]_gateVars => GateInv'
  BY GateStep
<1> QED BY <1>1, <1>2, PTL DEF GateSpec

(* However the lists, the stage and the file change while the hook runs,   *)
(* no message carries what handle and held_back_category hold back; of a   *)
(* file that decides whether hooks run only the path goes, and the text    *)
(* around an edit of it that only deletes.                                 *)
THEOREM NothingPrivateIsSent == ASSUME GateAssumption PROVE GateSpec => []NothingPrivateLeaves
<1>1. GateInv => NothingPrivateLeaves
  BY DEF GateInv
<1> QED BY <1>1, GatesKnow, PTL

(* A call nobody judged is answered as the owner asked, and no other is    *)
(* (_unjudged, and the failures of post_evaluation and main).              *)
THEOREM UnjudgedIsAsAsked == ASSUME GateAssumption PROVE GateSpec => []UnjudgedAsAsked
<1>1. GateInv => UnjudgedAsAsked
  BY DEF GateInv
<1> QED BY <1>1, GatesKnow, PTL

-----------------------------------------------------------------------------
(* FIFTY CALLS ARE ENOUGH: the loop gate's exact tier misses nothing by    *)
(* forgetting, whenever the row keeps the calls its longest window covers. *)

(* The longest window holds MaxCycle * ExactRounds calls before the one    *)
(* being judged: 25 * 2 with the default threshold and the widest window   *)
(* the clamp allows, which is exactly the fifty the row keeps.             *)
WindowFits == MaxCycle * ExactRounds <= Keep

(* What the row and the session's whole past have to do with each other.   *)
Remembers ==
  /\ history \in Seq(Calls) /\ approved \in Seq(Calls)
  /\ history = LastKept(approved)

(* The number of rounds is a positive integer, whatever the threshold.     *)
LEMMA RoundsPositive == ASSUME LoopAssumption PROVE ExactRounds \in Nat \ {0}
  BY DEF LoopAssumption, ExactRounds, AtLeastOne

(* No window is longer than the longest cycle's.                           *)
LEMMA WindowBound ==
  ASSUME NEW p \in Nat, NEW m \in Nat, NEW n \in Nat, p <= m
  PROVE  p * n <= m * n /\ p * n \in Nat
<1> DEFINE d == m - p
<1>1. d \in Nat /\ m = p + d  OBVIOUS
<1> HIDE DEF d
<1>2. m * n = p * n + d * n  BY <1>1
<1>3. d * n \in Nat /\ p * n \in Nat  BY <1>1
<1> QED  BY <1>2, <1>3

(* A window of a cycle of p calls has at least p + 1 of them.              *)
LEMMA WindowCovers ==
  ASSUME NEW p \in Nat, NEW n \in Nat \ {0}
  PROVE  p <= p * n /\ p * n \in Nat
<1>1. n - 1 \in Nat  OBVIOUS
<1>2. p * n = p + p * (n - 1)  BY <1>1
<1>3. p * (n - 1) \in Nat /\ p * n \in Nat  BY <1>1
<1> QED  BY <1>2, <1>3

(* Two sequences of which the longer ends in the shorter keep the same.    *)
LEMMA SameEndKept ==
  ASSUME NEW a \in Seq(Calls), NEW b \in Seq(Calls), NEW d \in Nat,
         Keep \in Nat \ {0}, Len(a) = Keep + 1, Len(b) = Keep + 1 + d,
         \A i \in 1 .. Keep + 1 : a[i] = b[d + i]
  PROVE  LastKept(a) = LastKept(b)
<1>1. LastKept(a) = SubSeq(a, 2, Keep + 1)  BY DEF LastKept
<1>2. LastKept(b) = SubSeq(b, d + 2, Keep + 1 + d)
  <2>1. Len(b) > Keep /\ Len(b) - Keep + 1 = d + 2  OBVIOUS
  <2> QED  BY <2>1, Zenon DEF LastKept
<1>3. SubSeq(a, 2, Keep + 1) = [i \in 1 .. Keep |-> a[i + 1]]  OBVIOUS
<1>4. SubSeq(b, d + 2, Keep + 1 + d) = [i \in 1 .. Keep |-> b[d + 1 + i]]  OBVIOUS
<1>5. \A i \in 1 .. Keep : a[i + 1] = b[d + 1 + i]
  <2> TAKE i \in 1 .. Keep
  <2>1. i + 1 \in 1 .. Keep + 1 /\ d + (i + 1) = d + 1 + i  OBVIOUS
  <2> QED  BY <2>1
<1> QED  BY <1>1, <1>2, <1>3, <1>4, <1>5

(* Where a window of w at the end of the shorter lies in the longer.       *)
LEMMA EndIndices ==
  ASSUME NEW l \in Nat, NEW d \in Nat, NEW w \in Nat, w <= l, NEW i \in 1 .. w,
         NEW p \in Nat, p + 1 <= w, NEW r \in 0 .. p - 1
  PROVE  /\ l - w + i \in 1 .. l /\ d + (l - w + i) = (l + d) - w + i
         /\ l - w + 1 + r \in 1 .. l /\ d + (l - w + 1 + r) = (l + d) - w + 1 + r
  OBVIOUS

(* ... and a cycle whose window fits in the shorter closes in both or in   *)
(* neither.                                                                *)
LEMMA SameEndCloses ==
  ASSUME NEW X, NEW a \in Seq(X), NEW b \in Seq(X), NEW d \in Nat,
         NEW l \in Nat, NEW m \in Nat, m = l + d, Len(a) = l, Len(b) = m,
         \A i \in 1 .. l : a[i] = b[d + i],
         NEW p \in Nat \ {0}, NEW n \in Nat \ {0},
         NEW w \in Nat, w = p * n + 1, p + 1 <= w, w <= l
  PROVE  Closes(a, p, n) <=> Closes(b, p, n)
<1>1. w <= m  OBVIOUS
<1>2. Closes(a, p, n) <=> \A i \in 1 .. w : a[l - w + i] = a[l - w + 1 + ((i - 1) % p)]
  BY Zenon DEF Closes
<1>3. Closes(b, p, n) <=> \A i \in 1 .. w : b[m - w + i] = b[m - w + 1 + ((i - 1) % p)]
  BY <1>1, Zenon DEF Closes
<1>4. ASSUME NEW i \in 1 .. w
      PROVE  /\ a[l - w + i] = b[m - w + i]
             /\ a[l - w + 1 + ((i - 1) % p)] = b[m - w + 1 + ((i - 1) % p)]
  <2> DEFINE r == (i - 1) % p
  <2>1. r \in 0 .. p - 1  OBVIOUS
  <2> HIDE DEF r
  <2>2. /\ l - w + i \in 1 .. l /\ d + (l - w + i) = m - w + i
        /\ l - w + 1 + r \in 1 .. l /\ d + (l - w + 1 + r) = m - w + 1 + r
    BY <2>1, EndIndices
  <2>3. \A j, k : j \in 1 .. l /\ d + j = k => a[j] = b[k]  BY Zenon
  <2>4. a[l - w + i] = b[m - w + i]  BY <2>2, <2>3, Zenon
  <2>5. a[l - w + 1 + r] = b[m - w + 1 + r]  BY <2>2, <2>3, Zenon
  <2>6. a[l - w + i] = b[m - w + i] /\ a[l - w + 1 + r] = b[m - w + 1 + r]
    BY <2>4, <2>5
  <2> QED  BY <2>6 DEF r
<1> QED  BY <1>2, <1>3, <1>4, Zenon

(* The end that is kept of a sequence too long to keep, and the same call  *)
(* appended to the end and to the whole.                                   *)
LEMMA KeptAppended ==
  ASSUME NEW s \in Seq(Calls), NEW c \in Calls, Keep \in Nat \ {0}, Len(s) > Keep
  PROVE  \E d \in Nat :
           /\ LastKept(s) \in Seq(Calls)
           /\ Append(LastKept(s), c) \in Seq(Calls) /\ Append(s, c) \in Seq(Calls)
           /\ Len(Append(LastKept(s), c)) = Keep + 1
           /\ Len(Append(s, c)) = Keep + 1 + d
           /\ \A i \in 1 .. Keep + 1 : Append(LastKept(s), c)[i] = Append(s, c)[d + i]
<1>1. PICK d \in Nat : d = Len(s) - Keep  OBVIOUS
<1>2. Len(s) \in Nat /\ Len(s) = Keep + d /\ d < Len(s)  BY <1>1
<1> DEFINE k == LastKept(s)
<1>3. k = SubSeq(s, d + 1, Len(s))  BY <1>1 DEF LastKept
<1> HIDE DEF k
<1>4. /\ k \in Seq(Calls) /\ Len(k) = Keep
      /\ \A i \in 1 .. Keep : k[i] = s[d + i]
  BY <1>2, <1>3
<1>5. /\ Append(k, c) \in Seq(Calls) /\ Len(Append(k, c)) = Keep + 1
      /\ \A i \in 1 .. Keep : Append(k, c)[i] = k[i]
      /\ Append(k, c)[Keep + 1] = c
  BY <1>4, AppendProperties
<1>6. /\ Append(s, c) \in Seq(Calls) /\ Len(Append(s, c)) = Keep + 1 + d
      /\ \A i \in 1 .. Keep + d : Append(s, c)[i] = s[i]
      /\ Append(s, c)[d + (Keep + 1)] = c
  <2>1. /\ Append(s, c) \in Seq(Calls) /\ Len(Append(s, c)) = Len(s) + 1
        /\ \A i \in 1 .. Len(s) : Append(s, c)[i] = s[i]
        /\ Append(s, c)[Len(s) + 1] = c
    BY AppendProperties
  <2>2. Len(s) + 1 = Keep + 1 + d /\ Len(s) + 1 = d + (Keep + 1)  BY <1>2
  <2> QED  BY <2>1, <2>2, <1>2, Zenon
<1>7. ASSUME NEW i \in 1 .. Keep + 1
      PROVE  Append(k, c)[i] = Append(s, c)[d + i]
  <2>1. CASE i = Keep + 1  BY <2>1, <1>5, <1>6
  <2>2. CASE i # Keep + 1
    <3>1. i \in 1 .. Keep /\ d + i \in 1 .. Keep + d  BY <2>2
    <3> QED  BY <3>1, <1>4, <1>5, <1>6, Zenon
  <2> QED  BY <2>1, <2>2
<1> WITNESS d \in Nat
<1> QED  BY <1>4, <1>5, <1>6, <1>7, Zenon DEF k

(* Keeping the end of a sequence of which only the end was kept is keeping *)
(* the end of the whole.                                                   *)
LEMMA KeptOfKept ==
  ASSUME LoopAssumption, NEW s \in Seq(Calls), NEW c \in Calls
  PROVE  /\ LastKept(Append(LastKept(s), c)) = LastKept(Append(s, c))
         /\ LastKept(s) \in Seq(Calls)
<1>1. Keep \in Nat \ {0}  BY DEF LoopAssumption
<1>2. CASE ~(Len(s) > Keep)
  BY <1>2, Zenon DEF LastKept
<1>3. CASE Len(s) > Keep
  <2>1. PICK d \in Nat :
           /\ LastKept(s) \in Seq(Calls)
           /\ Append(LastKept(s), c) \in Seq(Calls) /\ Append(s, c) \in Seq(Calls)
           /\ Len(Append(LastKept(s), c)) = Keep + 1
           /\ Len(Append(s, c)) = Keep + 1 + d
           /\ \A i \in 1 .. Keep + 1 : Append(LastKept(s), c)[i] = Append(s, c)[d + i]
    BY <1>1, <1>3, KeptAppended
  <2> QED  BY <2>1, <1>1, SameEndKept
<1> QED  BY <1>2, <1>3

(* A cycle whose window fits in what is kept closes there exactly when it  *)
(* closes over the whole past.                                             *)
LEMMA SameWindow ==
  ASSUME LoopAssumption, NEW s \in Seq(Calls), NEW c \in Calls,
         NEW p \in Nat \ {0}, NEW n \in Nat \ {0}, p * n <= Keep
  PROVE  Closes(Append(LastKept(s), c), p, n) <=> Closes(Append(s, c), p, n)
<1>1. Keep \in Nat \ {0}  BY DEF LoopAssumption
<1>2. CASE ~(Len(s) > Keep)
  BY <1>2, Zenon DEF LastKept
<1>3. CASE Len(s) > Keep
  <2>1. PICK w \in Nat : w = p * n + 1 /\ p + 1 <= w /\ w <= Keep + 1
    BY WindowCovers, <1>1
  <2>2. PICK d \in Nat :
           /\ Append(LastKept(s), c) \in Seq(Calls) /\ Append(s, c) \in Seq(Calls)
           /\ Len(Append(LastKept(s), c)) = Keep + 1
           /\ Len(Append(s, c)) = Keep + 1 + d
           /\ \A i \in 1 .. Keep + 1 : Append(LastKept(s), c)[i] = Append(s, c)[d + i]
    BY <1>1, <1>3, KeptAppended
  <2>3. Keep + 1 \in Nat /\ Keep + 1 + d \in Nat  BY <1>1
  <2> QED  BY <2>1, <2>2, <2>3, SameEndCloses
<1> QED  BY <1>2, <1>3

(* The row holds the end of the session's past, from the first call on.    *)
THEOREM RowRemembersTheEnd ==
  ASSUME LoopAssumption PROVE LoopSpec => []Remembers
<1>1. LoopInit => Remembers
  BY DEF LoopInit, Remembers, LastKept, LoopAssumption
<1>2. Remembers /\ [LoopNext]_loopVars => Remembers'
  <2> SUFFICES ASSUME Remembers, [LoopNext]_loopVars PROVE Remembers'
    OBVIOUS
  <2>1. ASSUME NEW c \in Calls, NEW e \in BOOLEAN, Approve(c, e) PROVE Remembers'
    <3>1. history' = LastKept(Append(history, c)) /\ approved' = Append(approved, c)
      BY <2>1 DEF Approve
    <3>2. history' = LastKept(Append(approved, c))
      BY <3>1, KeptOfKept DEF Remembers
    <3>3. approved' \in Seq(Calls)  BY <3>1 DEF Remembers
    <3>4. LastKept(approved') \in Seq(Calls)  BY <3>3, KeptOfKept
    <3> QED  BY <3>1, <3>2, <3>3, <3>4 DEF Remembers
  <2>2. ASSUME UNCHANGED <<history, approved>> PROVE Remembers'
    BY <2>2 DEF Remembers, LastKept
  <2>3. ASSUME NEW c \in Calls, NEW f \in BOOLEAN, Refuse(c, f) PROVE Remembers'
    BY <2>2, <2>3 DEF Refuse
  <2>4. CASE Resume  BY <2>2, <2>4 DEF Resume
  <2>5. CASE UNCHANGED loopVars  BY <2>2, <2>5 DEF loopVars
  <2> QED  BY <2>1, <2>3, <2>4, <2>5 DEF LoopNext, Judge
<1> QED  BY <1>1, <1>2, PTL DEF LoopSpec

(* What the row keeps is enough for the exact tier, for every threshold    *)
(* and window whose longest cycle fits in it.                              *)
LEMMA KeptSuffices ==
  ASSUME LoopAssumption, WindowFits, Remembers PROVE NothingForgotten
<1> SUFFICES ASSUME NEW c \in Calls
             PROVE  Repeats(Append(history, c), ExactRounds)
                      <=> Repeats(Append(approved, c), ExactRounds)
  BY DEF NothingForgotten
<1> DEFINE n == ExactRounds
<1>1. n \in Nat \ {0}  BY RoundsPositive
<1> HIDE DEF n
<1>2. ASSUME NEW p \in 1 .. MaxCycle
      PROVE  Closes(Append(history, c), p, n) <=> Closes(Append(approved, c), p, n)
  <2>1. p \in Nat \ {0} /\ MaxCycle \in Nat /\ Keep \in Nat /\ p <= MaxCycle
    BY DEF LoopAssumption
  <2>2. p * n <= MaxCycle * n /\ p * n \in Nat /\ MaxCycle * n \in Nat
    BY <2>1, <1>1, WindowBound
  <2>3. p * n <= Keep  BY <2>1, <2>2 DEF WindowFits, n
  <2> QED  BY <2>1, <2>3, <1>1, SameWindow DEF Remembers
<1> QED  BY <1>2 DEF Repeats, n

(* Forgetting changes no verdict of the exact tier: whatever call comes    *)
(* next, in every state of the gate.                                       *)
THEOREM FiftyCallsSuffice ==
  ASSUME LoopAssumption, WindowFits PROVE LoopSpec => []NothingForgotten
<1>1. Remembers => NothingForgotten  BY KeptSuffices
<1> QED  BY <1>1, RowRemembersTheEnd, PTL

-----------------------------------------------------------------------------
(* Why the gate refuses runaways and nothing else.  The exact tier reads   *)
(* the whole past by the theorem above; the shapes of what is kept are the *)
(* end of the shapes of everything, so a repeat found in them is one.      *)

(* A set that holds 0 and the successor of each of its numbers holds them  *)
(* all: its complement would have a least element.                         *)
LEMMA SetInduction ==
  ASSUME NEW S, 0 \in S, \A n \in Nat : n \in S => n + 1 \in S
  PROVE  Nat \subseteq S
<1> DEFINE T == {n \in Nat : n \notin S}
<1>1. SUFFICES ASSUME T # {} PROVE FALSE  OBVIOUS
<1>2. PICK x \in T : \A y \in T : ~(<<y, x>> \in OpToRel(<, Nat))
  BY <1>1, WFMin, NatLessThanWellFounded, Zenon
<1>3. x \in Nat /\ x \notin S /\ x # 0  OBVIOUS
<1>4. x - 1 \in Nat /\ x - 1 < x /\ (x - 1) + 1 = x  BY <1>3
<1>5. x - 1 \notin S  BY <1>3, <1>4
<1>6. <<x - 1, x>> \in OpToRel(<, Nat)  BY <1>3, <1>4, Zenon DEF OpToRel
<1> QED  BY <1>2, <1>4, <1>5, <1>6

(* What the definition of Shapes asks of its recursive function, up to k.  *)
Folded(f, s, k) ==
  f = [n \in 0 .. k |->
         IF n = 0 THEN <<>>
         ELSE IF HasShape(s[n]) THEN Append(f[n - 1], Shape[s[n]]) ELSE f[n - 1]]

(* There is such a function, whatever the sequence and however far.        *)
LEMMA ReadsExists ==
  ASSUME NEW s PROVE \A k \in Nat : \E f : Folded(f, s, k)
<1> DEFINE S == {k \in Nat : \E f : Folded(f, s, k)}
<1>1. 0 \in S
  <2> DEFINE f == [n \in 0 .. 0 |-> <<>>]
  <2>1. Folded(f, s, 0)  BY DEF Folded
  <2> QED  BY <2>1
<1>2. ASSUME NEW k \in Nat, k \in S PROVE k + 1 \in S
  <2>1. PICK f : Folded(f, s, k)  BY <1>2
  <2> DEFINE next == IF HasShape(s[k + 1]) THEN Append(f[k], Shape[s[k + 1]]) ELSE f[k]
             g == [n \in 0 .. k + 1 |-> IF n = k + 1 THEN next ELSE f[n]]
  <2>2. ASSUME NEW n \in 0 .. k + 1
        PROVE  g[n] = IF n = 0 THEN <<>>
                      ELSE IF HasShape(s[n]) THEN Append(g[n - 1], Shape[s[n]]) ELSE g[n - 1]
    <3>1. CASE n = 0  BY <3>1, <2>1 DEF Folded
    <3>2. CASE n = k + 1
      <4>1. g[n] = next /\ g[n - 1] = f[k] /\ n # 0  BY <3>2
      <4> HIDE DEF g
      <4> QED  BY <4>1, <3>2
    <3>3. CASE n \in 1 .. k
      <4>1. g[n] = f[n] /\ g[n - 1] = f[n - 1] /\ n # 0 /\ n \in 0 .. k  BY <3>3
      <4>2. f[n] = IF n = 0 THEN <<>>
                   ELSE IF HasShape(s[n]) THEN Append(f[n - 1], Shape[s[n]]) ELSE f[n - 1]
        BY <4>1, <2>1 DEF Folded
      <4> HIDE DEF g
      <4> QED  BY <4>1, <4>2
    <3> QED  BY <3>1, <3>2, <3>3
  <2>3. g = [n \in 0 .. k + 1 |->
               IF n = 0 THEN <<>>
               ELSE IF HasShape(s[n]) THEN Append(g[n - 1], Shape[s[n]]) ELSE g[n - 1]]
    <3>1. g = [n \in 0 .. k + 1 |-> g[n]]  OBVIOUS
    <3> HIDE DEF g
    <3> QED  BY <3>1, <2>2, Zenon
  <2>4. Folded(g, s, k + 1)  BY <2>3, Zenon DEF Folded
  <2> QED  BY <2>4
<1>3. Nat \subseteq S
  <2> HIDE DEF S
  <2> QED  BY <1>1, <1>2, SetInduction
<1> QED  BY <1>3

LEMMA ShapesRead ==
  ASSUME NEW s, NEW k \in Nat, k = Len(s)
  PROVE  \E f : Folded(f, s, k) /\ Shapes(s) = f[k]
<1> DEFINE f == CHOOSE g : Folded(g, s, k)
<1>1. Folded(f, s, k)  BY ReadsExists
<1>2. Shapes(s) = f[k]  BY Zenon DEF Shapes, Folded
<1> QED  BY <1>1, <1>2

(* Two readings of sequences that begin alike agree that far.              *)
LEMMA ReadsAgree ==
  ASSUME NEW s, NEW t, NEW f, NEW g, NEW k \in Nat, NEW m \in Nat, NEW l \in Nat,
         Folded(f, s, k), Folded(g, t, m), l <= k, l <= m, \A i \in 1 .. l : s[i] = t[i]
  PROVE  f[l] = g[l]
<1> DEFINE S == {n \in Nat : n <= l => f[n] = g[n]}
<1>1. 0 \in S
  <2>1. f[0] = <<>> /\ g[0] = <<>>  BY DEF Folded
  <2> QED  BY <2>1
<1>2. ASSUME NEW n \in Nat, n \in S PROVE n + 1 \in S
  <2>1. SUFFICES ASSUME n + 1 <= l PROVE f[n + 1] = g[n + 1]  OBVIOUS
  <2>2. f[n] = g[n] /\ s[n + 1] = t[n + 1]  BY <1>2, <2>1
  <2>3. n + 1 \in 0 .. k /\ n + 1 \in 0 .. m /\ n + 1 # 0 /\ (n + 1) - 1 = n  BY <2>1
  <2>4. f[n + 1] = IF HasShape(s[n + 1]) THEN Append(f[n], Shape[s[n + 1]]) ELSE f[n]
    BY <2>3 DEF Folded
  <2>5. g[n + 1] = IF HasShape(t[n + 1]) THEN Append(g[n], Shape[t[n + 1]]) ELSE g[n]
    BY <2>3 DEF Folded
  <2> QED  BY <2>2, <2>4, <2>5
<1>3. Nat \subseteq S
  <2> HIDE DEF S
  <2> QED  BY <1>1, <1>2, SetInduction
<1> QED  BY <1>3

(* One more call adds its shape, if it has one.                            *)
LEMMA ShapesOfAppend ==
  ASSUME NEW s \in Seq(Calls), NEW c \in Calls
  PROVE  Shapes(Append(s, c)) = IF HasShape(c) THEN Append(Shapes(s), Shape[c]) ELSE Shapes(s)
<1> DEFINE t == Append(s, c)
           n == Len(s)
<1>1. n \in Nat /\ Len(t) = n + 1 /\ t[n + 1] = c /\ \A i \in 1 .. n : s[i] = t[i]
  BY AppendProperties
<1> HIDE DEF t, n
<1>2. PICK f : Folded(f, s, n) /\ Shapes(s) = f[n]  BY <1>1, ShapesRead DEF n
<1>3. PICK g : Folded(g, t, n + 1) /\ Shapes(t) = g[n + 1]  BY <1>1, ShapesRead
<1>4. f[n] = g[n]  BY <1>1, <1>2, <1>3, ReadsAgree
<1>5. n + 1 \in 0 .. n + 1 /\ n + 1 # 0 /\ (n + 1) - 1 = n  BY <1>1
<1>6. g[n + 1] = IF HasShape(t[n + 1]) THEN Append(g[n], Shape[t[n + 1]]) ELSE g[n]
  BY <1>3, <1>5 DEF Folded
<1> QED  BY <1>1, <1>2, <1>3, <1>4, <1>6 DEF t

LEMMA ShapesOfNone == Shapes(<<>>) = <<>>
<1>1. PICK f : Folded(f, <<>>, 0) /\ Shapes(<<>>) = f[0]
  BY ShapesRead, EmptySeq
<1> QED  BY <1>1 DEF Folded

ShapesThere == {Shape[c] : c \in Calls}

LEMMA ShapesTyped ==
  ASSUME NEW s \in Seq(Calls) PROVE Shapes(s) \in Seq(ShapesThere)
<1> DEFINE k == Len(s)
<1>1. k \in Nat /\ \A i \in 1 .. k : s[i] \in Calls  OBVIOUS
<1> HIDE DEF k
<1>2. PICK f : Folded(f, s, k) /\ Shapes(s) = f[k]  BY <1>1, ShapesRead DEF k
<1> DEFINE S == {n \in Nat : n <= k => f[n] \in Seq(ShapesThere)}
<1>3. 0 \in S
  <2>1. f[0] = <<>>  BY <1>1, <1>2 DEF Folded
  <2>2. f[0] \in Seq(ShapesThere)  BY <2>1, EmptySeq
  <2> QED  BY <2>2
<1>4. ASSUME NEW n \in Nat, n \in S PROVE n + 1 \in S
  <2>1. SUFFICES ASSUME n + 1 <= k PROVE f[n + 1] \in Seq(ShapesThere)  OBVIOUS
  <2>2. f[n] \in Seq(ShapesThere) /\ s[n + 1] \in Calls  BY <1>1, <1>4, <2>1
  <2>3. n + 1 \in 0 .. k /\ n + 1 # 0 /\ (n + 1) - 1 = n  BY <1>1, <2>1
  <2>4. f[n + 1] = IF HasShape(s[n + 1]) THEN Append(f[n], Shape[s[n + 1]]) ELSE f[n]
    BY <1>2, <2>3 DEF Folded
  <2>5. Shape[s[n + 1]] \in ShapesThere  BY <2>2 DEF ShapesThere
  <2> QED  BY <2>2, <2>4, <2>5
<1>5. Nat \subseteq S
  <2> HIDE DEF S
  <2> QED  BY <1>3, <1>4, SetInduction
<1> QED  BY <1>1, <1>2, <1>5

(* One sequence is the end of another.                                     *)
IsEndOf(a, b) ==
  \E d \in Nat : Len(b) = Len(a) + d /\ \A i \in 1 .. Len(a) : a[i] = b[d + i]

LEMMA EndOfAppends ==
  ASSUME NEW X, NEW a \in Seq(X), NEW b \in Seq(X), NEW x \in X, IsEndOf(a, b)
  PROVE  IsEndOf(Append(a, x), Append(b, x))
<1>1. PICK d \in Nat : Len(b) = Len(a) + d /\ \A i \in 1 .. Len(a) : a[i] = b[d + i]
  BY DEF IsEndOf
<1> DEFINE l == Len(a)
<1>2. l \in Nat /\ Len(b) = l + d  BY <1>1
<1>3. /\ Len(Append(a, x)) = l + 1 /\ Append(a, x)[l + 1] = x
      /\ \A i \in 1 .. l : Append(a, x)[i] = a[i]
  BY AppendProperties
<1>4. /\ Len(Append(b, x)) = (l + 1) + d /\ Append(b, x)[d + (l + 1)] = x
      /\ \A i \in 1 .. l : Append(b, x)[d + i] = b[d + i]
  <2>1. /\ Len(Append(b, x)) = Len(b) + 1 /\ Append(b, x)[Len(b) + 1] = x
        /\ \A i \in 1 .. Len(b) : Append(b, x)[i] = b[i]
    BY AppendProperties
  <2>2. Len(b) + 1 = (l + 1) + d /\ Len(b) + 1 = d + (l + 1)  BY <1>2
  <2>3. \A i \in 1 .. l : d + i \in 1 .. Len(b)  BY <1>2
  <2> QED  BY <2>1, <2>2, <2>3, Zenon
<1>5. \A i \in 1 .. l : a[i] = b[d + i]  BY <1>1
<1> HIDE DEF l
<1>6. ASSUME NEW i \in 1 .. l + 1 PROVE Append(a, x)[i] = Append(b, x)[d + i]
  <2>1. CASE i = l + 1  BY <2>1, <1>3, <1>4
  <2>2. CASE i # l + 1
    <3>1. i \in 1 .. l  BY <1>2, <2>2
    <3> QED  BY <3>1, <1>3, <1>4, <1>5, Zenon
  <2> QED  BY <2>1, <2>2
<1> QED  BY <1>3, <1>4, <1>6 DEF IsEndOf

(* The shapes of the end of a sequence are the end of its shapes.          *)
LEMMA ShapesOfEnd ==
  ASSUME NEW s \in Seq(Calls), NEW d \in Nat, d <= Len(s)
  PROVE  IsEndOf(Shapes(SubSeq(s, d + 1, Len(s))), Shapes(s))
<1> DEFINE l == Len(s)
           S == {k \in Nat : d + k <= l => IsEndOf(Shapes(SubSeq(s, d + 1, d + k)), Shapes(SubSeq(s, 1, d + k)))}
<1>1. l \in Nat /\ d <= l  OBVIOUS
<1>2. 0 \in S
  <2>1. SubSeq(s, d + 1, d + 0) = <<>>  OBVIOUS
  <2>2. SubSeq(s, 1, d + 0) \in Seq(Calls)  OBVIOUS
  <2> DEFINE b == Shapes(SubSeq(s, 1, d + 0))
  <2>3. Len(b) \in Nat  BY <2>2, ShapesTyped
  <2> HIDE DEF b
  <2>4. IsEndOf(<<>>, b)  BY <2>3 DEF IsEndOf
  <2>5. IsEndOf(Shapes(SubSeq(s, d + 1, d + 0)), b)  BY <2>1, <2>4, ShapesOfNone
  <2> QED  BY <2>5, Zenon DEF b
<1>3. ASSUME NEW k \in Nat, k \in S PROVE k + 1 \in S
  <2>1. SUFFICES ASSUME d + (k + 1) <= l
                 PROVE  IsEndOf(Shapes(SubSeq(s, d + 1, d + (k + 1))), Shapes(SubSeq(s, 1, d + (k + 1))))
    OBVIOUS
  <2> DEFINE a == SubSeq(s, d + 1, d + k)
             b == SubSeq(s, 1, d + k)
             c == s[d + k + 1]
  <2>2. IsEndOf(Shapes(a), Shapes(b))  BY <1>3, <2>1
  <2>3. a \in Seq(Calls) /\ b \in Seq(Calls) /\ c \in Calls  BY <2>1
  <2>4. SubSeq(s, d + 1, d + (k + 1)) = Append(a, c)  BY <2>1
  <2>5. SubSeq(s, 1, d + (k + 1)) = Append(b, c)  BY <2>1
  <2> HIDE DEF a, b, c
  <2>6. Shapes(a) \in Seq(ShapesThere) /\ Shapes(b) \in Seq(ShapesThere) /\ Shape[c] \in ShapesThere
    BY <2>3, ShapesTyped DEF ShapesThere
  <2>7. IsEndOf(Append(Shapes(a), Shape[c]), Append(Shapes(b), Shape[c]))  BY <2>2, <2>6, EndOfAppends
  <2>8. IsEndOf(Shapes(Append(a, c)), Shapes(Append(b, c)))
    BY <2>2, <2>3, <2>7, ShapesOfAppend
  <2> QED  BY <2>4, <2>5, <2>8
<1>4. l - d \in Nat /\ d + (l - d) = l  BY <1>1
<1>5. Nat \subseteq S
  <2> HIDE DEF S
  <2> QED  BY <1>2, <1>3, SetInduction
<1>6. SubSeq(s, 1, l) = s  OBVIOUS
<1>7. IsEndOf(Shapes(SubSeq(s, d + 1, l)), Shapes(SubSeq(s, 1, l)))  BY <1>1, <1>4, <1>5
<1> QED  BY <1>6, <1>7

(* What repeats at the end repeats in the whole.                           *)
LEMMA EndRepeats ==
  ASSUME NEW X, NEW a \in Seq(X), NEW b \in Seq(X), IsEndOf(a, b), MaxCycle \in Nat,
         NEW n \in Nat \ {0}, Repeats(a, n)
  PROVE  Repeats(b, n)
<1>1. PICK p \in 1 .. MaxCycle : Closes(a, p, n)  BY DEF Repeats
<1>2. PICK d \in Nat : Len(b) = Len(a) + d /\ \A i \in 1 .. Len(a) : a[i] = b[d + i]
  BY DEF IsEndOf
<1>3. p \in Nat \ {0}  BY <1>1
<1>4. PICK w \in Nat : w = p * n + 1 /\ p + 1 <= w  BY <1>3, WindowCovers
<1>5. w <= Len(a)  BY <1>1, <1>4, Zenon DEF Closes
<1>6. PICK l \in Nat, m \in Nat : l = Len(a) /\ m = Len(b) /\ m = l + d  BY <1>2
<1>7. Closes(b, p, n)
  <2>1. \A i \in 1 .. l : a[i] = b[d + i]  BY <1>2, <1>6
  <2> QED  BY <2>1, <1>1, <1>3, <1>4, <1>5, <1>6, SameEndCloses
<1> QED  BY <1>1, <1>7 DEF Repeats

(* A window of whole rounds leaves nothing over.                           *)
LEMMA RoundsDivide ==
  ASSUME NEW p \in Nat \ {0}, NEW n \in Nat
  PROVE  (p * n) % p = 0
<1>1. PICK m \in Nat : m = p * n  OBVIOUS
<1>2. PICK q \in Int, r \in 0 .. p - 1 : m = p * q + r /\ r = m % p
  <2>1. m = p * (m \div p) + (m % p) /\ (m % p) \in 0 .. p - 1 /\ m \div p \in Int  BY <1>1
  <2> QED  BY <2>1
<1>3. PICK k \in Int : k = n - q  OBVIOUS
<1>4. p * n = p * q + p * k  BY <1>3
<1>5. r = p * k  BY <1>1, <1>2, <1>4
<1>6. CASE k = 0  BY <1>1, <1>2, <1>5, <1>6
<1>7. CASE k >= 1
  <2>1. k - 1 \in Nat  BY <1>7
  <2>2. p * k = p + p * (k - 1) /\ p * (k - 1) \in Nat  BY <2>1
  <2> QED  BY <1>2, <1>5, <2>2
<1>8. CASE k <= -1
  <2>1. PICK j \in Nat : k = -1 - j
    <3>1. -1 - k \in Nat /\ k = -1 - (-1 - k)  BY <1>8
    <3> QED  BY <3>1
  <2>2. p * k = -p - p * j /\ p * j \in Nat  BY <2>1
  <2> QED  BY <1>2, <1>5, <2>2
<1> QED  BY <1>6, <1>7, <1>8

(* A word said n times, and its first letter again, letter by letter.      *)
Spells(t, X, w, word, p) ==
  t \in Seq(X) /\ Len(t) = w /\ \A i \in 1 .. w : t[i] = word[((i - 1) % p) + 1]

LEMMA WhatIsSaid ==
  ASSUME NEW X, NEW p \in Nat \ {0}, NEW n \in Nat, NEW word \in [1 .. p -> X], NEW w \in Nat, w = p * n + 1
  PROVE  Spells(Append(Said(word, n), word[1]), X, w, word, p)
<1>1. PICK m \in Nat : m = p * n /\ m = n * p  OBVIOUS
<1>2. Len(word) = p /\ word[1] \in X  OBVIOUS
<1> DEFINE said == [i \in 1 .. m |-> word[((i - 1) % p) + 1]]
<1>3. Said(word, n) = said  BY <1>1, <1>2, Zenon DEF Said
<1>4. \A i \in 1 .. m : ((i - 1) % p) + 1 \in 1 .. p  OBVIOUS
<1>5. said \in Seq(X) /\ Len(said) = m  BY <1>4
<1>6. \A i \in 1 .. m : said[i] = word[((i - 1) % p) + 1]  OBVIOUS
<1> HIDE DEF said
<1>7. /\ Append(said, word[1]) \in Seq(X) /\ Len(Append(said, word[1])) = m + 1
      /\ Append(said, word[1])[m + 1] = word[1]
      /\ \A i \in 1 .. m : Append(said, word[1])[i] = said[i]
  BY <1>2, <1>5, AppendProperties
<1>8. m % p = 0  BY <1>1, RoundsDivide
<1>9. ASSUME NEW i \in 1 .. m + 1 PROVE Append(said, word[1])[i] = word[((i - 1) % p) + 1]
  <2>1. CASE i = m + 1
    <3>1. (i - 1) % p = 0  BY <2>1, <1>8
    <3>2. ((i - 1) % p) + 1 = 1  BY <3>1
    <3> QED  BY <2>1, <3>2, <1>7
  <2>2. CASE i # m + 1
    <3>1. i \in 1 .. m  BY <2>2
    <3> QED  BY <3>1, <1>6, <1>7, Zenon
  <2> QED  BY <2>1, <2>2
<1> QED  BY <1>1, <1>3, <1>7, <1>9, Zenon DEF Spells

(* The detector's window closes exactly where a word is being said again.  *)
LEMMA RepeatsAreRunaways ==
  ASSUME NEW X, NEW s \in Seq(X), NEW n \in Nat, MaxCycle \in Nat
  PROVE  Repeats(s, n) <=> RunsAway(s, n, X)
<1>1. PICK l \in Nat : l = Len(s)  OBVIOUS
<1>2. ASSUME NEW p \in Nat \ {0}, NEW w \in Nat, w = p * n + 1, w <= l
      PROVE  /\ SubSeq(s, l - w + 1, l) \in Seq(X) /\ Len(SubSeq(s, l - w + 1, l)) = w
             /\ \A i \in 1 .. w : SubSeq(s, l - w + 1, l)[i] = s[l - w + i]
  <2>1. l - w + 1 \in 1 .. l + 1  BY <1>2
  <2> QED  BY <2>1, <1>1
<1>3. ASSUME NEW p \in 1 .. MaxCycle, Closes(s, p, n) PROVE RunsAway(s, n, X)
  <2>1. p \in Nat \ {0} /\ p * n \in Nat  OBVIOUS
  <2>2. PICK w \in Nat : w = p * n + 1  BY <2>1
  <2>3. w <= l /\ \A i \in 1 .. w : s[l - w + i] = s[l - w + 1 + ((i - 1) % p)]
    BY <1>1, <1>3, <2>2, Zenon DEF Closes
  <2> DEFINE word == [j \in 1 .. p |-> IF j <= w THEN s[l - w + j] ELSE s[l]]
             t == Append(Said(word, n), word[1])
  <2>4. word \in [1 .. p -> X]
    <3>1. 1 <= w /\ l >= 1  BY <2>1, <2>2, <2>3
    <3>2. \A i \in 1 .. l : s[i] \in X  BY <1>1
    <3>3. ASSUME NEW j \in 1 .. p PROVE (IF j <= w THEN s[l - w + j] ELSE s[l]) \in X
      <4>1. l \in 1 .. l  BY <3>1
      <4>2. j <= w => l - w + j \in 1 .. l  BY <2>3
      <4> QED  BY <3>2, <4>1, <4>2
    <3> QED  BY <3>3
  <2>5. t \in Seq(X) /\ Len(t) = w /\ \A i \in 1 .. w : t[i] = word[((i - 1) % p) + 1]
    <3> HIDE DEF word, t
    <3>1. Spells(Append(Said(word, n), word[1]), X, w, word, p)
      BY <2>1, <2>2, <2>4, WhatIsSaid, Zenon
    <3> QED  BY <3>1, Zenon DEF Spells, t
  <2>6. ASSUME NEW i \in 1 .. w PROVE t[i] = s[l - w + i]
    <3>1. PICK r \in 0 .. p - 1 : r = (i - 1) % p  BY <2>1
    <3>2. r <= i - 1  BY <3>1, <2>1
    <3>3. word[r + 1] = s[l - w + (r + 1)]  BY <3>2, <3>1
    <3>4. l - w + (r + 1) = l - w + 1 + r  OBVIOUS
    <3>5. t[i] = word[r + 1]
      <4> HIDE DEF t, word
      <4> QED  BY <2>5, <3>1
    <3> HIDE DEF t, word
    <3> QED  BY <2>3, <3>1, <3>3, <3>4, <3>5
  <2>7. SubSeq(s, l - w + 1, l) = t
    <3> HIDE DEF t
    <3> QED  BY <1>2, <2>1, <2>2, <2>3, <2>5, <2>6, SeqEqual
  <2>8. EndsWith(s, t)
    <3> HIDE DEF t
    <3> QED  BY <1>1, <2>3, <2>5, <2>7 DEF EndsWith
  <2>9. word \in WordsOf(X)  BY <2>4, Zenon DEF WordsOf
  <2> QED  BY <2>8, <2>9, Zenon DEF RunsAway
<1>4. ASSUME NEW word \in WordsOf(X), EndsWith(s, Append(Said(word, n), word[1]))
      PROVE  Repeats(s, n)
  <2>1. PICK p \in 1 .. MaxCycle : word \in [1 .. p -> X]  BY Zenon DEF WordsOf
  <2>2. p \in Nat \ {0} /\ p * n \in Nat  BY <2>1
  <2>3. PICK w \in Nat : w = p * n + 1  BY <2>2
  <2> DEFINE t == Append(Said(word, n), word[1])
  <2>4. t \in Seq(X) /\ Len(t) = w /\ \A i \in 1 .. w : t[i] = word[((i - 1) % p) + 1]
    <3>1. Spells(Append(Said(word, n), word[1]), X, w, word, p)
      BY <2>1, <2>2, <2>3, WhatIsSaid, Zenon
    <3> QED  BY <3>1, Zenon DEF Spells, t
  <2>5. w <= l /\ SubSeq(s, l - w + 1, l) = t
    <3>1. Len(t) <= Len(s) /\ SubSeq(s, Len(s) - Len(t) + 1, Len(s)) = t  BY <1>4, Zenon DEF EndsWith
    <3> HIDE DEF t
    <3> QED  BY <3>1, <1>1, <2>4
  <2> HIDE DEF t
  <2>6. \A i \in 1 .. w : t[i] = s[l - w + i]  BY <1>2, <2>2, <2>3, <2>5
  <2>7. ASSUME NEW i \in 1 .. w PROVE s[l - w + i] = s[l - w + 1 + ((i - 1) % p)]
    <3>1. PICK r \in 0 .. p - 1 : r = (i - 1) % p  BY <2>2
    <3>2. r <= i - 1 /\ r + 1 \in 1 .. w  BY <3>1, <2>2
    <3>3. t[i] = word[r + 1]  BY <2>4, <3>1
    <3>4. r % p = r  BY <3>1
    <3>5. ((r + 1) - 1) % p = r  BY <3>4
    <3>6. t[r + 1] = word[r + 1]  BY <2>4, <3>2, <3>5
    <3>7. l - w + (r + 1) = l - w + 1 + r  OBVIOUS
    <3> QED  BY <2>6, <3>1, <3>2, <3>3, <3>6, <3>7
  <2>8. Closes(s, p, n)  BY <1>1, <2>3, <2>5, <2>7, Zenon DEF Closes
  <2> QED  BY <2>1, <2>8 DEF Repeats
<1> QED  BY <1>3, <1>4, Zenon DEF Repeats, RunsAway

(* Of the words said fewer than one time, only the letter is left.         *)
LEMMA NothingSaid ==
  ASSUME NEW X, NEW s \in Seq(X), Len(s) > 0, NEW n \in Int, n <= 0, MaxCycle \in Nat \ {0}
  PROVE  RunsAway(s, n, X)
<1>1. PICK l \in Nat : l = Len(s) /\ l > 0  OBVIOUS
<1>2. s[l] \in X  BY <1>1
<1> DEFINE word == [j \in 1 .. 1 |-> s[l]]
<1>3. word \in [1 .. 1 -> X] /\ Len(word) = 1 /\ word[1] = s[l]  BY <1>2
<1>4. word \in WordsOf(X)
  <2>1. 1 \in 1 .. MaxCycle  OBVIOUS
  <2> HIDE DEF word
  <2> QED  BY <2>1, <1>3, Zenon DEF WordsOf
<1> HIDE DEF word
<1>5. 1 .. n * Len(word) = {}  BY <1>3
<1>6. Said(word, n) = <<>>  BY <1>5 DEF Said
<1>7. Append(Said(word, n), word[1]) = <<s[l]>>  BY <1>3, <1>6
<1>8. SubSeq(s, l - 1 + 1, l) = <<s[l]>>
  <2>1. SubSeq(s, l, l) = [i \in 1 .. 1 |-> s[l + i - 1]]  BY <1>1
  <2>2. SubSeq(s, l, l) \in Seq(X) /\ Len(SubSeq(s, l, l)) = 1 /\ SubSeq(s, l, l)[1] = s[l]  BY <1>1, <2>1
  <2>3. <<s[l]>> \in Seq(X) /\ Len(<<s[l]>>) = 1 /\ <<s[l]>>[1] = s[l]  BY <1>2
  <2>4. SubSeq(s, l, l) = <<s[l]>>
    <3>1. \A i \in 1 .. 1 : i = 1  OBVIOUS
    <3> QED  BY <2>2, <2>3, <3>1, SeqEqual
  <2>5. l - 1 + 1 = l  OBVIOUS
  <2> QED  BY <2>4, <2>5
<1>9. EndsWith(s, <<s[l]>>)  BY <1>1, <1>8 DEF EndsWith
<1> QED  BY <1>4, <1>7, <1>9, Zenon DEF RunsAway

(* What the second tier finds in the shapes of the kept calls is a runaway *)
(* in the shapes of all of them.                                           *)
LEMMA ShapesRunAway ==
  ASSUME LoopAssumption, Remembers, NEW c \in Calls, HasShape(c),
         Repeats(Append(Shapes(history), Shape[c]), FuzzyRounds)
  PROVE  RunsAway(Shapes(Append(approved, c)), Threshold + 1, ShapesThere)
<1>1. MaxCycle \in Nat \ {0} /\ Keep \in Nat \ {0} /\ Threshold \in Int  BY DEF LoopAssumption
<1>2. history \in Seq(Calls) /\ approved \in Seq(Calls) /\ history = LastKept(approved)
  BY DEF Remembers
<1>3. Shapes(history) \in Seq(ShapesThere) /\ Shapes(approved) \in Seq(ShapesThere) /\ Shape[c] \in ShapesThere
  BY <1>2, ShapesTyped DEF ShapesThere
<1>4. IsEndOf(Shapes(history), Shapes(approved))
  <2>1. PICK d \in Nat : d <= Len(approved) /\ history = SubSeq(approved, d + 1, Len(approved))
    <3>1. CASE Len(approved) > Keep
      <4>1. Len(approved) - Keep \in Nat /\ Len(approved) - Keep <= Len(approved)  BY <3>1, <1>1, <1>2
      <4> QED  BY <4>1, <3>1, <1>2 DEF LastKept
    <3>2. CASE ~(Len(approved) > Keep)
      <4>1. history = approved  BY <3>2, <1>2, Zenon DEF LastKept
      <4>2. approved = SubSeq(approved, 0 + 1, Len(approved))  BY <1>2
      <4>3. 0 <= Len(approved)  BY <1>2
      <4> QED  BY <4>1, <4>2, <4>3
    <3> QED  BY <3>1, <3>2
  <2> QED  BY <2>1, <1>2, ShapesOfEnd
<1>5. IsEndOf(Append(Shapes(history), Shape[c]), Append(Shapes(approved), Shape[c]))
  BY <1>3, <1>4, EndOfAppends
<1> DEFINE all == Append(Shapes(approved), Shape[c])
<1>6. Shapes(Append(approved, c)) = all  BY <1>2, ShapesOfAppend
<1>7. all \in Seq(ShapesThere) /\ Len(all) > 0  BY <1>3
<1>8. FuzzyRounds \in Nat \ {0}  BY <1>1 DEF FuzzyRounds, AtLeastOne
<1>9. Append(Shapes(history), Shape[c]) \in Seq(ShapesThere)  BY <1>3
<1>10. Repeats(all, FuzzyRounds)
  <2> HIDE DEF all
  <2>1. IsEndOf(Append(Shapes(history), Shape[c]), all)  BY <1>5 DEF all
  <2> QED  BY <2>1, <1>1, <1>7, <1>8, <1>9, EndRepeats
<1> HIDE DEF all
<1>11. RunsAway(all, FuzzyRounds, ShapesThere)  BY <1>1, <1>7, <1>8, <1>10, RepeatsAreRunaways
<1>12. CASE Threshold + 1 >= 1
  <2>1. FuzzyRounds = Threshold + 1  BY <1>1, <1>12 DEF FuzzyRounds, AtLeastOne
  <2> QED  BY <2>1, <1>6, <1>11
<1>13. CASE ~(Threshold + 1 >= 1)
  <2>1. Threshold + 1 \in Int /\ Threshold + 1 <= 0  BY <1>1, <1>13
  <2>2. RunsAway(all, Threshold + 1, ShapesThere)  BY <2>1, <1>1, <1>7, NothingSaid
  <2> QED  BY <2>2, <1>6
<1> QED  BY <1>12, <1>13

(* The exact tier answers of the kept calls what is true of all of them.   *)
LEMMA ExactIsRunaway ==
  ASSUME LoopAssumption, WindowFits, Remembers, NEW c \in Calls
  PROVE  Repeats(Append(history, c), ExactRounds) <=> RunsAway(Append(approved, c), ExactRounds, Calls)
<1>1. Repeats(Append(history, c), ExactRounds) <=> Repeats(Append(approved, c), ExactRounds)
  BY KeptSuffices DEF NothingForgotten
<1>2. MaxCycle \in Nat /\ ExactRounds \in Nat  BY RoundsPositive DEF LoopAssumption
<1>3. Append(approved, c) \in Seq(Calls)  BY DEF Remembers
<1> QED  BY <1>1, <1>2, <1>3, RepeatsAreRunaways

(* The gate refuses the runaways and nothing else, over everything a       *)
(* session ever approved, for every detector whose longest window fits in  *)
(* the row.                                                                *)
THEOREM RunawaysAndNothingElse ==
  ASSUME LoopAssumption, WindowFits PROVE LoopSpec => OnlyRunawaysRefused
<1>1. Remembers /\ [LoopNext]_loopVars => [~RunawayApproved /\ ~FalseAlarm]_loopVars
  <2> SUFFICES ASSUME Remembers, LoopNext PROVE ~RunawayApproved /\ ~FalseAlarm  OBVIOUS
  <2>1. ASSUME NEW c \in Calls, NEW e \in BOOLEAN, Approve(c, e)
        PROVE  ~RunawayApproved /\ ~FalseAlarm
    <3>1. last' = [call |-> c, enforced |-> e, how |-> "approved"]  BY <2>1, Zenon DEF Approve, Answered
    <3>2. last'.call = c /\ last'.enforced = e /\ last'.how = "approved"  BY <3>1
    <3>3. ~FalseAlarm  BY <3>2 DEF FalseAlarm
    <3>4. ASSUME RunawayApproved PROVE FALSE
      <4>1. e /\ c \notin Polls /\ RunsAway(Append(approved, c), ExactRounds, Calls)
        BY <3>2, <3>4, Zenon DEF RunawayApproved
      <4>2. ~IsRepeat(c)  BY <2>1, <4>1, Zenon DEF Approve
      <4>3. ~Repeats(Append(history, c), ExactRounds)  BY <4>2, Zenon DEF IsRepeat
      <4> QED  BY <4>1, <4>3, ExactIsRunaway
    <3> QED  BY <3>3, <3>4
  <2>2. ASSUME NEW c \in Calls, NEW f \in BOOLEAN, Refuse(c, f)
        PROVE  ~RunawayApproved /\ ~FalseAlarm
    <3>1. last' = [call |-> c, enforced |-> TRUE, how |-> "refused"]  BY <2>2, Zenon DEF Refuse, Answered
    <3>2. last'.call = c  BY <3>1
    <3>3. ~RunawayApproved  BY <2>2, Zenon DEF Refuse, RunawayApproved
    <3>4. ASSUME FalseAlarm PROVE FALSE
      <4>1. /\ ~RunsAway(Append(approved, c), ExactRounds, Calls)
            /\ ~(HasShape(c) /\ RunsAway(Shapes(Append(approved, c)), Threshold + 1, ShapesThere))
        BY <3>2, <3>4, Zenon DEF FalseAlarm, ShapesThere
      <4>2. \/ Repeats(Append(history, c), ExactRounds)
            \/ HasShape(c) /\ Repeats(Append(Shapes(history), Shape[c]), FuzzyRounds)
        BY <2>2, Zenon DEF Refuse, IsRepeat, HasShape
      <4>3. CASE Repeats(Append(history, c), ExactRounds)
        BY <4>1, <4>3, ExactIsRunaway
      <4>4. CASE HasShape(c) /\ Repeats(Append(Shapes(history), Shape[c]), FuzzyRounds)
        BY <4>1, <4>4, ShapesRunAway
      <4> QED  BY <4>2, <4>3, <4>4
    <3> QED  BY <3>3, <3>4
  <2>3. CASE Resume  BY <2>3, Zenon DEF Resume, RunawayApproved, FalseAlarm
  <2> QED  BY <2>1, <2>2, <2>3 DEF LoopNext, Judge
<1> QED  BY <1>1, RowRemembersTheEnd, PTL DEF LoopSpec, OnlyRunawaysRefused
=============================================================================

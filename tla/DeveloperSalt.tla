----------------------------- MODULE DeveloperSalt -----------------------------
(***************************************************************************)
(* The random value a machine keeps and mixes into the name it sends for   *)
(* its developer (hooks/threefold_hook.py, developer_salt).  Every tool    *)
(* call of every agent is a process of its own that looks for the file,    *)
(* makes it if it is not there, and replaces one it cannot use.  A disk    *)
(* may fail or write less than it is given, and a process may be killed.   *)
(***************************************************************************)
EXTENDS Integers

CONSTANTS
  Hooks,      \* the processes; a process draws one salt, which goes by its name
  FilesLeft,       \* the files an earlier day may have left
  MaxFaults   \* BOUND: kills, failed reads and writes, short writes

None  == "none"
Long  == "long ago"
Drawn == Hooks \cup {Long}

(* A salt is known by whoever drew it and how much of it was written: too   *)
(* little to be used (MIN_SALT_BYTES), enough, or all of it.  A process     *)
(* that opened a file goes on writing to it when another has been renamed   *)
(* over it.                                                                 *)
Lengths        == {"little", "part", "whole"}
Short          == {"little", "part"}
Salt(h, much)  == [by |-> h, much |-> much]
Salts          == [by : Drawn \cup {None}, much : Lengths]
NoFile         == Salt(None, "little")     \* nothing there, as nothing read
NoSalt         == NoFile

VARIABLES
  file,     \* what the path leads to
  at,       \* where each process is
  answer,   \* the salt each process was given; NoSalt stands for none yet, and for anonymous
  faults,
  torn,     \* HISTORY: a file was taken for one that cannot be used, or its maker for more than it holds
  blind,    \* HISTORY: a usable one was
  settled   \* HISTORY: the salt found by a process that started when none was at work

saltVars == <<file, at, answer, faults, torn, blind, settled>>

Places == {"idle", "look", "create", "write", "look again", "replace", "reread", "done"}
AtWork(h) == at[h] \notin {"idle", "done"}

SaltInit ==
  /\ file \in FilesLeft
  /\ at = [h \in Hooks |-> "idle"] /\ answer = [h \in Hooks |-> NoSalt]
  /\ faults = 0 /\ torn = FALSE /\ blind = FALSE /\ settled = NoSalt

-----------------------------------------------------------------------------
(* existing()                                                              *)
Usable == file.much # "little"

Goes(h, place) == at' = [at EXCEPT ![h] = place]
Gets(h, salt)  == Goes(h, "done") /\ answer' = [answer EXCEPT ![h] = salt]
Found          == IF Usable THEN file ELSE NoSalt

Faulty == faults < MaxFaults /\ faults' = faults + 1

Start(h) ==
  /\ at[h] = "idle" /\ Goes(h, "look")
  /\ settled' = IF settled = NoSalt /\ ~\E g \in Hooks : AtWork(g) THEN Found ELSE settled
  /\ UNCHANGED <<file, answer, faults, torn, blind>>

Look(h) ==
  /\ at[h] = "look"
  /\ \/ Usable /\ Gets(h, file) /\ UNCHANGED faults
     \/ ~Usable /\ Goes(h, "create") /\ UNCHANGED <<answer, faults>>
     \/ Faulty /\ Goes(h, "create") /\ UNCHANGED answer
  /\ UNCHANGED <<file, torn, blind, settled>>

(* Slip: the file is opened for writing whether or not it is there.        *)
CreateOver(h) ==
  /\ at[h] = "create" /\ file' = Salt(h, "little") /\ Goes(h, "write")
  /\ UNCHANGED <<answer, faults, torn, blind, settled>>

(* O_CREAT and O_EXCL: the file is there, and empty, before it is written.  *)
Create(h) ==
  /\ at[h] = "create"
  /\ IF file = NoFile THEN file' = Salt(h, "little") /\ Goes(h, "write")
                      ELSE Goes(h, "look again") /\ UNCHANGED file
  /\ UNCHANGED <<answer, faults, torn, blind, settled>>

(* What the write returns is not looked at.                                *)
Write(h) ==
  /\ at[h] = "write" /\ Gets(h, Salt(h, "whole"))
  /\ \/ file' = (IF file = Salt(h, "little") THEN Salt(h, "whole") ELSE file) /\ UNCHANGED <<faults, torn>>
     \/ /\ Faulty /\ torn' = TRUE
        /\ \E much \in Short : file' = IF file = Salt(h, "little") THEN Salt(h, much) ELSE file
  /\ UNCHANGED <<blind, settled>>

Mistakes == torn' = TRUE /\ blind' = (blind \/ Usable)

LookAgain(h) ==
  /\ at[h] = "look again"
  /\ \/ Usable /\ Gets(h, file) /\ UNCHANGED <<faults, torn, blind>>
     \/ ~Usable /\ Goes(h, "replace") /\ Mistakes /\ UNCHANGED <<answer, faults>>
     \/ Faulty /\ Goes(h, "replace") /\ Mistakes /\ UNCHANGED answer
  /\ UNCHANGED <<file, settled>>

(* _replace_unusable_salt: one rename.                                     *)
Replace(h) ==
  /\ at[h] = "replace" /\ Goes(h, "reread")
  /\ \/ file' = Salt(h, "whole") /\ UNCHANGED faults
     \/ file' \in {Salt(h, much) : much \in Short} \cup {file} /\ Faulty
  /\ UNCHANGED <<answer, torn, blind, settled>>

Reread(h) ==
  /\ at[h] = "reread"
  /\ \/ Gets(h, Found) /\ UNCHANGED faults
     \/ Gets(h, NoSalt) /\ Faulty
  /\ UNCHANGED <<file, torn, blind, settled>>

(* Nothing can be written here, or the write failed: except OSError.       *)
Refused(h) ==
  /\ at[h] \in {"create", "write"} /\ Goes(h, "reread") /\ Faulty
  /\ UNCHANGED <<file, answer, torn, blind, settled>>

Killed(h) ==
  /\ AtWork(h) /\ Goes(h, "done") /\ Faulty
  /\ UNCHANGED <<file, answer, torn, blind, settled>>

SaltNext ==
  \E h \in Hooks :
    \/ Start(h) \/ Look(h) \/ Create(h) \/ Write(h) \/ LookAgain(h) \/ Replace(h) \/ Reread(h)
    \/ Refused(h) \/ Killed(h)

SaltSpec == SaltInit /\ [][SaltNext]_saltVars

-----------------------------------------------------------------------------
TypeOK ==
  /\ file \in Salts /\ at \in [Hooks -> Places] /\ answer \in [Hooks -> Salts]
  /\ faults \in Nat /\ torn \in BOOLEAN /\ blind \in BOOLEAN /\ settled \in Salts

SameIdentity ==
  \A g, h \in Hooks : answer[g] # NoSalt /\ answer[h] # NoSalt => answer[g] = answer[h]

(* The docstring's promise: two hooks starting at the same moment, on a    *)
(* disk that works, cannot give one developer two identities.              *)
OneIdentity == faults = 0 => SameIdentity

(* They cannot unless a hook met a file it could not use, be it one that   *)
(* another had made and not yet written, or one it wrote short itself.     *)
OneIdentityUnlessTorn == ~torn => SameIdentity

(* Once a process has started on a usable file with no other at work, no   *)
(* fault costs the developer that identity, unless one process twice fails *)
(* to read what is there.                                                  *)
SettledForGood == settled # NoSalt /\ ~blind => file = settled
=============================================================================

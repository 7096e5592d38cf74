-------------------------------- MODULE Rulebook --------------------------------
(***************************************************************************)
(* What calls are judged by: the policy, the layering rules every project  *)
(* shares, and the rules of one project (application/evaluator.py,         *)
(* infrastructure/dynamo_repo.py).  Each is a book of its own: an item of  *)
(* the table, saved through any container and copied by every container    *)
(* for an interval.  A container that cannot read it goes on with what it  *)
(* holds, or with what its repository kept in memory.                      *)
(*                                                                         *)
(* A set is told by the number of its save; HISTORY: and by the number of  *)
(* the put that stored it.  Time is relative, as in ProjectStage: ages     *)
(* grow with Tick and stop where they decide nothing.                      *)
(***************************************************************************)
EXTENDS Integers

CONSTANTS
  Holders,      \* the containers
  Books,        \* "policy", "shared", "own": those a behaviour may be about
  Found,        \* what the table may hold at first
  Refresh,      \* RULES_REFRESH_SECONDS, POLICY_REFRESH_SECONDS
  RequestTime,  \* the longest a request may run
  MaxSets,      \* BOUND: sets saved in a behaviour
  MaxFailed     \* BOUND: failed store calls and recycled containers

Nothing  == [no |-> 0, put |-> 0]   \* no set saved; held, the shipped defaults or no rules of one's own
Unusable == [no |-> -1, put |-> 0]  \* a stored set that does not normalise or parse

UsableSet(set)   == set.no > 0
NeverStored(set) == UsableSet(set) /\ set.put = 0

BookFits ==
  /\ Books \subseteq {"policy", "shared", "own"} /\ Found \subseteq {Nothing, Unusable}
  /\ {Refresh, RequestTime, MaxSets, MaxFailed} \subseteq Nat /\ Refresh > 0

VARIABLES
  book,    \* the book this is about
  stored,  \* its item
  memory,  \* memory[c]: what the container's repository remembers saving
  held,    \* held[c]: the set and its age; HISTORY: whether it outlived a failure,
           \*   and how long it has not been the stored one
  serving, \* serving[c]: the request the container serves, and how long it has run
  sets, failed,
  judgedBy   \* HISTORY: judgedBy[c]: the latest put whose set the container has judged by

bookVars == <<book, stored, memory, held, serving, sets, failed, judgedBy>>

NotHeld    == [set |-> Nothing, age |-> Refresh, kept |-> FALSE, late |-> 0]
NotServing == [at |-> "idle", wait |-> 0]

BookInit ==
  /\ book \in Books /\ stored \in Found
  /\ memory = [c \in Holders |-> Nothing]
  /\ held = [c \in Holders |-> NotHeld]
  /\ serving = [c \in Holders |-> NotServing]
  /\ sets = 0 /\ failed = 0
  /\ judgedBy = [c \in Holders |-> 0]

FailedCall == failed < MaxFailed /\ failed' = failed + 1

Turns(c, to) == serving' = [serving EXCEPT ![c].at = to]
Holds(c, set, kept) == held' = [held EXCEPT ![c] = [set |-> set, age |-> 0, kept |-> kept, late |-> 0]]

-----------------------------------------------------------------------------
(* A call: a copy past its interval is read again, and the gates judge.    *)

(* Slip: a set once found is not read again.                               *)
DueUntilFound(copy) == copy.age >= Refresh /\ copy.set = Nothing

Due(copy) == copy.age >= Refresh

Arrive(c) ==
  /\ serving[c].at = "idle"
  /\ Turns(c, IF Due(held[c]) THEN "read" ELSE "judge")
  /\ UNCHANGED <<stored, memory, held, sets, failed, judgedBy>>

(* load_policy swallows a failed read: that, like a table without the      *)
(* item, gives what this container remembers.  A read of rules raises.     *)
Remembered(c) == IF UsableSet(memory[c]) THEN memory[c] ELSE held[c].set

(* Nothing stored sends rules back to the shipped or the shared set; what  *)
(* cannot be used changes nothing.                                         *)
Answered(c) ==
  CASE UsableSet(stored)                   -> stored
    [] stored = Unusable                   -> held[c].set
    [] stored = Nothing /\ book = "policy" -> Remembered(c)
    [] OTHER                               -> Nothing

(* Slip: a container that cannot read its rules starts over, as a new one. *)
AfterFailureAfresh(c) == IF book = "policy" THEN Remembered(c) ELSE Nothing

AfterFailure(c) == IF book = "policy" THEN Remembered(c) ELSE held[c].set

Read(c) ==
  /\ serving[c].at = "read"
  /\ Turns(c, "judge")
  /\ \/ Holds(c, Answered(c), Answered(c) # stored) /\ UNCHANGED failed
     \/ Holds(c, AfterFailure(c), TRUE) /\ FailedCall
  /\ UNCHANGED <<stored, memory, sets, judgedBy>>

Judge(c) ==
  /\ serving[c].at = "judge"
  /\ serving' = [serving EXCEPT ![c] = NotServing]
  /\ judgedBy' = [judgedBy EXCEPT ![c] = IF held[c].set.put > @ THEN held[c].set.put ELSE @]
  /\ UNCHANGED <<stored, memory, held, sets, failed>>

-----------------------------------------------------------------------------
(* POST /rules, POST /policy: a set that cannot be used is refused whole   *)
(* and changes nothing; another is held at once, put next, and answered    *)
(* 200 whatever came of it.                                                *)
Submit(c) ==
  /\ serving[c].at = "idle" /\ sets < MaxSets
  /\ Turns(c, "check")
  /\ UNCHANGED <<stored, memory, held, sets, failed, judgedBy>>

RefuseSet(c) ==
  /\ serving[c].at = "check"
  /\ serving' = [serving EXCEPT ![c] = NotServing]
  /\ UNCHANGED <<stored, memory, held, sets, failed, judgedBy>>

(* update_rules, update_policy *)
SaveSet(c) ==
  /\ serving[c].at = "check" /\ sets < MaxSets
  /\ sets' = sets + 1
  /\ Holds(c, [no |-> sets', put |-> 0], FALSE)
  /\ Turns(c, "put")
  /\ UNCHANGED <<stored, memory, failed, judgedBy>>

(* save_policy: in memory whether the table took it or not; of what is     *)
(* there only the policy is read back.                                     *)
Remembers(c, set) == memory' = IF book = "policy" THEN [memory EXCEPT ![c] = set] ELSE memory

PutSet(c) ==
  /\ serving[c].at = "put"
  /\ serving' = [serving EXCEPT ![c] = NotServing]
  /\ \/ /\ stored' = [held[c].set EXCEPT !.put = stored.put + 1]
        /\ held' = [held EXCEPT ![c].set = stored']
        /\ UNCHANGED failed
     \/ FailedCall /\ held' = [held EXCEPT ![c].kept = TRUE] /\ UNCHANGED stored
  /\ Remembers(c, held'[c].set)
  /\ UNCHANGED <<sets, judgedBy>>

(* _hold: a container holds so many projects, the least used goes first.   *)
Forget(c) ==
  /\ book = "own" /\ serving[c].at = "idle" /\ held[c] # NotHeld
  /\ held' = [held EXCEPT ![c] = NotHeld]
  /\ judgedBy' = [judgedBy EXCEPT ![c] = 0]
  /\ UNCHANGED <<stored, memory, serving, sets, failed>>

(* A new container reads before it serves.                                 *)
Recycle(c) ==
  /\ FailedCall
  /\ held' = [held EXCEPT ![c] = NotHeld]
  /\ memory' = [memory EXCEPT ![c] = Nothing]
  /\ serving' = [serving EXCEPT ![c] = NotServing]
  /\ judgedBy' = [judgedBy EXCEPT ![c] = 0]
  /\ UNCHANGED <<stored, sets>>

-----------------------------------------------------------------------------
Lesser(a, b) == IF a < b THEN a ELSE b

TooLate == Refresh + RequestTime

Older(copy) ==
  [copy EXCEPT !.age = Lesser(@ + 1, Refresh), !.late = IF copy.set = stored THEN @ ELSE Lesser(@ + 1, TooLate)]

Served(work) == IF work.at = "idle" THEN work ELSE [work EXCEPT !.wait = @ + 1]

Tick ==
  /\ \A c \in Holders : serving[c].at # "idle" => serving[c].wait < RequestTime
  /\ held' = [c \in Holders |-> Older(held[c])]
  /\ serving' = [c \in Holders |-> Served(serving[c])]
  /\ UNCHANGED <<stored, memory, sets, failed, judgedBy>>

BookStep(c) ==
  \/ Arrive(c) \/ Read(c) \/ Judge(c)
  \/ Submit(c) \/ RefuseSet(c) \/ SaveSet(c) \/ PutSet(c)
  \/ Forget(c) \/ Recycle(c)

BookNext == UNCHANGED book /\ (Tick \/ \E c \in Holders : BookStep(c))

BookSpec == BookInit /\ [][BookNext]_bookVars

-----------------------------------------------------------------------------
(* A call is judged, in whatever container, by a policy and by rules that  *)
(* were on the table within the interval and the time of a request, unless *)
(* that container could not read or store them since                       *)
(* (RULES_REFRESH_SECONDS, POLICY_REFRESH_SECONDS).                        *)
JudgesRecent == \A c \in Holders : Judge(c) => held[c].kept \/ held[c].late < TooLate

JudgedByRecent == [][JudgesRecent]_bookVars

(* However often a read fails, no container goes back to rules the table   *)
(* held before those it has judged by, nor to the shipped set or from a    *)
(* project's rules to the shared ones (refresh_rules_if_stale,             *)
(* _project_rules_for), unless it was made anew or had to forget.          *)
GoesForward ==
  book # "policy" => \A c \in Holders : Judge(c) => NeverStored(held[c].set) \/ held[c].set.put >= judgedBy[c]

RulesNeverGoBack == [][GoesForward]_bookVars

(* A read of the policy that fails keeps the policy held                   *)
(* (refresh_policy_if_stale).                                              *)
KeepsOnFailure ==
  \A c \in Holders : book = "policy" /\ Read(c) /\ failed' # failed => held'[c].set = held[c].set

FailedReadKeepsPolicy == [][KeepsOnFailure]_bookVars
=============================================================================
